--------------------------- MODULE SupervisedProofs ---------------------------
(***************************************************************************)
(* What holds of dev servers and tunnels for every set of sites, scripts   *)
(* and labels and every MAX_FAILURES: their types, that what is there is   *)
(* what the config asks for, and that each of them climbs its ladder.      *)
(***************************************************************************)
EXTENDS Supervised, TLAPS

(* An entry as the supervisor leaves it: one that has a process neither      *)
(* pauses nor is given up, and one that has none has not been running long.  *)
Good == {e \in Entry : /\ e.child # "none" => e.failures < MaxFailures /\ ~e.waiting
                       /\ e.child = "none" => ~e.long}

Held(map) == map \in [Things -> Good \cup {None}]

Configs == [Sites -> Link \cup {None}]

IInv == /\ config \in Configs /\ disk \in Configs
        /\ Held(entries)
        /\ unsaved \subseteq Things

-------------------------------------------------------------------------------
(* One entry *)

LEMMA NoneIsApart == None \notin Scripts \cup Labels \cup Link \cup Good
BY SupervisedAssumption DEF Good

LEMMA SomeFailures == MaxFailures \in Nat /\ 1 <= MaxFailures
BY SupervisedAssumption

LEMMA BegunIsGood ==
  ASSUME NEW setting \in Scripts \cup Labels, NEW t, NEW refused
  PROVE  /\ Started(New(setting), t \in refused) \in Good
         /\ Started(New(setting), t \in refused).setting = setting
<1> DEFINE refusal == [setting |-> setting, child |-> "none", failures |-> 1,
                       waiting |-> TRUE, long |-> FALSE]
           running == [setting |-> setting, child |-> "running", failures |-> 0,
                       waiting |-> FALSE, long |-> FALSE]
<1>1. refusal \in Good /\ refusal.setting = setting
  <2>1. refusal \in Entry BY SomeFailures DEF Entry
  <2> QED BY <2>1 DEF Good
<1>2. running \in Good /\ running.setting = setting
  <2>1. running \in Entry BY SomeFailures DEF Entry
  <2> QED BY <2>1, SomeFailures DEF Good
<1>3. t \notin refused => Started(New(setting), t \in refused) = running
  BY DEF Started, New
<1>4. t \in refused => Started(New(setting), t \in refused) = refusal
  <2>1. t \in refused => Started(New(setting), t \in refused) =
          [setting |-> setting, child |-> "none", failures |-> 0 + 1, waiting |-> TRUE, long |-> FALSE]
    BY DEF Started, New
  <2>2. 0 + 1 = 1 OBVIOUS
  <2> QED BY ONLY <2>1, <2>2, Zenon DEF refusal
<1> QED BY <1>1, <1>2, <1>3, <1>4

(* One that is noticed to have ended pauses, and is an entry all the same. *)
LEMMA ReapedIsGood ==
  ASSUME NEW e \in Good
  PROVE  Reaped(e) \in Good /\ Reaped(e).setting = e.setting
<1>1. CASE e.child # "exited" BY <1>1 DEF Reaped
<1>2. CASE e.child = "exited"
  <2> DEFINE count == IF e.long THEN 1 ELSE e.failures + 1
  <2>1. e \in Entry /\ e.failures < MaxFailures BY <1>2 DEF Good
  <2>2. count \in 0..MaxFailures BY <2>1, SomeFailures DEF Entry
  <2>3. Reaped(e) = [e EXCEPT !.child = "none", !.long = FALSE, !.waiting = TRUE, !.failures = count]
    BY <1>2 DEF Reaped
  <2> HIDE DEF count
  <2> QED BY <2>1, <2>2, <2>3 DEF Good, Entry
<1> QED BY <1>1, <1>2

LEMMA KeptIsGood ==
  ASSUME NEW e \in Good, NEW t, NEW refused
  PROVE  Kept(e, t \in refused) \in Good /\ Kept(e, t \in refused).setting = e.setting
<1> DEFINE seen == Reaped(e)
<1>1. seen \in Good /\ seen.setting = e.setting BY ReapedIsGood
<1>2. Kept(e, t \in refused) = IF MayStart(seen) THEN Started(seen, t \in refused) ELSE seen
  BY DEF Kept
<1> HIDE DEF seen
<1>3. CASE ~MayStart(seen) BY <1>1, <1>2, <1>3
<1>4. CASE MayStart(seen) /\ t \in refused
  <2>1. Kept(e, t \in refused) = [seen EXCEPT !.failures = @ + 1, !.waiting = TRUE]
    BY <1>2, <1>4 DEF Started
  <2>2. seen.failures + 1 \in 0..MaxFailures /\ seen.child = "none"
    BY <1>1, <1>4, SomeFailures DEF MayStart, Good, Entry
  <2> QED BY <1>1, <2>1, <2>2 DEF Good, Entry
<1>5. CASE MayStart(seen) /\ t \notin refused
  <2>1. Kept(e, t \in refused) = [seen EXCEPT !.child = "running", !.long = FALSE]
    BY <1>2, <1>5 DEF Started
  <2> QED BY <1>1, <1>5, <2>1 DEF MayStart, Good, Entry
<1> QED BY <1>3, <1>4, <1>5

LEMMA WatchedIsGood ==
  ASSUME NEW e \in Good PROVE Watched(e) \in Good /\ Watched(e).setting = e.setting
BY SomeFailures DEF Watched, Good, Entry

(* What `ensure` and `retain` make of an entry is what is wanted. *)
LEMMA EnsuredIsGood ==
  ASSUME NEW e \in Good \cup {None}, NEW setting \in Scripts \cup Labels \cup {None},
         NEW t, NEW refused
  PROVE  /\ Ensured(e, setting, t \in refused) \in Good \cup {None}
         /\ setting = None => Ensured(e, setting, t \in refused) = None
         /\ setting # None => /\ Ensured(e, setting, t \in refused) # None
                              /\ Ensured(e, setting, t \in refused).setting = setting
<1>1. CASE setting = None BY <1>1 DEF Ensured
<1>2. CASE setting # None /\ e # None /\ e.setting = setting
  <2>1. Ensured(e, setting, t \in refused) = Kept(e, t \in refused) BY <1>2 DEF Ensured
  <2> QED BY <1>2, <2>1, KeptIsGood, NoneIsApart
<1>3. CASE setting # None /\ ~(e # None /\ e.setting = setting)
  <2>1. Ensured(e, setting, t \in refused) = Started(New(setting), t \in refused) BY <1>3 DEF Ensured
  <2> QED BY <1>3, <2>1, BegunIsGood, NoneIsApart
<1> QED BY <1>1, <1>2, <1>3

(* What a config wants of a thing is something it can be started for. *)
LEMMA WantedKnown ==
  ASSUME NEW conf \in Configs, NEW t \in Things
  PROVE  Wanted(conf, t) \in Scripts \cup Labels \cup {None}
<1>1. t[1] \in {"dev", "tunnel"} /\ t[2] \in Sites BY DEF Things, Kinds
<1>2. conf[t[2]] # None => conf[t[2]] \in Link BY <1>1 DEF Configs
<1> QED BY <1>1, <1>2 DEF Wanted, Link

-------------------------------------------------------------------------------
(* All of them *)

(* A full pass leaves what the config wants, whatever was there. *)
LEMMA ReconcileCarriesOut ==
  ASSUME NEW conf \in Configs, NEW olds, Held(olds), Reconcile(conf, olds)
  PROVE  /\ Held(entries')
         /\ \A t \in Things :
              /\ Wanted(conf, t) = None => entries'[t] = None
              /\ Wanted(conf, t) # None => entries'[t] # None /\ entries'[t].setting = Wanted(conf, t)
<1>1. PICK refused \in Refusals :
        entries' = [t \in Things |-> Ensured(olds[t], Wanted(conf, t), t \in refused)]
  BY DEF Reconcile
<1>2. ASSUME NEW t \in Things
      PROVE  /\ Ensured(olds[t], Wanted(conf, t), t \in refused) \in Good \cup {None}
             /\ Wanted(conf, t) = None => Ensured(olds[t], Wanted(conf, t), t \in refused) = None
             /\ Wanted(conf, t) # None =>
                  /\ Ensured(olds[t], Wanted(conf, t), t \in refused) # None
                  /\ Ensured(olds[t], Wanted(conf, t), t \in refused).setting = Wanted(conf, t)
  BY WantedKnown, EnsuredIsGood DEF Held
<1> QED BY <1>1, <1>2 DEF Held

(* A pass over one site does so for its dev server. *)
LEMMA ReconcileSiteCarriesOut ==
  ASSUME IInv, NEW conf \in Configs, NEW s \in Sites, ReconcileSite(conf, s)
  PROVE  /\ Held(entries')
         /\ \A t \in Things \ {<<"dev", s>>} : entries'[t] = entries[t]
         /\ Wanted(conf, <<"dev", s>>) = None => entries'[<<"dev", s>>] = None
         /\ Wanted(conf, <<"dev", s>>) # None =>
              /\ entries'[<<"dev", s>>] # None
              /\ entries'[<<"dev", s>>].setting = Wanted(conf, <<"dev", s>>)
<1> DEFINE t == <<"dev", s>>
<1>1. PICK refused \in Refusals :
        entries' = [entries EXCEPT ![t] = Ensured(@, Wanted(conf, t), t \in refused)]
  BY DEF ReconcileSite
<1>2. t \in Things BY DEF Things, Kinds
<1> HIDE DEF t
<1>3. entries[t] \in Good \cup {None} BY <1>2 DEF IInv, Held
<1>4. /\ Ensured(entries[t], Wanted(conf, t), t \in refused) \in Good \cup {None}
      /\ Wanted(conf, t) = None => Ensured(entries[t], Wanted(conf, t), t \in refused) = None
      /\ Wanted(conf, t) # None =>
           /\ Ensured(entries[t], Wanted(conf, t), t \in refused) # None
           /\ Ensured(entries[t], Wanted(conf, t), t \in refused).setting = Wanted(conf, t)
  <2>1. Wanted(conf, t) \in Scripts \cup Labels \cup {None} BY <1>2, WantedKnown
  <2> QED BY <1>3, <2>1, EnsuredIsGood
<1>5. entries'[t] = Ensured(entries[t], Wanted(conf, t), t \in refused)
  BY <1>1, <1>2 DEF IInv, Held
<1>6. Held(entries') /\ \A u \in Things \ {t} : entries'[u] = entries[u]
  BY <1>1, <1>2, <1>4 DEF IInv, Held
<1> QED BY <1>4, <1>5, <1>6 DEF t


(* Every variable keeps its kind under a full pass, and nothing is owed. *)
LEMMA PassKeeps ==
  ASSUME NEW conf \in Configs, NEW saved \in Configs, NEW olds, Held(olds), Reconcile(conf, olds),
         config' = conf, disk' = saved, unsaved' = {}
  PROVE  IInv' /\ FollowsConfig'
<1>1. IInv' BY ReconcileCarriesOut DEF IInv
<1>2. FollowsConfig' BY ReconcileCarriesOut DEF FollowsConfig
<1> QED BY <1>1, <1>2

(* A save that fails leaves the site's things unsaved. *)
LEMMA UnsavedKeeps ==
  ASSUME IInv, FollowsConfig, NEW s \in Sites, NEW link \in Link \cup {None},
         config' = [config EXCEPT ![s] = link], SaveFails(s)
  PROVE  IInv' /\ FollowsConfig'
<1>1. config' \in Configs BY DEF IInv, Configs
<1>2. unsaved' = unsaved \cup (Kinds \X {s}) /\ UNCHANGED <<disk, entries>> BY DEF SaveFails
<1>3. Kinds \X {s} \subseteq Things BY DEF Things
<1>4. IInv' BY <1>1, <1>2, <1>3 DEF IInv
<1>5. ASSUME NEW t \in Things \ unsaved' PROVE t \in Things \ unsaved /\ Wanted(config', t) = Wanted(config, t)
  <2>1. t \in Kinds \X Sites /\ t \notin Kinds \X {s} BY <1>2, <1>5 DEF Things
  <2>2. t[2] # s BY <2>1
  <2> QED BY <1>2, <2>2 DEF Wanted, IInv, Configs
<1>6. FollowsConfig' BY <1>2, <1>5 DEF FollowsConfig
<1> QED BY <1>4, <1>6

(* A change to one link that asks for no other tunnel is carried out by the  *)
(* pass over its site.                                                       *)
LEMMA SetSiteKeeps ==
  ASSUME IInv, FollowsConfig, NEW s \in Sites, NEW link \in Link \cup {None}, SetSite(s, link),
         link # None /\ link.tunnel # None => config[s] # None /\ link.tunnel = config[s].tunnel
  PROVE  IInv' /\ FollowsConfig'
<1>1. CASE SaveFails(s) BY <1>1, UnsavedKeeps DEF SetSite
<1>2. CASE /\ disk' = config' /\ unsaved' = unsaved \ {<<"dev", s>>}
           /\ ReconcileSite(config', s)
  <2>1. config' = [config EXCEPT ![s] = link] BY DEF SetSite
  <2>2. config' \in Configs BY <2>1 DEF IInv, Configs
  <2>3. /\ Held(entries')
        /\ \A t \in Things \ {<<"dev", s>>} : entries'[t] = entries[t]
        /\ Wanted(config', <<"dev", s>>) = None => entries'[<<"dev", s>>] = None
        /\ Wanted(config', <<"dev", s>>) # None =>
             /\ entries'[<<"dev", s>>] # None
             /\ entries'[<<"dev", s>>].setting = Wanted(config', <<"dev", s>>)
    BY <1>2, <2>2, ReconcileSiteCarriesOut
  <2>4. IInv' BY <1>2, <2>2, <2>3 DEF IInv
  <2>5. ASSUME NEW t \in Things \ unsaved', t # <<"dev", s>>
        PROVE  /\ t \in Things \ unsaved /\ entries'[t] = entries[t]
               /\ t[1] = "dev" => Wanted(config', t) = Wanted(config, t)
               /\ Wanted(config', t) # None => Wanted(config', t) = Wanted(config, t)
    <3>1. t \in Things \ unsaved /\ entries'[t] = entries[t] BY <1>2, <2>3, <2>5
    <3>2. CASE t[2] # s BY <2>1, <3>1, <3>2 DEF Wanted, IInv, Configs
    <3>3. CASE t[2] = s
      <4>1. t[1] = "tunnel" BY <2>5, <3>1, <3>3 DEF Things, Kinds
      <4>2. config'[s] = link BY <2>1 DEF IInv, Configs
      <4>3. Wanted(config', t) = IF link = None THEN None ELSE link.tunnel
        BY <3>3, <4>1, <4>2 DEF Wanted, Link
      <4>4. config[s] # None => Wanted(config, t) = config[s].tunnel
        BY <3>3, <4>1 DEF Wanted, IInv, Configs, Link
      <4> QED BY <3>1, <4>1, <4>3, <4>4
    <3> QED BY <3>1, <3>2, <3>3
  <2>6. FollowsConfig' BY <2>3, <2>5 DEF FollowsConfig
  <2> QED BY <2>4, <2>6
<1> QED BY <1>1, <1>2 DEF SetSite

LEMMA SetAllKeeps ==
  ASSUME IInv, FollowsConfig, NEW s \in Sites, NEW link \in Link \cup {None}, SetAll(s, link)
  PROVE  IInv' /\ FollowsConfig'
<1>1. CASE SaveFails(s) BY <1>1, UnsavedKeeps DEF SetAll
<1>2. CASE disk' = config' /\ unsaved' = {} /\ Reconcile(config', entries)
  <2>1. config' \in Configs BY DEF SetAll, IInv, Configs
  <2> QED BY <1>2, <2>1, PassKeeps DEF IInv
<1> QED BY <1>1, <1>2 DEF SetAll

(* A step that leaves the settings alone and changes no entry's setting. *)
LEMMA SettingsStay ==
  ASSUME IInv, FollowsConfig, UNCHANGED settings, Held(entries'),
         \A t \in Things : /\ entries'[t] = None <=> entries[t] = None
                           /\ entries[t] # None => entries'[t].setting = entries[t].setting
  PROVE  IInv' /\ FollowsConfig'
BY DEF IInv, FollowsConfig, settings

(* Changing an entry to another good one with the same setting. *)
LEMMA EntryChanges ==
  ASSUME IInv, FollowsConfig, UNCHANGED settings, NEW t \in Things, entries[t] # None,
         NEW e \in Good, e.setting = entries[t].setting, entries' = [entries EXCEPT ![t] = e]
  PROVE  IInv' /\ FollowsConfig'
<1>1. entries'[t] = e /\ e # None /\ \A u \in Things \ {t} : entries'[u] = entries[u]
  BY NoneIsApart DEF IInv, Held
<1>2. Held(entries') BY DEF IInv, Held
<1> QED BY <1>1, <1>2, SettingsStay

LEMMA RequestKeeps == IInv /\ FollowsConfig /\ Request => IInv' /\ FollowsConfig'
<1> SUFFICES ASSUME IInv, FollowsConfig, Request PROVE IInv' /\ FollowsConfig' OBVIOUS
<1> USE DEF IInv
<1>1. ASSUME NEW s \in Sites, NEW script \in Scripts \cup {None}, SetDev(s, script)
      PROVE  IInv' /\ FollowsConfig'
  <2>1. config[s] \in Link BY <1>1 DEF SetDev, Configs
  <2>2. [config[s] EXCEPT !.dev = script] \in Link BY <2>1 DEF Link
  <2>3. [config[s] EXCEPT !.dev = script].tunnel = config[s].tunnel BY <2>1 DEF Link
  <2> QED BY <1>1, <2>1, <2>2, <2>3, SetSiteKeeps DEF SetDev
<1>2. ASSUME NEW s \in Sites, NEW script \in Scripts \cup {None}, ApplySpec(s, script)
      PROVE  IInv' /\ FollowsConfig'
  <2>1. [NewLink EXCEPT !.dev = script] \in Link /\ [NewLink EXCEPT !.dev = script].tunnel = None
    BY DEF NewLink, Link
  <2> QED BY <1>2, <2>1, SetSiteKeeps DEF ApplySpec
<1>3. ASSUME NEW s \in Sites, NEW label \in Labels \cup {None}, SetShare(s, label)
      PROVE  IInv' /\ FollowsConfig'
  <2>1. config[s] \in Link BY <1>3 DEF SetShare, Configs
  <2>2. [config[s] EXCEPT !.tunnel = label] \in Link BY <2>1 DEF Link
  <2> QED BY <1>3, <2>2, SetAllKeeps DEF SetShare
<1>4. ASSUME NEW s \in Sites, LinkSite(s) \/ ImportSite(s) PROVE IInv' /\ FollowsConfig'
  <2>1. NewLink \in Link /\ NewLink.tunnel = None BY DEF NewLink, Link
  <2> QED BY <1>4, <2>1, SetSiteKeeps, SetAllKeeps DEF LinkSite, ImportSite
<1>5. ASSUME NEW s \in Sites, Unlink(s) PROVE IInv' /\ FollowsConfig'
  BY <1>5, SetSiteKeeps DEF Unlink
<1>6. CASE Pass BY <1>6, PassKeeps DEF Pass
<1>7. CASE Reload BY <1>7, PassKeeps DEF Reload
<1>8. CASE RepairBackends
  <2>1. Held([t \in Things |-> IF t[1] = "dev" THEN None ELSE entries[t]]) BY DEF Held
  <2> QED BY <1>8, <2>1, PassKeeps DEF RepairBackends
<1>9. ASSUME NEW t \in Things, Restart(t) PROVE IInv' /\ FollowsConfig'
  <2>1. PICK refused \in Refusals :
          entries' = [entries EXCEPT ![t] = Started(New(@.setting), t \in refused)]
    BY <1>9 DEF Restart
  <2> DEFINE e == Started(New(entries[t].setting), t \in refused)
  <2>2. entries[t] \in Good /\ entries[t] # None BY <1>9 DEF Restart, Held
  <2>3. entries[t].setting \in Scripts \cup Labels BY <2>2 DEF Good, Entry
  <2>4. e \in Good /\ e.setting = entries[t].setting BY <2>3, BegunIsGood
  <2>5. entries' = [entries EXCEPT ![t] = e] BY <2>1
  <2>6. UNCHANGED settings BY <1>9 DEF Restart
  <2> HIDE DEF e
  <2> QED BY <2>2, <2>4, <2>5, <2>6, EntryChanges
<1> QED BY <1>1, <1>2, <1>3, <1>4, <1>5, <1>6, <1>7, <1>8, <1>9 DEF Request

LEMMA SuperviseKeeps ==
  ASSUME IInv, FollowsConfig, NEW kind \in Kinds, Supervise(kind)
  PROVE  IInv' /\ FollowsConfig'
<1>1. PICK refused \in Refusals :
        entries' = [t \in Things |->
          CASE t[1] # kind \/ entries[t] = None -> entries[t]
            [] t[1] = kind /\ entries[t] # None /\ entries[t].child = "running" -> Watched(entries[t])
            [] OTHER -> Kept(entries[t], t \in refused)]
  BY DEF Supervise
<1>2. ASSUME NEW t \in Things
      PROVE  /\ entries'[t] \in Good \cup {None}
             /\ entries'[t] = None <=> entries[t] = None
             /\ entries[t] # None => entries'[t].setting = entries[t].setting
  <2>1. entries[t] \in Good \cup {None} BY DEF IInv, Held
  <2>2. \/ entries'[t] = entries[t]
        \/ entries[t] # None /\ entries'[t] = Watched(entries[t])
        \/ entries[t] # None /\ entries'[t] = Kept(entries[t], t \in refused)
    BY <1>1
  <2>3. entries[t] # None =>
          /\ Watched(entries[t]) \in Good /\ Watched(entries[t]).setting = entries[t].setting
    BY <2>1, WatchedIsGood
  <2>4. entries[t] # None =>
          /\ Kept(entries[t], t \in refused) \in Good
          /\ Kept(entries[t], t \in refused).setting = entries[t].setting
    <3> DEFINE e == entries[t]
    <3> HIDE DEF e
    <3> SUFFICES ASSUME e \in Good
                 PROVE  Kept(e, t \in refused) \in Good /\ Kept(e, t \in refused).setting = e.setting
      BY <2>1 DEF e
    <3> QED BY KeptIsGood
  <2> QED BY <2>1, <2>2, <2>3, <2>4, NoneIsApart
<1>3. Held(entries') BY <1>1, <1>2 DEF Held
<1>4. UNCHANGED settings BY DEF Supervise
<1> QED BY <1>2, <1>3, <1>4, SettingsStay

LEMMA TimeKeeps ==
  ASSUME IInv, FollowsConfig, NEW t \in Things, Elapse(t) \/ Season(t) \/ Exit(t)
  PROVE  IInv' /\ FollowsConfig'
<1>1. entries[t] \in Good /\ entries[t] # None /\ UNCHANGED settings
  BY DEF Elapse, Season, Exit, IInv, Held
<1>2. PICK e : entries' = [entries EXCEPT ![t] = e] /\
        \/ e = [entries[t] EXCEPT !.waiting = FALSE]
        \/ e = [entries[t] EXCEPT !.long = TRUE] /\ entries[t].child # "none"
        \/ e = [entries[t] EXCEPT !.child = "exited"] /\ entries[t].child = "running"
  BY DEF Elapse, Season, Exit
<1>3. e \in Good /\ e.setting = entries[t].setting
  BY <1>1, <1>2 DEF Good, Entry
<1> QED BY <1>1, <1>2, <1>3, EntryChanges

LEMMA NextKeeps == IInv /\ FollowsConfig /\ [Next]_vars => IInv' /\ FollowsConfig'
<1> SUFFICES ASSUME IInv, FollowsConfig, [Next]_vars PROVE IInv' /\ FollowsConfig' OBVIOUS
<1>1. CASE DaemonRestarts
  <2>1. Held([t \in Things |-> None]) BY DEF Held
  <2> QED BY <1>1, <2>1, PassKeeps DEF DaemonRestarts, IInv
<1>2. CASE UNCHANGED vars BY <1>2 DEF vars, IInv, FollowsConfig
<1> QED BY <1>1, <1>2, RequestKeeps, SuperviseKeeps, TimeKeeps DEF Next

LEMMA InitHolds == Init => IInv /\ FollowsConfig
BY DEF Init, IInv, Configs, Held, FollowsConfig, Wanted, Things, Kinds

LEMMA Invariance == Spec => [](IInv /\ FollowsConfig)
BY InitHolds, NextKeeps, PTL DEF Spec

(* Every variable has its type, and no failure is counted beyond             *)
(* MAX_FAILURES.                                                             *)
THEOREM Typing == Spec => []TypeOK
<1>1. IInv => TypeOK BY DEF IInv, TypeOK, Held, Good, Configs
<1> QED BY <1>1, Invariance, PTL

(* What is there is what the config asks for, whichever pass a request ends  *)
(* with, unless the save of a change failed.                                 *)
THEOREM ConfigFollowed == Spec => []FollowsConfig
BY Invariance, PTL

-------------------------------------------------------------------------------
(* The ladder *)

Failures(e) == IF e = None THEN 0 ELSE e.failures
Long(e) == IF e = None THEN FALSE ELSE e.long

(* Where a thing is on its ladder, read off its entry. *)
LEMMA Stands ==
  ASSUME NEW t \in Things, NEW p, NEW n, NEW l \in BOOLEAN,
         Phase(entries'[t]) = p, Failures(entries'[t]) = n, Long(entries'[t]) = l
  PROVE  Climbers!Becomes(t, p, n, l)
BY DEF Climbers!Becomes, Failures, Long

LEMMA Phases ==
  ASSUME NEW e \in Good
  PROVE  /\ e # None /\ Failures(e) = e.failures /\ Long(e) = e.long
         /\ e.failures \in 0..MaxFailures /\ e.long \in BOOLEAN
         /\ e.child \in {"none", "running", "exited"}
         /\ e.child # "none" => Phase(e) = "running" /\ e.failures < MaxFailures /\ ~e.waiting
         /\ e.child = "none" => /\ ~e.long
                                /\ e.failures >= MaxFailures => Phase(e) = "given up"
                                /\ e.failures < MaxFailures =>
                                     Phase(e) = IF e.waiting THEN "pausing" ELSE "due"
<1>1. e # None BY NoneIsApart
<1>2. e \in Entry BY DEF Good
<1>3. /\ e.failures \in 0..MaxFailures /\ e.long \in BOOLEAN
      /\ e.child \in {"none", "running", "exited"}
  BY <1>2 DEF Entry
<1>4. CASE e.child # "none" BY <1>1, <1>3, <1>4 DEF Phase, Failures, Long, Good
<1>5. CASE e.child = "none"
  <2>1. ~e.long BY <1>5 DEF Good
  <2>2. e.failures >= MaxFailures => Phase(e) = "given up" BY <1>1, <1>5 DEF Phase
  <2>3. e.failures < MaxFailures => ~(e.failures >= MaxFailures) BY <1>3, SomeFailures
  <2>4. e.failures < MaxFailures => Phase(e) = IF e.waiting THEN "pausing" ELSE "due"
    BY <1>1, <1>5, <2>3 DEF Phase
  <2> QED BY <1>1, <1>3, <1>5, <2>1, <2>2, <2>4 DEF Failures, Long
<1> QED BY <1>4, <1>5

(* One that failed pauses, or was given up. *)
COROLLARY Fallen ==
  ASSUME NEW e \in Good, e.child = "none", e.waiting
  PROVE  /\ Phase(e) = IF e.failures < MaxFailures THEN "pausing" ELSE "given up"
         /\ Failures(e) = e.failures /\ Long(e) = FALSE
<1>1. e.failures \in 0..MaxFailures BY Phases
<1>2. ~(e.failures < MaxFailures) => e.failures >= MaxFailures BY <1>1, SomeFailures
<1> QED BY <1>2, Phases

(* The moves of one that is there. *)
LEMMA Moving ==
  ASSUME NEW t \in Things,
         Failures(entries'[t]) = Failures(entries[t]),
         \/ /\ Phase(entries[t]) = "pausing" /\ Phase(entries'[t]) = "due"
            /\ ~Long(entries'[t])
         \/ /\ Phase(entries[t]) = "running" /\ Phase(entries'[t]) = "running"
            /\ Long(entries'[t])
         \/ /\ Phase(entries[t]) = Phase(entries'[t])
            /\ Long(entries'[t]) = Long(entries[t])
  PROVE  Climbers!Climb(t)
<1>1. CASE Phase(entries[t]) = "pausing" /\ Phase(entries'[t]) = "due" /\ ~Long(entries'[t])
  <2>1. Climbers!Rest(t) BY <1>1 DEF Climbers!Rest, Climbers!Becomes, Failures, Long
  <2> QED BY <2>1 DEF Climbers!Climb
<1>2. CASE Phase(entries[t]) = "running" /\ Phase(entries'[t]) = "running" /\ Long(entries'[t])
  <2>1. Climbers!Settle(t) BY <1>2 DEF Climbers!Settle, Climbers!Becomes, Failures, Long
  <2> QED BY <2>1 DEF Climbers!Climb
<1>3. CASE Phase(entries[t]) = Phase(entries'[t]) /\ Long(entries'[t]) = Long(entries[t])
  <2>1. Climbers!Stay(t) BY <1>3 DEF Climbers!Stay, Climbers!Becomes, Failures, Long
  <2> QED BY <2>1 DEF Climbers!Climb
<1> QED BY <1>1, <1>2, <1>3

(* A thing that is left as it is stays where it is. *)
LEMMA Staying ==
  ASSUME NEW t \in Things, entries'[t] = entries[t] PROVE Climbers!Climb(t)
BY DEF Climbers!Climb, Climbers!Stay, Climbers!Becomes

(* What is begun begins. *)
LEMMA Beginning ==
  ASSUME NEW t \in Things, NEW setting \in Scripts \cup Labels, NEW u, NEW refused,
         entries'[t] = Started(New(setting), u \in refused)
  PROVE  Climbers!Begin(t)
<1> DEFINE e == entries'[t]
<1>1. e \in Good BY BegunIsGood
<1>2. CASE u \in refused
  <2>1. e.child = "none" /\ e.failures = 0 + 1 /\ e.waiting /\ ~e.long
    BY <1>2 DEF Started, New
  <2> HIDE DEF e
  <2>2. /\ Phase(e) = IF 0 + 1 < MaxFailures THEN "pausing" ELSE "given up"
        /\ Failures(e) = 0 + 1 /\ Long(e) = FALSE
    BY <1>1, <2>1, Fallen
  <2>3. Climbers!Falls(t, 0 + 1) BY <2>2, Stands DEF Climbers!Falls, e
  <2> QED BY <2>3 DEF Climbers!Begin, Climbers!Rises
<1>3. CASE u \notin refused
  <2>1. e.child = "running" /\ e.failures = 0 /\ ~e.long
    BY <1>3 DEF Started, New
  <2> HIDE DEF e
  <2>2. Phase(e) = "running" /\ Failures(e) = 0 /\ Long(e) = FALSE BY <1>1, <2>1, Phases
  <2>3. Climbers!Becomes(t, "running", 0, FALSE) BY <2>2, Stands DEF e
  <2> QED BY <2>3 DEF Climbers!Begin, Climbers!Rises
<1> QED BY <1>2, <1>3

(* What is kept climbs: it ends and pauses, or is due and tried again. *)
LEMMA KeepingClimbs ==
  ASSUME NEW t \in Things, NEW e \in Good, entries[t] = e, NEW u, NEW refused,
         entries'[t] = Kept(e, u \in refused)
  PROVE  Climbers!Climb(t)
<1> DEFINE after == entries'[t]
<1>1. after \in Good BY KeptIsGood
<1>2. /\ e # None /\ e.failures \in 0..MaxFailures /\ e.long \in BOOLEAN
      /\ e.child \in {"none", "running", "exited"}
  BY Phases
<1>3. CASE e.child = "running"
  <2>1. Reaped(e) = e /\ ~MayStart(e) BY <1>3 DEF Reaped, MayStart
  <2>2. after = e BY <2>1 DEF Kept
  <2> QED BY <2>2, Staying
<1>4. CASE e.child = "exited"
  <2> DEFINE n == IF e.long THEN 1 ELSE e.failures + 1
  <2>1. Reaped(e) = [e EXCEPT !.child = "none", !.long = FALSE, !.waiting = TRUE, !.failures = n]
    BY <1>4 DEF Reaped
  <2>2. /\ Reaped(e).child = "none" /\ Reaped(e).waiting /\ ~Reaped(e).long
        /\ Reaped(e).failures = n
    BY <2>1 DEF Good, Entry
  <2>3. after = Reaped(e) BY <2>2 DEF Kept, MayStart
  <2>4. n \in Nat BY <1>2, SomeFailures
  <2> HIDE DEF n
  <2>5. /\ Phase(after) = IF n < MaxFailures THEN "pausing" ELSE "given up"
        /\ Failures(after) = n /\ Long(after) = FALSE
    BY <1>1, <2>2, <2>3, Fallen
  <2>6. Climbers!Falls(t, n) BY <2>5, Stands DEF Climbers!Falls
  <2>7. Phase(e) = "running" BY <1>4, Phases
  <2> QED BY <1>2, <2>6, <2>7 DEF Climbers!Climb, Climbers!End, n
<1>5. CASE e.child = "none" /\ ~MayStart(e)
  <2>1. Reaped(e) = e BY <1>5 DEF Reaped
  <2>2. after = e BY <1>5, <2>1 DEF Kept
  <2> QED BY <2>2, Staying
<1>6. CASE e.child = "none" /\ MayStart(e)
  <2>1. Reaped(e) = e BY <1>6 DEF Reaped
  <2>2. after = Started(e, u \in refused) BY <1>6, <2>1 DEF Kept
  <2>3. Phase(e) = "due" /\ ~e.long BY <1>6, Phases DEF MayStart
  <2>4. CASE u \in refused
    <3>1. after = [e EXCEPT !.failures = @ + 1, !.waiting = TRUE] BY <2>2, <2>4 DEF Started
    <3>2. after.child = "none" /\ after.failures = e.failures + 1 /\ after.waiting /\ ~after.long
      BY <1>6, <2>3, <3>1 DEF Good, Entry
    <3>3. /\ Phase(after) = IF e.failures + 1 < MaxFailures THEN "pausing" ELSE "given up"
          /\ Failures(after) = e.failures + 1 /\ Long(after) = FALSE
      BY <1>1, <3>2, Fallen
    <3>4. Climbers!Falls(t, e.failures + 1) BY <3>3, Stands DEF Climbers!Falls
    <3> QED BY <1>2, <2>3, <3>4 DEF Climbers!Climb, Climbers!Retry, Climbers!Rises
  <2>5. CASE u \notin refused
    <3>1. after = [e EXCEPT !.child = "running", !.long = FALSE] BY <2>2, <2>5 DEF Started
    <3>2. after.child = "running" /\ after.failures = e.failures /\ ~after.long
      BY <3>1 DEF Good, Entry
    <3>3. Phase(after) = "running" /\ Failures(after) = e.failures /\ Long(after) = FALSE
      BY <1>1, <3>2, Phases
    <3>4. Climbers!Becomes(t, "running", e.failures, FALSE) BY <3>3, Stands
    <3> QED BY <1>2, <2>3, <3>4 DEF Climbers!Climb, Climbers!Retry, Climbers!Rises
  <2> QED BY <2>4, <2>5
<1> QED BY <1>2, <1>3, <1>4, <1>5, <1>6

(* What is ensured climbs, or is begun, or is not wanted any more; it climbs *)
(* when it is there for the same thing before and after.                     *)
LEMMA EnsuringSteps ==
  ASSUME NEW t \in Things, entries[t] \in Good \cup {None},
         NEW setting \in Scripts \cup Labels \cup {None}, NEW u, NEW refused,
         entries'[t] = Ensured(entries[t], setting, u \in refused)
  PROVE  Climbers!Step(t) /\ (SameWish(t) => Climbers!Climb(t))
<1>1. CASE setting = None
  <2>1. entries'[t] = None BY <1>1 DEF Ensured
  <2>2. Phase(entries'[t]) = "unwanted" /\ Failures(entries'[t]) = 0 /\ Long(entries'[t]) = FALSE
    BY <2>1 DEF Phase, Failures, Long
  <2>3. Climbers!Unwanted(t) BY <2>2, Stands DEF Climbers!Unwanted
  <2> QED BY <2>1, <2>3 DEF Climbers!Step, SameWish
<1>2. CASE setting # None /\ entries[t] # None /\ entries[t].setting = setting
  <2>1. entries'[t] = Kept(entries[t], u \in refused) BY <1>2 DEF Ensured
  <2>2. entries[t] \in Good BY <1>2
  <2>3. Climbers!Climb(t) BY <2>1, <2>2, KeepingClimbs
  <2> QED BY <2>3 DEF Climbers!Step
<1>3. CASE setting # None /\ ~(entries[t] # None /\ entries[t].setting = setting)
  <2>1. entries'[t] = Started(New(setting), u \in refused) BY <1>3 DEF Ensured
  <2>2. setting \in Scripts \cup Labels BY <1>3
  <2>3. Climbers!Begin(t) BY <2>1, <2>2, Beginning
  <2>4. entries'[t].setting = setting BY <2>1, <2>2, BegunIsGood
  <2> QED BY <1>3, <2>3, <2>4 DEF Climbers!Step, SameWish
<1> QED BY <1>1, <1>2, <1>3

ClimbOnly == \A t \in Things : SameWish(t) => Climbers!Climb(t)
AllStep == \A t \in Things : Climbers!Step(t)

LEMMA PassSteps ==
  ASSUME IInv, NEW conf \in Configs, Reconcile(conf, entries)
  PROVE  AllStep /\ ClimbOnly
<1>1. PICK refused \in Refusals :
        entries' = [t \in Things |-> Ensured(entries[t], Wanted(conf, t), t \in refused)]
  BY DEF Reconcile
<1>2. ASSUME NEW t \in Things PROVE Climbers!Step(t) /\ (SameWish(t) => Climbers!Climb(t))
  <2>1. entries'[t] = Ensured(entries[t], Wanted(conf, t), t \in refused) BY <1>1
  <2>2. entries[t] \in Good \cup {None} BY DEF IInv, Held
  <2>3. Wanted(conf, t) \in Scripts \cup Labels \cup {None} BY WantedKnown
  <2> QED BY <2>1, <2>2, <2>3, EnsuringSteps
<1> QED BY <1>2 DEF AllStep, ClimbOnly

LEMMA NothingMoves ==
  ASSUME UNCHANGED entries PROVE AllStep /\ ClimbOnly
BY Staying DEF AllStep, ClimbOnly, Climbers!Step

(* A change to one link. *)
LEMMA SettingSteps ==
  ASSUME IInv, NEW s \in Sites, NEW link \in Link \cup {None}, SetSite(s, link) \/ SetAll(s, link)
  PROVE  AllStep /\ ClimbOnly
<1>1. config' \in Configs BY DEF SetSite, SetAll, IInv, Configs
<1>2. CASE SaveFails(s) BY <1>2, NothingMoves DEF SaveFails
<1>3. CASE Reconcile(config', entries) BY <1>1, <1>3, PassSteps
<1>4. CASE ReconcileSite(config', s)
  <2> DEFINE d == <<"dev", s>>
  <2>1. PICK refused \in Refusals :
          entries' = [entries EXCEPT ![d] = Ensured(@, Wanted(config', d), d \in refused)]
    BY <1>4 DEF ReconcileSite
  <2>2. d \in Things BY DEF Things, Kinds
  <2>3. entries[d] \in Good \cup {None} /\ Wanted(config', d) \in Scripts \cup Labels \cup {None}
    BY <1>1, <2>2, WantedKnown DEF IInv, Held
  <2>4. entries'[d] = Ensured(entries[d], Wanted(config', d), d \in refused)
    BY <2>1, <2>2 DEF IInv, Held
  <2>5. \A t \in Things \ {d} : entries'[t] = entries[t] BY <2>1 DEF IInv, Held
  <2> HIDE DEF d
  <2>6. Climbers!Step(d) /\ (SameWish(d) => Climbers!Climb(d))
    BY <2>2, <2>3, <2>4, EnsuringSteps
  <2> QED BY <2>5, <2>6, Staying DEF AllStep, ClimbOnly, Climbers!Step
<1> QED BY <1>2, <1>3, <1>4 DEF SetSite, SetAll

LEMMA RequestSteps ==
  ASSUME IInv, Request
  PROVE  AllStep /\ \A t \in Things : SameWish(t) => Climbers!Climb(t) \/ Over(t)
<1> USE DEF IInv
<1>1. ASSUME NEW s \in Sites, NEW link \in Link \cup {None}, SetSite(s, link) \/ SetAll(s, link)
      PROVE  AllStep /\ ClimbOnly
  BY <1>1, SettingSteps
<1>2. ASSUME NEW s \in Sites, NEW script \in Scripts \cup {None},
             SetDev(s, script) \/ ApplySpec(s, script)
      PROVE  AllStep /\ ClimbOnly
  <2>1. config[s] # None => [config[s] EXCEPT !.dev = script] \in Link
    <3>1. config[s] # None => config[s] \in Link BY DEF Configs
    <3> QED BY <3>1 DEF Link
  <2>2. [NewLink EXCEPT !.dev = script] \in Link BY DEF NewLink, Link
  <2> QED BY <1>1, <1>2, <2>1, <2>2 DEF SetDev, ApplySpec
<1>3. ASSUME NEW s \in Sites, NEW label \in Labels \cup {None}, SetShare(s, label)
      PROVE  AllStep /\ ClimbOnly
  <2>1. config[s] \in Link BY <1>3 DEF SetShare, Configs
  <2>2. [config[s] EXCEPT !.tunnel = label] \in Link BY <2>1 DEF Link
  <2> QED BY <1>1, <1>3, <2>2 DEF SetShare
<1>4. ASSUME NEW s \in Sites, LinkSite(s) \/ ImportSite(s) \/ Unlink(s) PROVE AllStep /\ ClimbOnly
  <2>1. NewLink \in Link BY DEF NewLink, Link
  <2> QED BY <1>1, <1>4, <2>1 DEF LinkSite, ImportSite, Unlink
<1>5. CASE Pass \/ Reload
  <2>1. Reconcile(config, entries) \/ Reconcile(disk, entries) BY <1>5 DEF Pass, Reload
  <2> QED BY <2>1, PassSteps DEF ClimbOnly
<1>6. CASE RepairBackends
  <2> DEFINE olds == [t \in Things |-> IF t[1] = "dev" THEN None ELSE entries[t]]
  <2>1. PICK refused \in Refusals :
          entries' = [t \in Things |-> Ensured(olds[t], Wanted(disk, t), t \in refused)]
    BY <1>6 DEF RepairBackends, Reconcile
  <2>2. ASSUME NEW t \in Things PROVE Climbers!Step(t)
    <3>1. Wanted(disk, t) \in Scripts \cup Labels \cup {None} BY WantedKnown
    <3>2. entries'[t] = Ensured(olds[t], Wanted(disk, t), t \in refused) BY <2>1
    <3>3. CASE t[1] # "dev"
      BY <3>1, <3>2, <3>3, EnsuringSteps DEF Held
    <3>4. CASE t[1] = "dev" /\ Wanted(disk, t) = None
      <4>1. entries'[t] = None BY <3>2, <3>4 DEF Ensured
      <4>2. Phase(entries'[t]) = "unwanted" /\ Failures(entries'[t]) = 0 /\ Long(entries'[t]) = FALSE
        BY <4>1 DEF Phase, Failures, Long
      <4> QED BY <4>2, Stands DEF Climbers!Unwanted, Climbers!Step
    <3>5. CASE t[1] = "dev" /\ Wanted(disk, t) # None
      <4>1. entries'[t] = Started(New(Wanted(disk, t)), t \in refused)
        BY <3>2, <3>5 DEF Ensured
      <4>2. Wanted(disk, t) \in Scripts \cup Labels BY <3>1, <3>5
      <4> QED BY <4>1, <4>2, Beginning DEF Climbers!Step
    <3> QED BY <3>3, <3>4, <3>5
  <2> QED BY <1>6, <2>2 DEF AllStep, Over
<1>7. ASSUME NEW t \in Things, Restart(t)
      PROVE  AllStep /\ \A v \in Things : SameWish(v) => Climbers!Climb(v) \/ Over(v)
  <2>1. PICK refused \in Refusals :
          entries' = [entries EXCEPT ![t] = Started(New(@.setting), t \in refused)]
    BY <1>7 DEF Restart
  <2>2. entries[t] \in Good BY <1>7 DEF Restart, Held
  <2>3. entries[t].setting \in Scripts \cup Labels BY <2>2 DEF Good, Entry
  <2>4. entries'[t] = Started(New(entries[t].setting), t \in refused) BY <2>1 DEF Held
  <2>5. Climbers!Begin(t) BY <2>3, <2>4, Beginning
  <2>6. \A v \in Things \ {t} : Climbers!Climb(v) BY <2>1, Staying DEF Held
  <2> QED BY <1>7, <2>5, <2>6 DEF AllStep, Climbers!Step, Over
<1> QED BY <1>2, <1>3, <1>4, <1>5, <1>6, <1>7 DEF Request, ClimbOnly

LEMMA SuperviseSteps ==
  ASSUME IInv, NEW kind \in Kinds, Supervise(kind) PROVE AllStep /\ ClimbOnly
<1>1. PICK refused \in Refusals :
        entries' = [t \in Things |->
          CASE t[1] # kind \/ entries[t] = None -> entries[t]
            [] t[1] = kind /\ entries[t] # None /\ entries[t].child = "running" -> Watched(entries[t])
            [] OTHER -> Kept(entries[t], t \in refused)]
  BY DEF Supervise
<1>2. ASSUME NEW t \in Things PROVE Climbers!Climb(t)
  <2>1. CASE t[1] # kind \/ entries[t] = None
    <3>1. entries'[t] = entries[t] BY <1>1, <2>1
    <3> QED BY <3>1, Staying
  <2>2. CASE t[1] = kind /\ entries[t] # None /\ entries[t].child = "running"
    <3> DEFINE e == entries[t]
               after == entries'[t]
    <3>1. e \in Good BY <2>2 DEF IInv, Held
    <3>2. after = Watched(e) BY <1>1, <2>2
    <3>3. after \in Good BY <3>1, <3>2, WatchedIsGood
    <3>4. /\ after.child = "running" /\ after.long = e.long
          /\ after.failures = IF e.long THEN 0 ELSE e.failures
      BY <2>2, <3>1, <3>2 DEF Watched, Good, Entry
    <3>5. /\ Phase(e) = "running" /\ Failures(e) = e.failures /\ Long(e) = e.long /\ e # None
          /\ e.long \in BOOLEAN
      BY <2>2, <3>1, Phases
    <3>6. Phase(after) = "running" /\ Failures(after) = after.failures /\ Long(after) = e.long
      BY <3>3, <3>4, Phases
    <3>7. CASE e.long
      <4>1. Climbers!Becomes(t, "running", 0, TRUE) BY <3>4, <3>6, <3>7, Stands
      <4> QED BY <3>5, <3>7, <4>1 DEF Climbers!Climb, Climbers!Absolve
    <3>8. CASE ~e.long
      <4> QED BY <3>4, <3>5, <3>6, <3>8, Moving
    <3> QED BY <3>7, <3>8
  <2>3. CASE ~(t[1] # kind \/ entries[t] = None) /\ ~(entries[t].child = "running")
    <3>1. entries[t] \in Good BY <2>3 DEF IInv, Held
    <3>2. entries'[t] = Kept(entries[t], t \in refused) BY <1>1, <2>3
    <3> QED BY <3>1, <3>2, KeepingClimbs
  <2> QED BY <2>1, <2>2, <2>3
<1> QED BY <1>2 DEF AllStep, ClimbOnly, Climbers!Step

LEMMA TimeSteps ==
  ASSUME IInv, IInv', NEW t \in Things, Elapse(t) \/ Season(t) \/ Exit(t)
  PROVE  AllStep /\ ClimbOnly
<1> DEFINE e == entries[t]
           after == entries'[t]
<1>1. e \in Good /\ after \in Good \cup {None} /\ \A u \in Things \ {t} : entries'[u] = entries[u]
  BY DEF Elapse, Season, Exit, IInv, Held
<1>2. e.failures \in 0..MaxFailures BY <1>1, Phases
<1>3. ASSUME Elapse(t) PROVE Climbers!Climb(t)
  <2>1. after = [e EXCEPT !.waiting = FALSE] /\ e.waiting BY <1>3 DEF Elapse, IInv, Held
  <2>2. after.child = e.child /\ after.failures = e.failures /\ after.long = e.long /\ ~after.waiting
    BY <1>1, <2>1 DEF Good, Entry
  <2>3. e.child = "none" /\ ~e.long BY <1>1, <2>1, Phases
  <2>4. after \in Good BY <1>1, <2>1 DEF Good, Entry
  <2>5. Failures(after) = Failures(e) /\ Long(after) = Long(e) /\ ~Long(after)
    BY <1>1, <2>2, <2>3, <2>4, Phases
  <2>6. CASE e.failures < MaxFailures
    <3>1. Phase(e) = "pausing" /\ Phase(after) = "due"
      BY <1>1, <2>1, <2>2, <2>3, <2>4, <2>6, Phases
    <3> QED BY <2>5, <3>1, Moving
  <2>7. CASE ~(e.failures < MaxFailures)
    <3>1. e.failures >= MaxFailures BY <1>2, <2>7, SomeFailures
    <3>2. Phase(e) = "given up" /\ Phase(after) = "given up"
      BY <1>1, <2>2, <2>3, <2>4, <3>1, Phases
    <3> QED BY <2>5, <3>2, Moving
  <2> QED BY <2>6, <2>7
<1>4. ASSUME Season(t) PROVE Climbers!Climb(t)
  <2>1. after = [e EXCEPT !.long = TRUE] /\ e.child # "none" BY <1>4 DEF Season, IInv, Held
  <2>2. after.child # "none" /\ after.failures = e.failures /\ after.long
    BY <1>1, <2>1 DEF Good, Entry
  <2>3. after \in Good BY <1>1, <2>1 DEF Good, Entry
  <2>4. Phase(e) = "running" BY <1>1, <2>1, Phases
  <2>5. Phase(after) = "running" /\ Failures(after) = Failures(e) /\ Long(after)
    BY <1>1, <2>2, <2>3, Phases
  <2> QED BY <2>4, <2>5, Moving
<1>5. ASSUME Exit(t) PROVE Climbers!Climb(t)
  <2>1. after = [e EXCEPT !.child = "exited"] /\ e.child = "running" BY <1>5 DEF Exit, IInv, Held
  <2>2. after.child = "exited" /\ after.failures = e.failures /\ after.long = e.long
    BY <1>1, <2>1 DEF Good, Entry
  <2>3. after \in Good BY <1>1, <2>1 DEF Good, Entry
  <2>4. Phase(e) = "running" BY <1>1, <2>1, Phases
  <2>5. Phase(after) = "running" /\ Failures(after) = Failures(e) /\ Long(after) = Long(e)
    BY <1>1, <2>2, <2>3, Phases
  <2> QED BY <2>4, <2>5, Moving
<1>6. Climbers!Climb(t) BY <1>3, <1>4, <1>5
<1> QED BY <1>1, <1>6, Staying DEF AllStep, ClimbOnly, Climbers!Step

LEMMA NextSteps ==
  IInv /\ IInv' /\ [Next]_vars =>
    AllStep /\ \A t \in Things : SameWish(t) => Climbers!Climb(t) \/ Over(t)
<1> SUFFICES ASSUME IInv, IInv', [Next]_vars
             PROVE  AllStep /\ \A t \in Things : SameWish(t) => Climbers!Climb(t) \/ Over(t)
  OBVIOUS
<1>1. CASE DaemonRestarts
  <2> DEFINE olds == [t \in Things |-> None]
  <2>1. PICK refused \in Refusals :
          entries' = [t \in Things |-> Ensured(olds[t], Wanted(disk, t), t \in refused)]
    BY <1>1 DEF DaemonRestarts, Reconcile
  <2>2. ASSUME NEW t \in Things PROVE Climbers!Step(t)
    <3>1. Wanted(disk, t) \in Scripts \cup Labels \cup {None} BY WantedKnown DEF IInv
    <3>2. entries'[t] = Ensured(olds[t], Wanted(disk, t), t \in refused) BY <2>1
    <3>3. CASE Wanted(disk, t) = None
      <4>1. entries'[t] = None BY <3>2, <3>3 DEF Ensured
      <4>2. Phase(entries'[t]) = "unwanted" /\ Failures(entries'[t]) = 0 /\ Long(entries'[t]) = FALSE
        BY <4>1 DEF Phase, Failures, Long
      <4> QED BY <4>2, Stands DEF Climbers!Unwanted, Climbers!Step
    <3>4. CASE Wanted(disk, t) # None
      <4>1. entries'[t] = Started(New(Wanted(disk, t)), t \in refused)
        BY <3>2, <3>4 DEF Ensured
      <4>2. Wanted(disk, t) \in Scripts \cup Labels BY <3>1, <3>4
      <4> QED BY <4>1, <4>2, Beginning DEF Climbers!Step
    <3> QED BY <3>3, <3>4
  <2> QED BY <1>1, <2>2 DEF AllStep, Over
<1>2. CASE UNCHANGED vars BY <1>2, NothingMoves DEF vars, ClimbOnly
<1> QED BY <1>1, <1>2, RequestSteps, SuperviseSteps, TimeSteps DEF Next, ClimbOnly

LEMMA InitClimbs == Init => Climbers!Init
BY DEF Init, Climbers!Init, Phase

(* Dev servers and tunnels keep the supervisors' promise: none is started    *)
(* before its pause is over or after it was given up, and no end is missed   *)
(* or counted twice, whatever requests, passes and restarts come between.    *)
THEOREM SupervisionClimbs == Spec => Climbs
<1>1. IInv /\ IInv' /\ [Next]_vars => [\A t \in Things : Climbers!Step(t)]_Climbers!vars
  BY NextSteps DEF AllStep
<1> QED BY <1>1, InitClimbs, Invariance, PTL DEF Spec, Climbs, Climbers!Spec

(* Nothing starts over unless it is asked for by name, wanted otherwise, or  *)
(* everything is: a request about another site never takes a thing off its   *)
(* ladder.                                                                   *)
THEOREM LadderKept == Spec => KeepsClimbing
<1>1. IInv /\ IInv' /\ [Next]_vars => [\A t \in Things : SameWish(t) => Climbers!Climb(t) \/ Over(t)]_vars
  BY NextSteps
<1> QED BY <1>1, Invariance, PTL DEF Spec, KeepsClimbing
===============================================================================
