---------------------------- MODULE BranchDbProofs ----------------------------
(***************************************************************************)
(* What holds of BranchDb for every set of sites, branches, clients and    *)
(* ports: its types, that OPS is held by exactly the switch in progress,   *)
(* that a base database is only ever parked, that switches alone lose no   *)
(* write and implement BranchStore, and that whatever fails, the live data *)
(* stays where it can be found.                                            *)
(***************************************************************************)
EXTENDS BranchDb, TLAPS

(* What a process knows at a step: its site while it has a request in hand, *)
(* both branches once a switch is planned, the branch to drop.              *)
Resting == {"idle", "sleep", "visit", "ok", "err"}
Planned == SwitchSteps \ {"plan"}
Fits(step, j) ==
  /\ step \notin Resting => j.site \in Sites
  /\ step \in Planned => j.from \in Branches /\ j.to \in Branches /\ j.from # j.to
  /\ step \in DropSteps => j.to \in Branches
LocalsKnown == \A p \in Procs : Fits(pc[p], job[p])

IInv == TypeOK /\ LocalsKnown /\ OpsExact

(* The names of the steps, for the leaves that only compare them. *)
LEMMA StepNames ==
  /\ {"base?", "kick", "parked?", "droppark", "park", "back?", "swap", "clone", "record"}
       \subseteq Planned
  /\ "plan" \in SwitchSteps \ Planned
  /\ {"attach", "ensure?", "create", "setattach"} \subseteq AttachSteps
  /\ {"detach", "setdetach"} \subseteq DetachSteps
  /\ {"drop", "drop?", "dropdb"} \subseteq DropSteps
  /\ Planned \subseteq SwitchSteps
  /\ SwitchSteps \subseteq (Steps \ Resting) \ DropSteps
  /\ DropSteps \subseteq (Steps \ Resting) \ SwitchSteps
  /\ AttachSteps \cup DetachSteps \cup {"lock"} \subseteq
       ((Steps \ Resting) \ SwitchSteps) \ DropSteps
  /\ Resting \subseteq (Steps \ SwitchSteps) \ DropSteps
  /\ {"idle", "sleep", "visit", "ok", "err"} \subseteq Resting
BY DEF Steps, SwitchSteps, AttachSteps, DetachSteps, DropSteps, Resting, Planned

-------------------------------------------------------------------------------
(* How a process moves on *)

(* Answering keeps the control state well formed and gives OPS back. *)
LEMMA ReturnKeeps ==
  ASSUME IInv, NEW p \in Procs, NEW ok, Return(p, ok)
  PROVE  /\ pc' \in [Procs -> Steps] /\ job' \in [Procs -> Job]
         /\ failed' \in [Sites -> Branches \cup {None}]
         /\ todo' = todo /\ ops' \in Procs \cup {None}
         /\ LocalsKnown' /\ OpsExact'
<1> USE DEF IInv, TypeOK, Return, Goto
<1>1. pc' \in [Procs -> Steps] BY StepNames
<1>2. NoJob \in Job BY ConstantsAssumption DEF NoJob, Job
<1>3. job' \in [Procs -> Job] BY <1>2
<1>4. failed' \in [Sites -> Branches \cup {None}] BY DEF Job
<1>5. ops' \in Procs \cup {None} OBVIOUS
<1>6. LocalsKnown' BY StepNames DEF LocalsKnown, Fits
<1>7. OpsExact' BY ConstantsAssumption, StepNames DEF OpsExact, Procs
<1> QED BY <1>1, <1>3, <1>4, <1>5, <1>6, <1>7

(* So does going on to a step on the same side of OPS, at the same site. *)
LEMMA ContinueKeeps ==
  ASSUME IInv, NEW p \in Procs, NEW step \in Steps, NEW locals \in Job,
         ContinueWith(p, step, locals),
         Fits(step, locals),
         pc[p] \in SwitchSteps <=> step \in SwitchSteps
  PROVE  /\ pc' \in [Procs -> Steps] /\ job' \in [Procs -> Job]
         /\ failed' = failed /\ todo' = todo /\ ops' = ops
         /\ LocalsKnown' /\ OpsExact'
BY StepNames DEF IInv, TypeOK, ContinueWith, Goto, LocalsKnown, Fits, OpsExact, watch

COROLLARY ContinueKeepsLocals ==
  ASSUME IInv, NEW p \in Procs, NEW step \in Steps, Continue(p, step),
         pc[p] \notin Resting,
         pc[p] \in SwitchSteps <=> step \in SwitchSteps,
         pc[p] \in Planned <=> step \in Planned,
         pc[p] \in DropSteps <=> step \in DropSteps
  PROVE  /\ pc' \in [Procs -> Steps] /\ job' \in [Procs -> Job]
         /\ failed' = failed /\ todo' = todo /\ ops' = ops
         /\ LocalsKnown' /\ OpsExact'
<1>1. job[p] \in Job BY DEF IInv, TypeOK
<1>2. ContinueWith(p, step, job[p])
  BY DEF Continue, ContinueWith, IInv, TypeOK
<1>3. Fits(step, job[p]) BY DEF IInv, LocalsKnown, Fits
<1> QED BY <1>1, <1>2, <1>3, ContinueKeeps

(* The link a handler records is a link, in memory and on disk. *)
LEMMA RecordKeeps ==
  ASSUME IInv, NEW p \in Procs, NEW link \in Link, job[p].site \in Sites,
         Record(p, link), UNCHANGED <<head, pg>>
  PROVE  IInv'
<1>1. /\ links' \in [Sites -> Link \cup {None}]
      /\ disk' \in [Sites -> Link \cup {None}]
  BY DEF Record, SetLink, SaveFails, Edited, IInv, TypeOK
<1>2. PICK ok \in BOOLEAN : Return(p, ok)
  BY DEF Record
<1> QED BY <1>1, <1>2, ReturnKeeps DEF IInv, TypeOK, pg

(* A base and what is parked for it are databases of the same servers.      *)
LEMMA KeysTogether ==
  ASSUME NEW port, NEW db, NEW br \in Branches \cup {None}
  PROVE  Parked(port, db, br) \in Keys <=> Base(port, db) \in Keys
BY DEF Keys, Base, Parked

(* Changing one entry of a function to a value of its range. *)
LEMMA ExceptType ==
  ASSUME NEW D, NEW R, NEW f \in [D -> R], NEW k, NEW v, k \in D => v \in R
  PROVE  [f EXCEPT ![k] = v] \in [D -> R]
OBVIOUS

LEMMA SomeContents == None \in Contents /\ {} \in Contents
BY DEF Contents

(* A rename between the two keeps the databases' type. *)
LEMMA RenamedType ==
  ASSUME TypeOK, NEW old, NEW new, new \in Keys => old \in Keys
  PROVE  Renamed(old, new) \in [Keys -> Contents]
<1> DEFINE emptied == [dbs EXCEPT ![old] = None]
<1>1. emptied \in [Keys -> Contents] BY ExceptType, SomeContents DEF TypeOK
<1>2. new \in Keys => dbs[old] \in Contents BY DEF TypeOK
<1>3. Renamed(old, new) = [emptied EXCEPT ![new] = dbs[old]] BY DEF Renamed
<1> HIDE DEF emptied
<1> QED BY <1>1, <1>2, <1>3, ExceptType

-------------------------------------------------------------------------------
(* The inductive invariant *)

LEMMA InitKeeps == Init => IInv
<1> SUFFICES ASSUME Init PROVE IInv OBVIOUS
<1> USE ConstantsAssumption DEF Init
<1>1. NoJob \in Job BY DEF NoJob, Job
<1>2. links \in [Sites -> Link \cup {None}] BY DEF Link
<1>3. pc \in [Procs -> Steps] BY StepNames
<1>4. dbs \in [Keys -> Contents] BY SomeContents
<1>5. todo \in [Sites -> Branches \cup {None, Visited}] OBVIOUS
<1>6. TypeOK BY <1>1, <1>2, <1>3, <1>4, <1>5 DEF TypeOK
<1>7. LocalsKnown BY StepNames DEF LocalsKnown, Fits
<1>8. OpsExact BY StepNames DEF OpsExact, Procs
<1> QED BY <1>6, <1>7, <1>8 DEF IInv

(* A request is taken up: its locals name one of the sites. *)
LEMMA RequestKeeps ==
  ASSUME IInv, NEW p \in Procs, Request(p)
  PROVE  IInv'
<1> USE DEF IInv
<1>1. CASE RequestSwitch(p)
  <2>1. PICK s \in Sites, to \in Branches \cup {None}, port \in Ports \cup {None} :
          ContinueWith(p, "lock", [NoJob EXCEPT !.site = s, !.to = to, !.override = port])
    BY <1>1 DEF RequestSwitch
  <2> DEFINE locals == [NoJob EXCEPT !.site = s, !.to = to, !.override = port]
  <2>2. locals \in Job
    BY ConstantsAssumption DEF NoJob, Job
  <2>3. pc[p] = "idle" /\ UNCHANGED <<links, disk, head, pg>> BY <1>1 DEF RequestSwitch
  <2>4. Fits("lock", locals) BY StepNames DEF Fits, NoJob
  <2>5. ContinueWith(p, "lock", locals) BY <2>1
  <2> HIDE DEF locals
  <2> QED BY <2>2, <2>3, <2>4, <2>5, ContinueKeeps, StepNames DEF TypeOK, pg
<1>2. CASE RequestAttach(p)
  <2>1. PICK s \in Sites, db \in Bases, port \in Ports :
          ContinueWith(p, "attach", [NoJob EXCEPT !.site = s, !.db = db, !.port = port])
    BY <1>2 DEF RequestAttach
  <2> DEFINE locals == [NoJob EXCEPT !.site = s, !.db = db, !.port = port]
  <2>2. locals \in Job
    BY ConstantsAssumption DEF NoJob, Job
  <2>3. pc[p] = "idle" /\ UNCHANGED <<links, disk, head, pg>> BY <1>2 DEF RequestAttach
  <2>4. Fits("attach", locals) BY StepNames DEF Fits, NoJob
  <2>5. ContinueWith(p, "attach", locals) BY <2>1
  <2> HIDE DEF locals
  <2> QED BY <2>2, <2>3, <2>4, <2>5, ContinueKeeps, StepNames DEF TypeOK, pg
<1>3. CASE RequestDetach(p)
  <2>1. PICK s \in Sites : ContinueWith(p, "detach", [NoJob EXCEPT !.site = s])
    BY <1>3 DEF RequestDetach
  <2> DEFINE locals == [NoJob EXCEPT !.site = s]
  <2>2. locals \in Job
    BY ConstantsAssumption DEF NoJob, Job
  <2>3. pc[p] = "idle" /\ UNCHANGED <<links, disk, head, pg>> BY <1>3 DEF RequestDetach
  <2>4. Fits("detach", locals) BY StepNames DEF Fits, NoJob
  <2>5. ContinueWith(p, "detach", locals) BY <2>1
  <2> HIDE DEF locals
  <2> QED BY <2>2, <2>3, <2>4, <2>5, ContinueKeeps, StepNames DEF TypeOK, pg
<1>4. CASE RequestDropBranch(p)
  <2>1. PICK s \in Sites, br \in Branches, port \in Ports \cup {None} :
          ContinueWith(p, "drop", [NoJob EXCEPT !.site = s, !.to = br, !.override = port])
    BY <1>4 DEF RequestDropBranch
  <2> DEFINE locals == [NoJob EXCEPT !.site = s, !.to = br, !.override = port]
  <2>2. locals \in Job
    BY ConstantsAssumption DEF NoJob, Job
  <2>3. pc[p] = "idle" /\ UNCHANGED <<links, disk, head, pg>> BY <1>4 DEF RequestDropBranch
  <2>4. Fits("drop", locals) BY StepNames DEF Fits, NoJob
  <2>5. ContinueWith(p, "drop", locals) BY <2>1
  <2> HIDE DEF locals
  <2> QED BY <2>2, <2>3, <2>4, <2>5, ContinueKeeps, StepNames DEF TypeOK, pg
<1> QED BY <1>1, <1>2, <1>3, <1>4 DEF Request

(* The requests that edit a link under one lock end at once. *)
LEMMA EditKeeps ==
  ASSUME IInv, NEW p \in Procs, Edit(p)
  PROVE  IInv'
<1>1. ASSUME NEW s \in Sites, NEW link \in Link \cup {None}, NEW ok \in BOOLEAN,
             SetLink(s, link) \/ SaveFails(s, link), Return(p, ok), UNCHANGED <<head, pg>>
      PROVE  IInv'
  BY <1>1, ReturnKeeps DEF SetLink, SaveFails, Edited, IInv, TypeOK, pg
<1>2. ASSUME NEW s \in Sites, LinkSite(p, s) PROVE IInv'
  <2>1. [db |-> None, branch |-> None, port |-> DefaultPort] \in Link
    BY ConstantsAssumption DEF Link
  <2> QED BY <1>1, <1>2, <2>1 DEF LinkSite
<1>3. ASSUME NEW s \in Sites, UnlinkSite(p, s) PROVE IInv'
  BY <1>1, <1>3 DEF UnlinkSite
<1>4. ASSUME NEW s \in Sites, NEW db \in Bases \cup {None}, NEW port \in Ports,
             ApplySpec(p, s, db, port)
      PROVE  IInv'
  <2> DEFINE kept == links[s] # None /\ links[s].db = db /\ links[s].branch # None
  <2> DEFINE link == [db |-> db, port |-> port,
                      branch |-> IF db = None THEN None
                                 ELSE IF kept THEN links[s].branch ELSE head[s]]
  <2>1. link \in Link BY DEF Link, IInv, TypeOK
  <2>2. PICK ok \in BOOLEAN : /\ SetLink(s, link) \/ SaveFails(s, link)
                             /\ Return(p, ok)
    BY <1>4 DEF ApplySpec
  <2>3. UNCHANGED <<head, pg>> BY <1>4 DEF ApplySpec
  <2> HIDE DEF link
  <2> QED BY <1>1, <2>1, <2>2, <2>3
<1> QED BY <1>2, <1>3, <1>4 DEF Edit

-------------------------------------------------------------------------------
(* The steps of a handler *)

(* A statement that only chooses the next step. *)
LEMMA CheckKeeps ==
  ASSUME IInv, NEW p \in Procs, NEW step \in Steps \ Resting, NEW next \in Steps,
         step \in SwitchSteps <=> next \in SwitchSteps,
         step \in Planned <=> next \in Planned,
         step \in DropSteps <=> next \in DropSteps,
         Check(p, step, next)
  PROVE  IInv'
<1>1. pc[p] = step BY DEF Check, Runs
<1>2. job[p].site \in Sites BY <1>1, StepNames DEF IInv, LocalsKnown, Fits
<1> QED BY <1>1, <1>2, ContinueKeepsLocals DEF Check, IInv, TypeOK, pg

(* A statement that changes databases. *)
LEMMA RewriteKeeps ==
  ASSUME IInv, NEW p \in Procs, NEW step \in Steps \ Resting, NEW next \in Steps,
         step \in SwitchSteps <=> next \in SwitchSteps,
         step \in Planned <=> next \in Planned,
         step \in DropSteps <=> next \in DropSteps,
         NEW databases \in [Keys -> Contents],
         Rewrite(p, step, databases, next)
  PROVE  IInv'
<1>1. pc[p] = step BY DEF Rewrite, Runs
<1>2. job[p].site \in Sites BY <1>1, StepNames DEF IInv, LocalsKnown, Fits
<1> QED BY <1>1, <1>2, ContinueKeepsLocals DEF Rewrite, IInv, TypeOK

LEMMA SwitchKeeps ==
  ASSUME IInv, NEW p \in Procs, Switch(p)
  PROVE  IInv'
<1> USE DEF IInv
<1>0. job[p] \in Job BY DEF TypeOK
<1>1. CASE SwitchLock(p)
  <2> DEFINE s == job[p].site
             locals == [job[p] EXCEPT !.db = links[s].db, !.from = links[s].branch,
                                      !.kept = links[s].port]
  <2>1. s \in Sites BY <1>1, StepNames DEF SwitchLock, LocalsKnown, Fits
  <2>2. CASE IsAttached(s)
    <3>1. links[s] \in Link BY <2>1, <2>2 DEF IsAttached, TypeOK
    <3>2. locals \in Job /\ locals.site = s BY <1>0, <3>1 DEF Job, Link
    <3>3. /\ ops' = p /\ pc' = [pc EXCEPT ![p] = "plan"]
          /\ job' = [job EXCEPT ![p] = locals]
          /\ UNCHANGED <<links, disk, head, pg, watch>>
      BY <1>1, <2>2 DEF SwitchLock, Goto
    <3> HIDE DEF locals
    <3>4. TypeOK'
      BY <3>2, <3>3, StepNames DEF TypeOK, pg, watch
    <3>5. LocalsKnown' BY <2>1, <3>2, <3>3, StepNames DEF LocalsKnown, Fits, TypeOK
    <3>6. \A q \in Procs : pc[q] \notin SwitchSteps
      BY <1>1, ConstantsAssumption DEF SwitchLock, OpsExact
    <3>7. OpsExact' BY <3>3, <3>6, StepNames DEF OpsExact, TypeOK
    <3> QED BY <3>4, <3>5, <3>7
  <2>3. CASE ~IsAttached(s)
    BY <1>1, <2>3, ReturnKeeps DEF SwitchLock, TypeOK, pg
  <2> QED BY <2>2, <2>3
<1>2. CASE SwitchPlan(p)
  <2> DEFINE j == job[p]
             to == IF j.to # None THEN j.to ELSE head[j.site]
             port == IF j.override # None THEN j.override ELSE j.kept
             locals == [j EXCEPT !.to = to, !.port = port]
  <2>1. pc[p] = "plan" /\ j.site \in Sites
    BY <1>2, StepNames DEF SwitchPlan, LocalsKnown, Fits
  <2>2. /\ locals \in Job /\ locals.site = j.site
        /\ to # None /\ j.from # None /\ j.from # to => Fits("base?", locals)
    BY <1>0, <2>1, StepNames DEF Job, TypeOK, Fits
  <2>3. \/ \E ok \in BOOLEAN : Return(p, ok)
        \/ ContinueWith(p, "base?", locals) /\ to # None /\ j.from # None /\ j.from # to
    BY <1>2 DEF SwitchPlan
  <2>4. UNCHANGED <<links, disk, head, pg>> BY <1>2 DEF SwitchPlan
  <2> HIDE DEF locals
  <2> QED BY <2>1, <2>2, <2>3, <2>4, ReturnKeeps, ContinueKeeps, StepNames DEF TypeOK, pg
<1>3. CASE SwitchChecksBase(p)
  BY <1>3, CheckKeeps, StepNames DEF SwitchChecksBase
<1>4. CASE SwitchKicks(p)
  <2>1. pc[p] = "kick" /\ job[p].site \in Sites
    BY <1>4, StepNames DEF SwitchKicks, Runs, LocalsKnown, Fits
  <2> QED BY <1>4, <2>1, ContinueKeepsLocals, StepNames DEF SwitchKicks, TypeOK
<1>5. CASE SwitchLooksForStale(p)
  BY <1>5, CheckKeeps, StepNames DEF SwitchLooksForStale
<1>6. CASE SwitchDropsStale(p)
  <2>1. Dropped(ParkFrom(p)) \in [Keys -> Contents]
    BY ExceptType, SomeContents DEF Dropped, TypeOK
  <2> QED BY <1>6, <2>1, RewriteKeeps, StepNames DEF SwitchDropsStale
<1>7. CASE SwitchParks(p)
  <2>1. ParkFrom(p) \in Keys => BaseOf(p) \in Keys
    BY <1>0, KeysTogether DEF ParkFrom, BaseOf, Job
  <2>2. Renamed(BaseOf(p), ParkFrom(p)) \in [Keys -> Contents]
    BY <2>1, RenamedType
  <2> QED BY <1>7, <2>2, RewriteKeeps, StepNames DEF SwitchParks
<1>8. CASE SwitchLooksForParked(p)
  BY <1>8, CheckKeeps, StepNames DEF SwitchLooksForParked
<1>9. CASE SwitchSwaps(p)
  <2>1. BaseOf(p) \in Keys => ParkTo(p) \in Keys
    BY <1>0, KeysTogether DEF ParkTo, BaseOf, Job
  <2>2. Renamed(ParkTo(p), BaseOf(p)) \in [Keys -> Contents]
    BY <2>1, RenamedType
  <2> QED BY <1>9, <2>2, RewriteKeeps, StepNames DEF SwitchSwaps
<1>10. CASE SwitchClones(p)
  <2>1. BaseOf(p) \in Keys => ParkFrom(p) \in Keys
    BY <1>0, KeysTogether DEF ParkFrom, BaseOf, Job
  <2>2. [dbs EXCEPT ![BaseOf(p)] = dbs[ParkFrom(p)]] \in [Keys -> Contents]
    BY <2>1, ExceptType DEF TypeOK
  <2> QED BY <1>10, <2>2, RewriteKeeps, StepNames DEF SwitchClones
<1>11. CASE SwitchRecords(p)
  <2>1. job[p].site \in Sites BY <1>11, StepNames DEF SwitchRecords, LocalsKnown, Fits
  <2>2. [db |-> job[p].db, branch |-> job[p].to, port |-> job[p].kept] \in Link
    BY <1>0 DEF Job, Link
  <2> QED BY <1>11, <2>1, <2>2, RecordKeeps DEF SwitchRecords
<1> QED BY <1>1, <1>2, <1>3, <1>4, <1>5, <1>6, <1>7, <1>8, <1>9, <1>10, <1>11 DEF Switch

LEMMA OtherHandlersKeep ==
  ASSUME IInv, NEW p \in Procs, Attach(p) \/ Detach(p) \/ DropBranch(p) \/ StatementFails(p)
  PROVE  IInv'
<1> USE DEF IInv
<1>0. job[p] \in Job BY DEF TypeOK
<1>1. CASE AttachPlans(p)
  <2> DEFINE locals == [job[p] EXCEPT !.to = head[job[p].site]]
  <2>1. pc[p] = "attach" /\ job[p].site \in Sites
    BY <1>1, StepNames DEF AttachPlans, LocalsKnown, Fits
  <2>2. locals \in Job /\ Fits("ensure?", locals)
    BY <1>0, <2>1, StepNames DEF Job, TypeOK, Fits
  <2>3. Return(p, FALSE) \/ ContinueWith(p, "ensure?", locals) BY <1>1 DEF AttachPlans
  <2>4. UNCHANGED <<links, disk, head, pg>> BY <1>1 DEF AttachPlans
  <2> HIDE DEF locals
  <2> QED BY <2>1, <2>2, <2>3, <2>4, ReturnKeeps, ContinueKeeps, StepNames DEF TypeOK, pg
<1>2. CASE AttachLooksForBase(p)
  BY <1>2, CheckKeeps, StepNames DEF AttachLooksForBase
<1>3. CASE AttachCreates(p)
  <2>1. [dbs EXCEPT ![BaseOf(p)] = {}] \in [Keys -> Contents]
    BY ExceptType, SomeContents DEF TypeOK
  <2> QED BY <1>3, <2>1, RewriteKeeps, StepNames DEF AttachCreates
<1>4. CASE AttachRecords(p)
  <2>1. job[p].site \in Sites BY <1>4, StepNames DEF AttachRecords, LocalsKnown, Fits
  <2>2. [db |-> job[p].db, branch |-> job[p].to, port |-> job[p].port] \in Link
    BY <1>0 DEF Job, Link
  <2> QED BY <1>4, <2>1, <2>2, RecordKeeps DEF AttachRecords
<1>5. CASE DetachReads(p)
  <2>1. pc[p] = "detach" /\ job[p].site \in Sites
    BY <1>5, StepNames DEF DetachReads, LocalsKnown, Fits
  <2>2. Return(p, FALSE) \/ Continue(p, "setdetach") BY <1>5 DEF DetachReads
  <2>3. UNCHANGED <<links, disk, head, pg>> BY <1>5 DEF DetachReads
  <2> QED BY <2>1, <2>2, <2>3, ReturnKeeps, ContinueKeepsLocals, StepNames DEF TypeOK, pg
<1>6. CASE DetachRecords(p)
  <2>1. job[p].site \in Sites BY <1>6, StepNames DEF DetachRecords, LocalsKnown, Fits
  <2>2. [db |-> None, branch |-> None, port |-> DefaultPort] \in Link
    BY ConstantsAssumption DEF Link
  <2> QED BY <1>6, <2>1, <2>2, RecordKeeps DEF DetachRecords
<1>7. CASE DropReads(p)
  <2> DEFINE j == job[p]
             link == links[j.site]
             locals == [j EXCEPT !.db = link.db,
                          !.port = IF j.override # None THEN j.override ELSE link.port]
  <2>1. pc[p] = "drop" /\ j.site \in Sites
    BY <1>7, StepNames DEF DropReads, LocalsKnown, Fits
  <2>2. CASE IsAttached(j.site)
    <3>1. link \in Link BY <2>1, <2>2 DEF IsAttached, TypeOK
    <3>2. locals \in Job /\ Fits("drop?", locals)
      BY <1>0, <1>7, <2>1, <3>1, StepNames DEF DropReads, LocalsKnown, Fits, Job, Link
    <3>3. Return(p, FALSE) \/ ContinueWith(p, "drop?", locals) BY <1>7 DEF DropReads
    <3>4. UNCHANGED <<links, disk, head, pg>> BY <1>7 DEF DropReads
    <3> HIDE DEF locals
    <3> QED BY <2>1, <3>2, <3>3, <3>4, ReturnKeeps, ContinueKeeps, StepNames DEF TypeOK, pg
  <2>3. CASE ~IsAttached(j.site)
    BY <1>7, <2>3, ReturnKeeps DEF DropReads, TypeOK, pg
  <2> QED BY <2>2, <2>3
<1>8. CASE DropLooks(p)
  <2>1. pc[p] = "drop?" /\ job[p].site \in Sites
    BY <1>8, StepNames DEF DropLooks, Runs, LocalsKnown, Fits
  <2>2. Return(p, TRUE) \/ Continue(p, "dropdb") BY <1>8 DEF DropLooks
  <2>3. UNCHANGED <<links, disk, head, pg>> BY <1>8 DEF DropLooks
  <2> QED BY <2>1, <2>2, <2>3, ReturnKeeps, ContinueKeepsLocals, StepNames DEF TypeOK, pg
<1>9. CASE DropDrops(p)
  <2>1. Dropped(ParkTo(p)) \in [Keys -> Contents]
    BY ExceptType, SomeContents DEF Dropped, TypeOK
  <2> QED BY <1>9, <2>1, ReturnKeeps DEF DropDrops, TypeOK
<1>10. CASE StatementFails(p)
  BY <1>10, ReturnKeeps DEF StatementFails, TypeOK, pg
<1> QED BY <1>1, <1>2, <1>3, <1>4, <1>5, <1>6, <1>7, <1>8, <1>9, <1>10
        DEF Attach, Detach, DropBranch

LEMMA WatchKeeps == IInv /\ Watch => IInv'
<1> SUFFICES ASSUME IInv, Watch PROVE IInv' OBVIOUS
<1> USE DEF IInv
<1>0. Watcher \in Procs BY DEF Procs
<1>1. CASE WatchPolls
  <2>1. todo' \in [Sites -> Branches \cup {None, Visited}]
    <3>1. \A s \in Sites : IsAttached(s) => links[s].branch \in Branches \cup {None}
      BY DEF IsAttached, TypeOK, Link
    <3> QED BY <1>1, <3>1 DEF WatchPolls
  <2>2. TypeOK' BY <1>0, <1>1, <2>1, StepNames DEF WatchPolls, Goto, TypeOK, pg
  <2> QED BY <1>0, <1>1, <2>2, StepNames DEF WatchPolls, Goto, TypeOK, LocalsKnown, Fits, OpsExact
<1>2. ASSUME NEW s \in Sites, WatchVisits(s) PROVE IInv'
  <2> DEFINE locals == [NoJob EXCEPT !.site = s, !.to = head[s]]
  <2>1. locals \in Job /\ locals.site = s
    BY ConstantsAssumption DEF TypeOK, NoJob, Job
  <2>2. /\ pc[Watcher] = "visit"
        /\ todo' = [todo EXCEPT ![s] = Visited]
        /\ failed' \in [Sites -> Branches \cup {None}]
        /\ UNCHANGED <<links, disk, head, pg, ops>>
    BY <1>2 DEF WatchVisits, TypeOK
  <2>3. \/ UNCHANGED <<pc, job>>
        \/ /\ pc' = [pc EXCEPT ![Watcher] = "lock"]
           /\ job' = [job EXCEPT ![Watcher] = locals]
    BY <1>2 DEF WatchVisits, Goto
  <2> HIDE DEF locals
  <2>4. TypeOK' BY <1>0, <2>1, <2>2, <2>3, StepNames DEF TypeOK, pg
  <2>5. LocalsKnown' BY <1>0, <2>1, <2>3, StepNames DEF LocalsKnown, Fits, TypeOK
  <2>6. OpsExact' BY <1>0, <2>2, <2>3, StepNames DEF OpsExact, TypeOK
  <2> QED BY <2>4, <2>5, <2>6
<1>3. CASE WatchSleeps
  BY <1>0, <1>3, StepNames DEF WatchSleeps, Goto, TypeOK, LocalsKnown, Fits, OpsExact, pg, watch
<1> QED BY <1>1, <1>2, <1>3 DEF Watch

LEMMA WorldKeeps == IInv /\ World => IInv'
<1> SUFFICES ASSUME IInv, World PROVE IInv' OBVIOUS
<1> USE DEF IInv
<1>1. ASSUME NEW s \in Sites, NEW br \in Branches \cup {None}, Checkout(s, br)
      PROVE  IInv'
  BY <1>1, StepNames DEF Checkout, TypeOK, LocalsKnown, Fits, OpsExact, pg, watch
<1>2. ASSUME NEW k \in Keys, NEW w \in Writes, AppWrites(k, w) PROVE IInv'
  <2>1. dbs[k] \cup {w} \in Contents BY <1>2 DEF AppWrites, Exists, TypeOK, Contents
  <2>2. dbs' \in [Keys -> Contents] BY <1>2, <2>1 DEF AppWrites, TypeOK
  <2> QED BY <1>2, <2>2, StepNames DEF AppWrites, TypeOK, LocalsKnown, Fits, OpsExact, watch
<1>3. ASSUME NEW k \in Keys, AppConnects(k) \/ AppLeaves(k) PROVE IInv'
  BY <1>3, StepNames DEF AppConnects, AppLeaves, TypeOK, LocalsKnown, Fits, OpsExact, watch
<1>4. ASSUME NEW port \in Ports, PostgresStops(port) \/ PostgresStarts(port) PROVE IInv'
  BY <1>4, StepNames DEF PostgresStops, PostgresStarts, TypeOK, LocalsKnown, Fits, OpsExact, watch
<1>5. CASE Restart
  <2>1. NoJob \in Job BY ConstantsAssumption DEF NoJob, Job
  <2>2. pc' \in [Procs -> Steps] /\ (\A p \in Procs : pc'[p] \in Resting)
    BY <1>5, StepNames DEF Restart
  <2>3. TypeOK' BY <1>5, <2>1, <2>2 DEF Restart, TypeOK, pg
  <2>4. LocalsKnown' BY <2>2, StepNames DEF LocalsKnown, Fits
  <2>5. OpsExact' BY <1>5, <2>2, StepNames, ConstantsAssumption DEF Restart, OpsExact
  <2> QED BY <2>3, <2>4, <2>5
<1> QED BY <1>1, <1>2, <1>3, <1>4, <1>5 DEF World

(* Every step keeps the invariant. *)
LEMMA NextKeeps == IInv /\ [Next]_vars => IInv'
<1> SUFFICES ASSUME IInv, [Next]_vars PROVE IInv' OBVIOUS
<1>1. ASSUME NEW p \in Clients, Request(p) \/ Edit(p) PROVE IInv'
  BY <1>1, RequestKeeps, EditKeeps DEF Procs
<1>2. ASSUME NEW p \in Procs, Handle(p) PROVE IInv'
  BY <1>2, SwitchKeeps, OtherHandlersKeep DEF Handle
<1>3. CASE Watch BY <1>3, WatchKeeps
<1>4. CASE World BY <1>4, WorldKeeps
<1>5. CASE UNCHANGED vars
  BY <1>5, StepNames DEF vars, IInv, TypeOK, LocalsKnown, Fits, OpsExact
<1> QED BY <1>1, <1>2, <1>3, <1>4, <1>5 DEF Next

THEOREM Invariance == Spec => []IInv
BY InitKeeps, NextKeeps, PTL DEF Spec

(* Types hold of every instance. *)
THEOREM Typing == Spec => []TypeOK
<1>1. IInv => TypeOK BY DEF IInv
<1> QED BY <1>1, Invariance, PTL

(* OPS is held by exactly the process inside `switch`: two switches never   *)
(* interleave, whatever the clients, restarts and failures, and no return   *)
(* of `switch` leaks the mutex.                                             *)
THEOREM SwitchesExclusive == Spec => []OpsExact
<1>1. IInv => OpsExact BY DEF IInv
<1> QED BY <1>1, Invariance, PTL

-------------------------------------------------------------------------------
(* What happens to a base *)

LEMMA NamesOfDatabases ==
  ASSUME NEW port, NEW db, NEW br \in Branches
  PROVE  /\ IsBase(Base(port, db)) /\ ~IsBase(Parked(port, db, br))
         /\ Base(port, db) # Parked(port, db, br)
BY ConstantsAssumption DEF IsBase, Base, Parked

(* A step that leaves the databases alone, or drops a parked one, is safe. *)
LEMMA OthersLeaveBases ==
  /\ dbs' = dbs => BasesParked
  /\ \A k : ~IsBase(k) /\ dbs' = Dropped(k) /\ dbs \in [Keys -> Contents] => BasesParked
BY DEF BasesParked, Dropped, Exists

LEMMA SwitchParksBases ==
  ASSUME IInv, NEW p \in Procs, Switch(p)
  PROVE  BasesParked
<1> USE DEF IInv
<1>1. pc[p] \in Planned => /\ job[p].from \in Branches
                           /\ job[p].to \in Branches
                           /\ job[p].from # job[p].to
  BY DEF LocalsKnown, Fits
<1>2. CASE SwitchDropsStale(p)
  <2>1. ~IsBase(ParkFrom(p))
    BY <1>1, <1>2, StepNames, NamesOfDatabases DEF SwitchDropsStale, Rewrite, Runs, ParkFrom
  <2> QED BY <1>2, <2>1, OthersLeaveBases DEF SwitchDropsStale, Rewrite, TypeOK
<1>3. CASE SwitchParks(p)
  <2>1. pc[p] = "park" /\ ops = p
    BY <1>3, StepNames DEF SwitchParks, Rewrite, Runs, OpsExact
  <2>2. /\ BaseOf(p) # ParkFrom(p)
        /\ ~IsBase(ParkFrom(p))
        /\ BaseOf(p) \in Keys => ParkFrom(p) \in Keys
    BY <1>1, <2>1, StepNames, NamesOfDatabases, KeysTogether DEF BaseOf, ParkFrom
  <2>3. dbs' = [dbs EXCEPT ![BaseOf(p)] = None, ![ParkFrom(p)] = dbs[BaseOf(p)]]
    BY <1>3 DEF SwitchParks, Rewrite, Renamed
  <2> SUFFICES ASSUME NEW k \in Keys, IsBase(k), Exists(k), dbs'[k] = None
               PROVE  /\ ops = p /\ pc[p] = "park" /\ BaseOf(p) = k
                      /\ dbs'[ParkFrom(p)] = dbs[k]
    BY DEF BasesParked
  <2>4. k # ParkFrom(p) BY <2>2
  <2>5. k = BaseOf(p) BY <2>3, <2>4 DEF TypeOK, Exists
  <2>6. dbs'[ParkFrom(p)] = dbs[k] BY <2>2, <2>3, <2>5 DEF TypeOK
  <2> QED BY <2>1, <2>5, <2>6
<1>4. CASE SwitchSwaps(p)
  <2>1. pc[p] = "swap" /\ Exists(ParkTo(p)) /\ ~Exists(BaseOf(p))
    BY <1>4 DEF SwitchSwaps, Rewrite, Runs, Accepted
  <2>2. ~IsBase(ParkTo(p))
    BY <1>1, <2>1, StepNames, NamesOfDatabases DEF ParkTo
  <2>3. dbs' = [dbs EXCEPT ![ParkTo(p)] = None, ![BaseOf(p)] = dbs[ParkTo(p)]]
    BY <1>4 DEF SwitchSwaps, Rewrite, Renamed
  <2> QED BY <2>1, <2>2, <2>3 DEF BasesParked, TypeOK, Exists
<1>5. CASE SwitchClones(p)
  <2>1. /\ ~Exists(BaseOf(p))
        /\ dbs' = [dbs EXCEPT ![BaseOf(p)] = dbs[ParkFrom(p)]]
    BY <1>5 DEF SwitchClones, Rewrite, Runs, Accepted
  <2> QED BY <2>1 DEF BasesParked, TypeOK, Exists
<1>6. CASE UNCHANGED dbs BY <1>6, OthersLeaveBases
<1> QED BY <1>2, <1>3, <1>4, <1>5, <1>6
        DEF Switch, SwitchLock, SwitchPlan, SwitchChecksBase, SwitchKicks, SwitchLooksForStale,
            SwitchLooksForParked, SwitchRecords, Check, pg

LEMMA OtherHandlersParkBases ==
  ASSUME IInv, NEW p \in Procs, Attach(p) \/ Detach(p) \/ DropBranch(p) \/ StatementFails(p)
  PROVE  BasesParked
<1>1. CASE AttachCreates(p)
  <2>1. dbs' = [dbs EXCEPT ![BaseOf(p)] = {}]
    BY <1>1 DEF AttachCreates, Rewrite
  <2>2. {} # None BY ConstantsAssumption
  <2> QED BY <2>1, <2>2 DEF BasesParked, IInv, TypeOK, Exists
<1>2. CASE DropDrops(p)
  <2>1. pc[p] = "dropdb" /\ dbs' = Dropped(ParkTo(p)) BY <1>2 DEF DropDrops, Runs
  <2>2. job[p].to \in Branches BY <2>1, StepNames DEF IInv, LocalsKnown, Fits
  <2>3. ~IsBase(ParkTo(p)) BY <2>2, NamesOfDatabases DEF ParkTo
  <2> QED BY <2>1, <2>3, OthersLeaveBases DEF IInv, TypeOK
<1>3. CASE UNCHANGED dbs BY <1>3, OthersLeaveBases
<1> QED BY <1>1, <1>2, <1>3
        DEF Attach, AttachPlans, AttachLooksForBase, AttachRecords, Detach, DetachReads,
            DetachRecords, DropBranch, DropReads, DropLooks, StatementFails, Check, pg

LEMMA WorldLeavesBases == IInv /\ World => BasesParked
<1> SUFFICES ASSUME IInv, World PROVE BasesParked OBVIOUS
<1>1. ASSUME NEW key \in Keys, NEW w \in Writes, AppWrites(key, w) PROVE BasesParked
  <2>1. dbs[key] \cup {w} # None
    BY <1>1, ConstantsAssumption DEF AppWrites, Exists, IInv, TypeOK, Contents
  <2> QED BY <1>1, <2>1 DEF AppWrites, BasesParked, IInv, TypeOK, Exists
<1>2. CASE UNCHANGED dbs BY <1>2, OthersLeaveBases
<1> QED BY <1>1, <1>2
        DEF World, Checkout, AppConnects, AppLeaves, PostgresStops, PostgresStarts, Restart, pg

(* The data the application sees is never destroyed: whatever clients,     *)
(* restarts and outages do, a base only disappears by being parked whole.  *)
THEOREM BasesSurvive == Spec => BaseParkedNotDropped
<1>1. IInv /\ [Next]_vars => [BasesParked]_vars
  <2> SUFFICES ASSUME IInv, [Next]_vars PROVE BasesParked \/ UNCHANGED vars OBVIOUS
  <2>1. ASSUME NEW p \in Clients, Request(p) \/ Edit(p) PROVE BasesParked
    <3>1. UNCHANGED dbs
      BY <2>1 DEF Request, RequestSwitch, RequestAttach, RequestDetach, RequestDropBranch,
                  Edit, LinkSite, UnlinkSite, ApplySpec, pg
    <3> QED BY <3>1, OthersLeaveBases
  <2>2. ASSUME NEW p \in Procs, Handle(p) PROVE BasesParked
    BY <2>2, SwitchParksBases, OtherHandlersParkBases DEF Handle
  <2>3. CASE Watch
    BY <2>3, OthersLeaveBases DEF Watch, WatchPolls, WatchVisits, WatchSleeps, pg
  <2>4. CASE World BY <2>4, WorldLeavesBases
  <2> QED BY <2>1, <2>2, <2>3, <2>4 DEF Next
<1> QED BY <1>1, Invariance, PTL DEF Spec, BaseParkedNotDropped

-------------------------------------------------------------------------------
(* Switching alone *)

(* The clients switch branches and nothing else, no two links share a        *)
(* database, and the daemon neither ends nor fails to save.                  *)
SwitchingAlone ==
  /\ Requests \subseteq {"switch"}
  /\ Faults \subseteq {"session", "outage"}
  /\ \A s, t \in Sites : Attached[s] # None /\ Attached[s] = Attached[t] => s = t

(* A link keeps what it was attached to, and has a branch when it has one.   *)
LinksKept ==
  \A s \in Sites : /\ links[s] # None
                   /\ links[s].db = Attached[s] /\ links[s].port = DefaultPort
                   /\ Attached[s] # None => links[s].branch \in Branches

(* No database is made anywhere but next to a base that was there. *)
OneServer == \A k \in Keys : Exists(k) => k[1] = DefaultPort

(* No process is in the middle of anything but a switch, and none has found  *)
(* a stale copy to drop.                                                     *)
NothingStale == \A p \in Procs : pc[p] \in (SwitchSteps \ {"droppark"}) \cup Resting \cup {"lock"}

Seen == {"kick", "parked?", "park"}
Moved == {"back?", "swap", "clone"}

(* What a switch in progress knows: the link has not changed since it was    *)
(* read, the base is there until it is parked, what it left is parked until  *)
(* the end, and what it moves to is in one place.                            *)
SwitchKnows(p) ==
  /\ pc[p] \in SwitchSteps =>
       /\ job[p].db = links[job[p].site].db /\ job[p].db # None
       /\ job[p].from = links[job[p].site].branch
       /\ job[p].kept = DefaultPort
  /\ pc[p] \in Seen => Exists(BaseOf(p))
  /\ pc[p] \in Moved => ~Exists(BaseOf(p)) /\ Exists(ParkFrom(p))
  /\ pc[p] = "clone" => ~Exists(ParkTo(p))
  /\ pc[p] = "record" => Exists(BaseOf(p)) /\ Exists(ParkFrom(p)) /\ ~Exists(ParkTo(p))

(* Nothing is stored that was not written. *)
NothingMadeUp == \A k \in Keys : Exists(k) => dbs[k] \subseteq written

SwitchInv ==
  /\ IInv /\ LinksKept /\ OneServer /\ NothingStale /\ NothingMadeUp
  /\ \A p \in Procs : SwitchKnows(p)
  /\ OneCopyOfLive /\ NoWriteLost

(* Where the live data are looked for. *)
LiveAt(s) == Base(links[s].port, links[s].db)
ParkedAt(s) == Parked(links[s].port, links[s].db, links[s].branch)

(* What a planned switch works on are databases. *)
LEMMA KnownKeys ==
  ASSUME SwitchInv, NEW p \in Procs, pc[p] \in Planned
  PROVE  /\ BaseOf(p) \in Keys /\ ParkFrom(p) \in Keys /\ ParkTo(p) \in Keys
         /\ BaseOf(p) # ParkFrom(p) /\ BaseOf(p) # ParkTo(p) /\ ParkFrom(p) # ParkTo(p)
         /\ job[p].site \in Sites /\ Attached[job[p].site] # None
         /\ job[p].db = Attached[job[p].site]
<1>1. job[p] \in Job BY DEF SwitchInv, IInv, TypeOK
<1>2. /\ job[p].site \in Sites /\ job[p].from \in Branches /\ job[p].to \in Branches
      /\ job[p].from # job[p].to
  BY StepNames DEF SwitchInv, IInv, LocalsKnown, Fits
<1>3. job[p].db = links[job[p].site].db /\ job[p].db # None
  BY StepNames DEF SwitchInv, SwitchKnows
<1>4. job[p].db \in Bases /\ job[p].port \in Ports BY <1>1, <1>3 DEF Job
<1>5. job[p].db = Attached[job[p].site] BY <1>2, <1>3 DEF SwitchInv, LinksKept
<1> QED BY <1>2, <1>3, <1>4, <1>5, ConstantsAssumption DEF BaseOf, ParkFrom, ParkTo, Keys, Base, Parked

(* So is what a link names. *)
LEMMA LinkKeys ==
  ASSUME SwitchInv, NEW s \in Sites, IsAttached(s)
  PROVE  /\ LiveAt(s) \in Keys /\ ParkedAt(s) \in Keys
         /\ LiveAt(s) = Base(DefaultPort, Attached[s])
         /\ Attached[s] # None
         /\ ParkedAt(s) = Parked(DefaultPort, Attached[s], links[s].branch)
         /\ links[s].branch \in Branches
BY ConstantsAssumption DEF SwitchInv, LinksKept, IsAttached, LiveAt, ParkedAt, Keys, Base, Parked

(* Of the processes one at most is in a switch. *)
LEMMA OneSwitch ==
  ASSUME IInv, NEW p \in Procs, NEW q \in Procs, pc[p] \in SwitchSteps, pc[q] \in SwitchSteps
  PROVE  p = q
BY DEF IInv, OpsExact

(* The steps that nothing but other requests and faults leads to. *)
Allowed == (SwitchSteps \ {"droppark"}) \cup Resting \cup {"lock"}

(* A step that leaves the databases and the links alone, of a process that   *)
(* is not about to record.                                                  *)
LEMMA QuietKeeps ==
  ASSUME SwitchInv, IInv', NEW p \in Procs,
         UNCHANGED <<links, dbs, written>>,
         \A q \in Procs \ {p} : pc'[q] = pc[q] /\ job'[q] = job[q],
         pc[p] # "record", pc'[p] # "record", pc'[p] \in Allowed, SwitchKnows(p)'
  PROVE  SwitchInv'
<1>1. LinksKept' /\ OneServer' /\ NothingMadeUp' /\ NoWriteLost'
  BY DEF SwitchInv, LinksKept, OneServer, NothingMadeUp, NoWriteLost, Exists
<1>2. NothingStale' BY DEF SwitchInv, NothingStale, Allowed
<1>3. ASSUME NEW q \in Procs PROVE SwitchKnows(q)'
  <2>1. CASE q # p
    BY <2>1 DEF SwitchInv, SwitchKnows, BaseOf, ParkFrom, ParkTo, Exists
  <2> QED BY <2>1
<1>4. OneCopyOfLive'
  <2> SUFFICES ASSUME NEW s \in Sites, IsAttached(s)',
                      \A q \in Procs : pc'[q] = "record" => job'[q].site # s
               PROVE  ~(Exists(Base(links[s].port, links[s].db)) /\
                        Exists(Parked(links[s].port, links[s].db, links[s].branch)))
    BY DEF OneCopyOfLive, Exists
  <2>1. \A q \in Procs : pc[q] = "record" => job[q].site # s OBVIOUS
  <2> QED BY <2>1 DEF SwitchInv, OneCopyOfLive, IsAttached
<1> QED BY <1>1, <1>2, <1>3, <1>4 DEF SwitchInv

(* What every answer and every refusal comes to, outside of "record". *)
COROLLARY ReturnQuiet ==
  ASSUME SwitchInv, IInv', NEW p \in Procs, NEW ok, Return(p, ok), pc[p] # "record",
         UNCHANGED <<links, dbs, written>>
  PROVE  SwitchInv'
<1>1. pc'[p] \in {"visit", "ok", "err"} BY DEF Return, Goto, SwitchInv, IInv, TypeOK
<1>2. \A q \in Procs \ {p} : pc'[q] = pc[q] /\ job'[q] = job[q]
  BY DEF Return, Goto, SwitchInv, IInv, TypeOK
<1>3. pc'[p] \in Allowed /\ pc'[p] # "record" /\ pc'[p] \notin SwitchSteps
  BY <1>1, StepNames DEF Allowed
<1>4. SwitchKnows(p)' BY <1>3, StepNames DEF SwitchKnows, Seen, Moved, SwitchSteps
<1> QED BY <1>2, <1>3, <1>4, QuietKeeps

(* A step of a process that goes on with other locals. *)
COROLLARY ContinueQuiet ==
  ASSUME SwitchInv, IInv', NEW p \in Procs, NEW step \in Allowed \ {"record"}, NEW locals,
         ContinueWith(p, step, locals), pc[p] # "record",
         UNCHANGED <<links, dbs, written>>,
         SwitchKnows(p)'
  PROVE  SwitchInv'
<1>1. pc'[p] = step /\ \A q \in Procs \ {p} : pc'[q] = pc[q] /\ job'[q] = job[q]
  BY DEF ContinueWith, Goto, SwitchInv, IInv, TypeOK
<1> QED BY <1>1, QuietKeeps

(* A statement of a switch that only chooses the next step. *)
COROLLARY CheckQuiet ==
  ASSUME SwitchInv, IInv', NEW p \in Procs, NEW step \in Planned, NEW next \in Allowed \ {"record"},
         Continue(p, next), pc[p] = step, pc[p] # "record",
         UNCHANGED <<links, dbs, written>>,
         SwitchKnows(p)'
  PROVE  SwitchInv'
<1>1. pc'[p] = next /\ \A q \in Procs \ {p} : pc'[q] = pc[q] /\ job'[q] = job[q]
  BY DEF Continue, Goto, SwitchInv, IInv, TypeOK
<1> QED BY <1>1, QuietKeeps

(* The steps of a switch that change no database. *)
LEMMA SwitchLockQuiet ==
  ASSUME SwitchInv, IInv', NEW p \in Procs, SwitchLock(p)
  PROVE  SwitchInv'
<1> DEFINE s == job[p].site
<1>1. pc[p] = "lock" /\ UNCHANGED <<links, dbs, written>> BY DEF SwitchLock, pg
<1>2. s \in Sites BY <1>1, StepNames DEF SwitchInv, IInv, LocalsKnown, Fits
<1>3. CASE ~IsAttached(s) BY <1>1, <1>3, ReturnQuiet DEF SwitchLock
<1>4. CASE IsAttached(s)
  <2>1. /\ pc'[p] = "plan"
        /\ job'[p] = [job[p] EXCEPT !.db = links[s].db, !.from = links[s].branch, !.kept = links[s].port]
        /\ \A q \in Procs \ {p} : pc'[q] = pc[q] /\ job'[q] = job[q]
    BY <1>4 DEF SwitchLock, Goto, SwitchInv, IInv, TypeOK
  <2>2. /\ job'[p].site = s /\ job'[p].db = links[s].db /\ job'[p].from = links[s].branch
        /\ job'[p].kept = links[s].port
    BY <2>1 DEF SwitchInv, IInv, TypeOK, Job
  <2>3. links[s].db # None /\ links[s].port = DefaultPort
    BY <1>2, <1>4 DEF IsAttached, SwitchInv, LinksKept
  <2>4. SwitchKnows(p)' BY <1>1, <2>1, <2>2, <2>3 DEF SwitchKnows, Seen, Moved
  <2>5. "plan" \in Allowed BY StepNames DEF Allowed
  <2> QED BY <1>1, <2>1, <2>4, <2>5, QuietKeeps
<1> QED BY <1>3, <1>4

LEMMA SwitchPlanQuiet ==
  ASSUME SwitchInv, IInv', NEW p \in Procs, SwitchPlan(p)
  PROVE  SwitchInv'
<1> DEFINE j == job[p]
           to == IF j.to # None THEN j.to ELSE head[j.site]
           port == IF j.override # None THEN j.override ELSE j.kept
           locals == [j EXCEPT !.to = to, !.port = port]
<1>1. pc[p] = "plan" /\ UNCHANGED <<links, dbs, written>> BY DEF SwitchPlan, pg
<1>2. (\E ok : Return(p, ok)) \/ ContinueWith(p, "base?", locals) BY DEF SwitchPlan
<1>3. CASE \E ok : Return(p, ok) BY <1>1, <1>3, ReturnQuiet
<1>4. CASE ContinueWith(p, "base?", locals)
  <2>1. pc'[p] = "base?" /\ job'[p] = locals
    BY <1>4 DEF ContinueWith, Goto, SwitchInv, IInv, TypeOK
  <2>2. locals.site = j.site /\ locals.db = j.db /\ locals.from = j.from /\ locals.kept = j.kept
    BY DEF SwitchInv, IInv, TypeOK, Job
  <2> HIDE DEF locals
  <2>3. "plan" \in SwitchSteps BY StepNames
  <2>4. SwitchKnows(p)'
    BY <1>1, <2>1, <2>2, <2>3 DEF SwitchInv, SwitchKnows, Seen, Moved
  <2>5. "base?" \in Allowed \ {"record"} BY StepNames DEF Allowed
  <2> QED BY <1>1, <1>4, <2>4, <2>5, ContinueQuiet
<1> QED BY <1>2, <1>3, <1>4

LEMMA SwitchChecksQuiet ==
  ASSUME SwitchInv, IInv', NEW p \in Procs,
         \/ SwitchChecksBase(p) \/ SwitchKicks(p) \/ SwitchLooksForStale(p)
         \/ SwitchLooksForParked(p)
  PROVE  SwitchInv'
<1> USE DEF SwitchInv
<1>0. UNCHANGED <<links, dbs, written>>
  BY DEF SwitchChecksBase, SwitchKicks, SwitchLooksForStale, SwitchLooksForParked, Check, pg
<1>1. ASSUME NEW step \in Planned, NEW next, step # "record", Runs(p, step), Continue(p, next)
      PROVE  /\ pc[p] = step /\ pc'[p] = next /\ job' = job
             /\ BaseOf(p)' = BaseOf(p) /\ ParkFrom(p)' = ParkFrom(p) /\ ParkTo(p)' = ParkTo(p)
             /\ BaseOf(p) \in Keys /\ ParkFrom(p) \in Keys /\ ParkTo(p) \in Keys
             /\ pc[p] \in SwitchSteps /\ job[p].site \in Sites
  BY <1>1, KnownKeys, StepNames DEF Runs, Continue, Goto, BaseOf, ParkFrom, ParkTo, IInv, TypeOK
<1>2. CASE SwitchChecksBase(p)
  <2>1. Runs(p, "base?") /\ Continue(p, "kick") BY <1>2 DEF SwitchChecksBase, Check
  <2>2. Exists(BaseOf(p)) BY <2>1 DEF Runs, Accepted
  <2>3. SwitchKnows(p)'
    BY <1>0, <1>1, <2>1, <2>2, StepNames DEF SwitchKnows, Seen, Moved, Exists
  <2> QED BY <1>0, <1>1, <2>1, <2>3, CheckQuiet, StepNames DEF Allowed
<1>3. CASE SwitchKicks(p)
  <2>1. Runs(p, "kick") /\ Continue(p, "parked?") BY <1>3 DEF SwitchKicks
  <2>2. SwitchKnows(p)'
    BY <1>0, <1>1, <2>1, StepNames DEF SwitchKnows, Seen, Moved, Exists
  <2> QED BY <1>0, <1>1, <2>1, <2>2, CheckQuiet, StepNames DEF Allowed
<1>4. CASE SwitchLooksForStale(p)
  <2>1. Runs(p, "parked?") /\ Continue(p, IF Exists(ParkFrom(p)) THEN "droppark" ELSE "park")
    BY <1>4 DEF SwitchLooksForStale, Check
  <2>2. pc[p] = "parked?" /\ job[p].site \in Sites /\ Exists(BaseOf(p)) /\ BaseOf(p) \in Keys
    BY <1>1, <2>1, StepNames DEF SwitchKnows, Seen
  <2>3. job[p].port = DefaultPort BY <2>2 DEF OneServer, BaseOf, Base
  <2>4. /\ BaseOf(p) = LiveAt(job[p].site) /\ ParkFrom(p) = ParkedAt(job[p].site)
        /\ IsAttached(job[p].site)
    BY <2>2, <2>3, StepNames DEF SwitchKnows, LinksKept, BaseOf, ParkFrom, LiveAt, ParkedAt, IsAttached
  <2>5. \A q \in Procs : pc[q] # "record" BY <2>2, OneSwitch, StepNames
  <2>6. ~Exists(ParkFrom(p))
    BY <2>2, <2>4, <2>5 DEF OneCopyOfLive, LiveAt, ParkedAt
  <2>7. Continue(p, "park") BY <2>1, <2>6
  <2>8. SwitchKnows(p)'
    BY <1>0, <1>1, <2>1, <2>2, <2>7, StepNames DEF SwitchKnows, Seen, Moved, Exists
  <2> QED BY <1>0, <1>1, <2>1, <2>7, <2>8, CheckQuiet, StepNames DEF Allowed
<1>5. CASE SwitchLooksForParked(p)
  <2> DEFINE next == IF Exists(ParkTo(p)) THEN "swap" ELSE "clone"
  <2>1. Runs(p, "back?") /\ Continue(p, next) BY <1>5 DEF SwitchLooksForParked, Check
  <2>2. next \in {"swap", "clone"} /\ (next = "clone" => ~Exists(ParkTo(p))) OBVIOUS
  <2> HIDE DEF next
  <2>3. SwitchKnows(p)'
    BY <1>0, <1>1, <2>1, <2>2, StepNames DEF SwitchKnows, Seen, Moved, Exists
  <2> QED BY <1>0, <1>1, <2>1, <2>2, <2>3, CheckQuiet, StepNames DEF Allowed
<1> QED BY <1>2, <1>3, <1>4, <1>5

(* A statement of a switch that changes databases touches those of its own   *)
(* site alone, and moves or copies what is there.                            *)
LEMMA RewriteSwitches ==
  ASSUME SwitchInv, IInv', NEW p \in Procs, NEW step \in Planned, NEW databases,
         NEW next \in {"back?", "record"}, step # "record",
         SwitchingAlone, Rewrite(p, step, databases, next),
         job[p].port = DefaultPort,
         \A k \in Keys \ {BaseOf(p), ParkFrom(p), ParkTo(p)} : databases[k] = dbs[k],
         \A k \in Keys : databases[k] = None \/ \E old \in Keys : databases[k] = dbs[old],
         \A old \in Keys : Exists(old) => \E k \in Keys : databases[k] = dbs[old],
         next = "back?" => databases[BaseOf(p)] = None,
         SwitchKnows(p)'
  PROVE  SwitchInv'
<1> USE DEF SwitchInv
<1>1. /\ pc[p] = step /\ dbs' = databases /\ job' = job
      /\ pc' = [pc EXCEPT ![p] = next] /\ UNCHANGED <<links, written>>
  BY DEF Rewrite, Runs, Continue, Goto
<1>2. pc'[p] = next /\ \A q \in Procs \ {p} : pc'[q] = pc[q] BY <1>1 DEF IInv, TypeOK
<1>3. LinksKept' BY <1>1 DEF LinksKept
<1>4. /\ BaseOf(p) \in Keys /\ ParkFrom(p) \in Keys /\ ParkTo(p) \in Keys
      /\ job[p].site \in Sites /\ Attached[job[p].site] # None
      /\ job[p].db = Attached[job[p].site]
  BY <1>1, KnownKeys
<1>5. OneServer'
  <2>1. \A k \in {BaseOf(p), ParkFrom(p), ParkTo(p)} : k[1] = DefaultPort
    BY DEF BaseOf, ParkFrom, ParkTo, Base, Parked
  <2> QED BY <1>1, <2>1 DEF OneServer, Exists
<1>6. NothingStale'
  BY <1>2, StepNames DEF NothingStale
<1>7. NothingMadeUp'
  BY <1>1 DEF NothingMadeUp, Exists
<1>8. NoWriteLost'
  BY <1>1, ConstantsAssumption DEF NoWriteLost, Exists
<1>9. ASSUME NEW q \in Procs \ {p} PROVE SwitchKnows(q)'
  <2>1. pc'[q] \notin SwitchSteps
    BY <1>1, <1>2, <1>9, OneSwitch, StepNames
  <2> QED BY <2>1, StepNames DEF SwitchKnows, Seen, Moved, SwitchSteps
<1>10. OneCopyOfLive'
  <2> SUFFICES ASSUME NEW s \in Sites, IsAttached(s)',
                      \A q \in Procs : pc'[q] = "record" => job'[q].site # s,
                      Exists(LiveAt(s))', Exists(ParkedAt(s))'
               PROVE  FALSE
    BY DEF OneCopyOfLive, LiveAt, ParkedAt
  <2>1. IsAttached(s) BY <1>1 DEF IsAttached
  <2>2. /\ LiveAt(s) \in Keys /\ ParkedAt(s) \in Keys
        /\ LiveAt(s) = Base(DefaultPort, Attached[s]) /\ Attached[s] # None
        /\ ParkedAt(s) = Parked(DefaultPort, Attached[s], links[s].branch)
    BY <2>1, LinkKeys
  <2>3. databases[LiveAt(s)] # None /\ databases[ParkedAt(s)] # None
    BY <1>1 DEF Exists, LiveAt, ParkedAt
  <2>4. CASE s = job[p].site
    <3>1. next = "back?" BY <1>1, <1>2, <2>4
    <3>2. LiveAt(s) = BaseOf(p) BY <1>4, <2>2, <2>4 DEF BaseOf
    <3> QED BY <2>3, <3>1, <3>2
  <2>5. CASE s # job[p].site
    <3>1. Attached[s] # job[p].db BY <1>4, <2>2, <2>5 DEF SwitchingAlone
    <3>2. /\ LiveAt(s) \notin {BaseOf(p), ParkFrom(p), ParkTo(p)}
          /\ ParkedAt(s) \notin {BaseOf(p), ParkFrom(p), ParkTo(p)}
      BY <2>2, <3>1 DEF BaseOf, ParkFrom, ParkTo, Base, Parked
    <3>3. Exists(LiveAt(s)) /\ Exists(ParkedAt(s))
      BY <2>2, <2>3, <3>2 DEF Exists
    <3>4. \A q \in Procs : pc[q] # "record"
      BY <1>1, OneSwitch, StepNames
    <3> QED BY <2>1, <3>3, <3>4 DEF OneCopyOfLive, LiveAt, ParkedAt
  <2> QED BY <2>4, <2>5
<1> QED BY <1>3, <1>5, <1>6, <1>7, <1>8, <1>9, <1>10

LEMMA SwitchRewritesKeep ==
  ASSUME SwitchingAlone, SwitchInv, IInv', NEW p \in Procs,
         SwitchParks(p) \/ SwitchSwaps(p) \/ SwitchClones(p)
  PROVE  SwitchInv'
<1> USE DEF SwitchInv
<1>0. pc[p] \in {"park", "swap", "clone"} /\ job' = job /\ Accepted(p)
  BY DEF SwitchParks, SwitchSwaps, SwitchClones, Rewrite, Runs, Continue
<1>1. /\ BaseOf(p) \in Keys /\ ParkFrom(p) \in Keys /\ ParkTo(p) \in Keys
      /\ BaseOf(p) # ParkFrom(p) /\ BaseOf(p) # ParkTo(p) /\ ParkFrom(p) # ParkTo(p)
      /\ job[p].site \in Sites
  BY <1>0, KnownKeys, StepNames
<1>2. job[p].port = DefaultPort
  <2>1. Exists(BaseOf(p)) \/ Exists(ParkFrom(p)) BY <1>0 DEF SwitchKnows, Seen, Moved
  <2> QED BY <1>1, <2>1 DEF OneServer, BaseOf, ParkFrom, Base, Parked
<1>3. BaseOf(p)' = BaseOf(p) /\ ParkFrom(p)' = ParkFrom(p) /\ ParkTo(p)' = ParkTo(p)
  BY <1>0 DEF BaseOf, ParkFrom, ParkTo
<1>4. dbs \in [Keys -> Contents] BY DEF IInv, TypeOK
<1>5. ASSUME NEW next \in {"back?", "record"}, NEW databases,
             Rewrite(p, pc[p], databases, next)
      PROVE  /\ dbs' = databases /\ pc'[p] = next
             /\ SwitchKnows(p)' <=>
                  /\ next = "back?" => databases[BaseOf(p)] = None /\ databases[ParkFrom(p)] # None
                  /\ next = "record" => /\ databases[BaseOf(p)] # None
                                        /\ databases[ParkFrom(p)] # None
                                        /\ databases[ParkTo(p)] = None
  <2>1. dbs' = databases /\ pc'[p] = next /\ links' = links
    BY <1>5 DEF Rewrite, Continue, Goto, IInv, TypeOK
  <2>2. pc[p] \in SwitchSteps BY <1>0, StepNames
  <2> QED BY <1>0, <1>3, <2>1, <2>2 DEF SwitchKnows, Seen, Moved, Exists
<1>6. CASE SwitchParks(p)
  <2> DEFINE databases == Renamed(BaseOf(p), ParkFrom(p))
  <2>1. pc[p] = "park" /\ Rewrite(p, pc[p], databases, "back?")
    BY <1>6 DEF SwitchParks, Rewrite, Runs
  <2>2. Exists(BaseOf(p)) /\ ~Exists(ParkFrom(p)) BY <1>0, <2>1 DEF Accepted
  <2>3. /\ databases[BaseOf(p)] = None /\ databases[ParkFrom(p)] = dbs[BaseOf(p)]
        /\ \A k \in Keys \ {BaseOf(p), ParkFrom(p)} : databases[k] = dbs[k]
    BY <1>1, <1>4 DEF Renamed
  <2> HIDE DEF databases
  <2>4. SwitchKnows(p)' BY <1>5, <2>1, <2>2, <2>3 DEF Exists
  <2>5. \A old \in Keys : Exists(old) => \E k \in Keys : databases[k] = dbs[old]
    BY <1>1, <2>2, <2>3
  <2>6. \A k \in Keys : databases[k] = None \/ \E old \in Keys : databases[k] = dbs[old]
    BY <1>1, <2>3
  <2> QED BY <1>2, <2>1, <2>3, <2>4, <2>5, <2>6, RewriteSwitches, StepNames
<1>7. CASE SwitchSwaps(p)
  <2> DEFINE databases == Renamed(ParkTo(p), BaseOf(p))
  <2>1. pc[p] = "swap" /\ Rewrite(p, pc[p], databases, "record")
    BY <1>7 DEF SwitchSwaps, Rewrite, Runs
  <2>2. Exists(ParkTo(p)) /\ ~Exists(BaseOf(p)) /\ Exists(ParkFrom(p))
    BY <1>0, <2>1 DEF Accepted, SwitchKnows, Moved
  <2>3. /\ databases[ParkTo(p)] = None /\ databases[BaseOf(p)] = dbs[ParkTo(p)]
        /\ \A k \in Keys \ {BaseOf(p), ParkTo(p)} : databases[k] = dbs[k]
    BY <1>1, <1>4 DEF Renamed
  <2> HIDE DEF databases
  <2>4. SwitchKnows(p)' BY <1>1, <1>5, <2>1, <2>2, <2>3 DEF Exists
  <2>5. \A old \in Keys : Exists(old) => \E k \in Keys : databases[k] = dbs[old]
    BY <1>1, <2>2, <2>3
  <2>6. \A k \in Keys : databases[k] = None \/ \E old \in Keys : databases[k] = dbs[old]
    BY <1>1, <2>3
  <2> QED BY <1>2, <2>1, <2>3, <2>4, <2>5, <2>6, RewriteSwitches, StepNames
<1>8. CASE SwitchClones(p)
  <2> DEFINE databases == [dbs EXCEPT ![BaseOf(p)] = dbs[ParkFrom(p)]]
  <2>1. pc[p] = "clone" /\ Rewrite(p, pc[p], databases, "record")
    BY <1>8 DEF SwitchClones, Rewrite, Runs
  <2>2. ~Exists(ParkTo(p)) /\ ~Exists(BaseOf(p)) /\ Exists(ParkFrom(p))
    BY <2>1 DEF SwitchKnows, Moved
  <2>3. /\ databases[BaseOf(p)] = dbs[ParkFrom(p)]
        /\ \A k \in Keys \ {BaseOf(p)} : databases[k] = dbs[k]
    BY <1>1, <1>4
  <2> HIDE DEF databases
  <2>4. SwitchKnows(p)' BY <1>1, <1>5, <2>1, <2>2, <2>3 DEF Exists
  <2>5. \A old \in Keys : Exists(old) => \E k \in Keys : databases[k] = dbs[old]
    BY <1>1, <2>2, <2>3
  <2>6. \A k \in Keys : databases[k] = None \/ \E old \in Keys : databases[k] = dbs[old]
    BY <1>1, <2>3
  <2> QED BY <1>2, <2>1, <2>3, <2>4, <2>5, <2>6, RewriteSwitches, StepNames
<1> QED BY <1>6, <1>7, <1>8

(* The record makes the branch that was moved to the live one. *)
LEMMA SwitchRecordsKeep ==
  ASSUME SwitchingAlone, SwitchInv, IInv', NEW p \in Procs, SwitchRecords(p)
  PROVE  SwitchInv'
<1> USE DEF SwitchInv
<1> DEFINE s == job[p].site
           link == [db |-> job[p].db, branch |-> job[p].to, port |-> job[p].kept]
<1>1. pc[p] = "record" /\ Record(p, link) /\ UNCHANGED <<dbs, written>>
  BY DEF SwitchRecords, pg
<1>2. /\ s \in Sites /\ Attached[s] # None /\ job[p].db = Attached[s]
      /\ BaseOf(p) \in Keys /\ ParkFrom(p) \in Keys /\ ParkTo(p) \in Keys
  BY <1>1, KnownKeys, StepNames
<1>3. job[p].to \in Branches /\ job[p].kept = DefaultPort
  BY <1>1, StepNames DEF IInv, LocalsKnown, Fits, SwitchKnows
<1>4. Exists(BaseOf(p)) /\ ~Exists(ParkTo(p)) BY <1>1 DEF SwitchKnows
<1>5. job[p].port = DefaultPort BY <1>2, <1>4 DEF OneServer, BaseOf, Base
<1>6. links' = [links EXCEPT ![s] = link] /\ \E ok : Return(p, ok)
  <2>1. links[s] # None BY <1>2 DEF LinksKept
  <2> QED BY <1>1, <2>1 DEF Record, SetLink, SaveFails, Edited, SwitchingAlone
<1>7. links'[s] = link /\ \A t \in Sites \ {s} : links'[t] = links[t]
  BY <1>2, <1>6 DEF IInv, TypeOK
<1>8. LinksKept'
  <2>1. link # None BY <1>2, <1>3, ConstantsAssumption DEF Link
  <2> QED BY <1>2, <1>3, <1>7, <2>1 DEF LinksKept
<1>9. OneServer' /\ NothingMadeUp' /\ NoWriteLost'
  BY <1>1 DEF OneServer, NothingMadeUp, NoWriteLost, Exists
<1>10. pc'[p] \in {"visit", "ok", "err"} /\ \A q \in Procs \ {p} : pc'[q] = pc[q]
  BY <1>6 DEF Return, Goto, IInv, TypeOK
<1>11. NothingStale' BY <1>10, StepNames DEF NothingStale
<1>12. \A q \in Procs : pc'[q] \notin SwitchSteps
  BY <1>1, <1>10, OneSwitch, StepNames
<1>13. \A q \in Procs : SwitchKnows(q)'
  BY <1>12, StepNames DEF SwitchKnows, Seen, Moved, SwitchSteps
<1>14. OneCopyOfLive'
  <2> SUFFICES ASSUME NEW t \in Sites, IsAttached(t)', Exists(LiveAt(t))', Exists(ParkedAt(t))'
               PROVE  FALSE
    BY DEF OneCopyOfLive, LiveAt, ParkedAt
  <2>1. CASE t = s
    <3>1. ParkedAt(t)' = ParkTo(p) BY <1>3, <1>5, <1>7, <2>1 DEF ParkedAt, ParkTo
    <3> QED BY <1>1, <1>4, <3>1 DEF Exists
  <2>2. CASE t # s
    <3>1. LiveAt(t)' = LiveAt(t) /\ ParkedAt(t)' = ParkedAt(t) /\ IsAttached(t)
      BY <1>7, <2>2 DEF LiveAt, ParkedAt, IsAttached
    <3>2. \A q \in Procs : pc[q] = "record" => job[q].site # t
      BY <1>1, <2>2, OneSwitch, StepNames
    <3> QED BY <1>1, <3>1, <3>2 DEF OneCopyOfLive, LiveAt, ParkedAt, Exists
  <2> QED BY <2>1, <2>2
<1> QED BY <1>8, <1>9, <1>11, <1>13, <1>14

(* Nothing happens but switches, checkouts, the watcher and the application. *)
LEMMA SwitchingKeeps ==
  ASSUME SwitchingAlone, SwitchInv, IInv', Next
  PROVE  SwitchInv'
<1> USE DEF SwitchInv
<1>1. ASSUME NEW p \in Clients, Request(p) \/ Edit(p) PROVE SwitchInv'
  <2>1. p \in Procs BY DEF Procs
  <2>2. RequestSwitch(p)
    BY <1>1 DEF Request, RequestAttach, RequestDetach, RequestDropBranch, Edit, LinkSite,
                UnlinkSite, ApplySpec, SwitchingAlone
  <2>3. pc[p] = "idle" /\ (\E locals : ContinueWith(p, "lock", locals))
        /\ UNCHANGED <<links, dbs, written>>
    BY <2>2 DEF RequestSwitch, pg
  <2>4. pc'[p] = "lock" BY <2>1, <2>3 DEF ContinueWith, Goto, IInv, TypeOK
  <2>5. SwitchKnows(p)' BY <2>4, StepNames DEF SwitchKnows, Seen, Moved
  <2>6. "lock" \in Allowed \ {"record"} BY DEF Allowed
  <2> QED BY <2>1, <2>3, <2>5, <2>6, ContinueQuiet
<1>2. ASSUME NEW p \in Procs, Handle(p) PROVE SwitchInv'
  <2>1. pc[p] \notin AttachSteps \cup DetachSteps \cup DropSteps \cup {"droppark"}
    BY StepNames DEF NothingStale, Resting, SwitchSteps, AttachSteps, DetachSteps, DropSteps
  <2>2. ~(Attach(p) \/ Detach(p) \/ DropBranch(p) \/ SwitchDropsStale(p))
    BY <2>1 DEF Attach, AttachPlans, AttachLooksForBase, AttachCreates, AttachRecords, Detach,
         DetachReads, DetachRecords, DropBranch, DropReads, DropLooks, DropDrops,
         SwitchDropsStale, Check, Rewrite, Runs, AttachSteps, DetachSteps, DropSteps
  <2>3. CASE StatementFails(p)
    BY <2>3, ReturnQuiet DEF StatementFails, PsqlSteps, pg
  <2> QED
    BY <1>2, <2>2, <2>3, SwitchLockQuiet, SwitchPlanQuiet, SwitchChecksQuiet, SwitchRewritesKeep,
       SwitchRecordsKeep DEF Handle, Switch
<1>3. CASE Watch
  <2>1. Watcher \in Procs BY DEF Procs
  <2>2. /\ UNCHANGED <<links, dbs, written>>
        /\ pc[Watcher] \in {"sleep", "visit"} /\ pc'[Watcher] \in {"sleep", "visit", "lock"}
        /\ \A q \in Procs \ {Watcher} : pc'[q] = pc[q] /\ job'[q] = job[q]
    BY <1>3, <2>1 DEF Watch, WatchPolls, WatchVisits, WatchSleeps, Goto, pg, watch, IInv, TypeOK
  <2>3. SwitchKnows(Watcher)'
    BY <2>2 DEF SwitchKnows, SwitchSteps, Seen, Moved
  <2> QED BY <2>1, <2>2, <2>3, QuietKeeps, StepNames DEF Allowed, Resting
<1>4. ASSUME NEW key \in Keys, NEW w \in Writes, AppWrites(key, w) PROVE SwitchInv'
  <2>1. /\ dbs' = [dbs EXCEPT ![key] = @ \cup {w}] /\ written' = written \cup {w}
        /\ UNCHANGED <<links, pc, job>> /\ Exists(key)
    BY <1>4 DEF AppWrites, watch
  <2>2. dbs[key] \cup {w} # None
    BY <2>1, ConstantsAssumption DEF Exists, IInv, TypeOK, Contents
  <2>3. \A k \in Keys : /\ Exists(k)' <=> Exists(k)
                        /\ Exists(k) => dbs[k] \subseteq dbs'[k] /\ dbs'[k] \subseteq dbs[k] \cup {w}
    BY <2>1, <2>2 DEF Exists, IInv, TypeOK
  <2>4. NoWriteLost'
    <3>1. w \in dbs'[key] BY <2>1 DEF IInv, TypeOK
    <3> QED BY <2>1, <2>3, <3>1 DEF NoWriteLost
  <2>5. NothingMadeUp' BY <2>1, <2>3 DEF NothingMadeUp
  <2>6. LinksKept' /\ OneServer' /\ NothingStale'
    BY <2>1, <2>3 DEF LinksKept, OneServer, NothingStale
  <2>7. ASSUME NEW p \in Procs PROVE SwitchKnows(p)'
    <3>1. BaseOf(p)' = BaseOf(p) /\ ParkFrom(p)' = ParkFrom(p) /\ ParkTo(p)' = ParkTo(p)
      BY <2>1 DEF BaseOf, ParkFrom, ParkTo
    <3>2. CASE pc[p] \in Planned
      <4>1. BaseOf(p) \in Keys /\ ParkFrom(p) \in Keys /\ ParkTo(p) \in Keys
        BY <3>2, KnownKeys
      <4>2. /\ Exists(BaseOf(p))' <=> Exists(BaseOf(p))
            /\ Exists(ParkFrom(p))' <=> Exists(ParkFrom(p))
            /\ Exists(ParkTo(p))' <=> Exists(ParkTo(p))
        BY <2>3, <3>1, <4>1 DEF Exists
      <4> QED BY <2>1, <4>2 DEF SwitchKnows
    <3>3. CASE pc[p] \notin Planned
      BY <2>1, <3>3, StepNames DEF SwitchKnows, Seen, Moved
    <3> QED BY <3>2, <3>3
  <2>8. OneCopyOfLive'
    <3> SUFFICES ASSUME NEW s \in Sites, IsAttached(s)',
                        \A p \in Procs : pc'[p] = "record" => job'[p].site # s,
                        Exists(LiveAt(s))', Exists(ParkedAt(s))'
                 PROVE  FALSE
      BY DEF OneCopyOfLive, LiveAt, ParkedAt
    <3>1. IsAttached(s) /\ LiveAt(s)' = LiveAt(s) /\ ParkedAt(s)' = ParkedAt(s)
      BY <2>1 DEF IsAttached, LiveAt, ParkedAt
    <3>2. LiveAt(s) \in Keys /\ ParkedAt(s) \in Keys BY <3>1, LinkKeys
    <3>3. Exists(LiveAt(s)) /\ Exists(ParkedAt(s)) BY <2>3, <3>1, <3>2 DEF Exists
    <3> QED BY <2>1, <3>1, <3>3 DEF OneCopyOfLive, LiveAt, ParkedAt
  <2> QED BY <2>4, <2>5, <2>6, <2>7, <2>8
<1>5. CASE World /\ ~\E k \in Keys, w \in Writes : AppWrites(k, w)
  <2>1. UNCHANGED <<links, dbs, written, pc, job>>
    BY <1>5 DEF World, Checkout, AppConnects, AppLeaves, PostgresStops, PostgresStarts, Restart,
                SwitchingAlone, pg, watch
  <2> QED
    BY <2>1 DEF LinksKept, OneServer, NothingStale, NothingMadeUp, SwitchKnows, OneCopyOfLive,
                NoWriteLost, BaseOf, ParkFrom, ParkTo, Exists, IsAttached
<1> QED BY <1>1, <1>2, <1>3, <1>4, <1>5 DEF Next, World

LEMMA SwitchInit == SwitchingAlone /\ Init => SwitchInv
<1> SUFFICES ASSUME SwitchingAlone, Init PROVE SwitchInv OBVIOUS
<1>1. IInv BY InitKeeps
<1>2. \A k \in Keys : Exists(k) => dbs[k] = {} /\ k[1] = DefaultPort /\ IsBase(k)
  BY DEF Init, Exists, Base, IsBase
<1>3. \A p \in Procs : pc[p] \in Resting BY StepNames DEF Init
<1>4. LinksKept
  <2>1. ASSUME NEW s \in Sites PROVE links[s] \in Link
    BY ConstantsAssumption DEF Init, Link
  <2> QED BY <2>1, ConstantsAssumption DEF Init, LinksKept
<1>5. OneServer /\ NothingMadeUp BY <1>2 DEF OneServer, NothingMadeUp
<1>6. NothingStale BY <1>3 DEF NothingStale
<1>7. \A p \in Procs : SwitchKnows(p)
  BY <1>3, StepNames DEF SwitchKnows, Seen, Moved
<1>8. OneCopyOfLive
  <2> SUFFICES ASSUME NEW s \in Sites, IsAttached(s), Exists(ParkedAt(s)) PROVE FALSE
    BY DEF OneCopyOfLive, ParkedAt
  <2>1. links[s].branch \in Branches /\ links[s].db \in Bases /\ links[s].port \in Ports
    BY <1>1, <1>4, ConstantsAssumption DEF LinksKept, IsAttached, IInv, TypeOK, Link
  <2>2. ParkedAt(s) \in Keys /\ ~IsBase(ParkedAt(s))
    BY <2>1, ConstantsAssumption DEF ParkedAt, Parked, Keys, IsBase
  <2> QED BY <1>2, <2>2
<1>9. NoWriteLost BY DEF Init, NoWriteLost
<1> QED BY <1>1, <1>4, <1>5, <1>6, <1>7, <1>8, <1>9 DEF SwitchInv

LEMMA SwitchInvariance == ASSUME SwitchingAlone PROVE Spec => []SwitchInv
<1>1. SwitchInv /\ IInv' /\ [Next]_vars => SwitchInv'
  <2>1. CASE UNCHANGED vars
    BY <2>1 DEF vars, SwitchInv, LinksKept, OneServer, NothingStale, NothingMadeUp, SwitchKnows,
       OneCopyOfLive, NoWriteLost, BaseOf, ParkFrom, ParkTo, Exists, IsAttached
  <2> QED BY <2>1, SwitchingKeeps
<1>2. Init => SwitchInv BY SwitchInit
<1> QED BY <1>1, <1>2, Invariance, PTL DEF Spec

(* While switches are all that happens, failing half way included, no        *)
(* committed write is ever lost, for any number of sites, branches, servers  *)
(* and clients.                                                              *)
THEOREM SwitchingLosesNothing == ASSUME SwitchingAlone PROVE Spec => []NoWriteLost
<1>1. SwitchInv => NoWriteLost BY DEF SwitchInv
<1> QED BY <1>1, SwitchInvariance, PTL

(* Nor does a switch ever find a copy of the live branch beside its base,    *)
(* which it would drop.                                                      *)
THEOREM OneCopy == ASSUME SwitchingAlone PROVE Spec => []OneCopyOfLive
<1>1. SwitchInv => OneCopyOfLive BY DEF SwitchInv
<1> QED BY <1>1, SwitchInvariance, PTL

-------------------------------------------------------------------------------
(* Switching implements the store: each branch of an attached site has a     *)
(* data set of its own, and moving to a branch keeps every one of them.      *)

EverySiteAttached == \A s \in Sites : Attached[s] # None

HomeOf(s) == Base(DefaultPort, Attached[s])
ShelfOf(s, b) == Parked(DefaultPort, Attached[s], b)

(* The branch the store calls live is the recorded one, but for the moment   *)
(* between the swap and its record.                                          *)
LiveExact ==
  \A s \in Sites :
    /\ \A p \in Procs : pc[p] = "record" /\ job[p].site = s => StoreLive[s] = job[p].to
    /\ (\A p \in Procs : pc[p] = "record" => job[p].site # s) => StoreLive[s] = links[s].branch

(* A branch's data are in the base while it is live there, else parked. *)
DataExact ==
  \A s \in Sites, b \in Branches :
    /\ b = StoreLive[s] /\ Exists(HomeOf(s)) => StoreData[s][b] = dbs[HomeOf(s)]
    /\ ~(b = StoreLive[s] /\ Exists(HomeOf(s))) => StoreData[s][b] = dbs[ShelfOf(s, b)]

LEMMA LiveKnown == IInv => LiveExact
<1> SUFFICES ASSUME IInv, NEW s \in Sites
    PROVE /\ \A p \in Procs : pc[p] = "record" /\ job[p].site = s => StoreLive[s] = job[p].to
          /\ (\A p \in Procs : pc[p] = "record" => job[p].site # s) => StoreLive[s] = links[s].branch
  BY DEF LiveExact
<1>1. ASSUME NEW p \in Procs, pc[p] = "record" /\ job[p].site = s
      PROVE  StoreLive[s] = job[p].to
  <2> DEFINE chosen == CHOOSE q \in Procs : pc[q] = "record" /\ job[q].site = s
  <2>1. chosen \in Procs /\ pc[chosen] = "record" BY <1>1
  <2>2. chosen = p BY <1>1, <2>1, OneSwitch, StepNames
  <2>3. StoreLive[s] = job[chosen].to BY <1>1 DEF StoreLive
  <2> QED BY <2>2, <2>3
<1>2. (\A p \in Procs : pc[p] = "record" => job[p].site # s) => StoreLive[s] = links[s].branch
  BY DEF StoreLive
<1> QED BY <1>1, <1>2

LEMMA DataKnown == EverySiteAttached /\ SwitchInv => DataExact
BY DEF DataExact, EverySiteAttached, SwitchInv, LinksKept, StoreData, HomeOf, ShelfOf

LEMMA StoreShape ==
  /\ StoreLive = [s \in Sites |-> StoreLive[s]]
  /\ StoreData = [s \in Sites |-> [b \in Branches |-> StoreData[s][b]]]
<1>1. StoreLive = [s \in Sites |-> StoreLive[s]] BY DEF StoreLive
<1>2. StoreData = [s \in Sites |-> [b \in Branches |-> StoreData[s][b]]] BY DEF StoreData
<1> QED BY <1>1, <1>2

(* All of it holds after a step as before it. *)
LEMMA StoreKnown ==
  EverySiteAttached /\ SwitchInv /\ SwitchInv' =>
    LiveExact /\ LiveExact' /\ DataExact /\ DataExact'
<1>1. EverySiteAttached /\ SwitchInv => LiveExact /\ DataExact
  BY LiveKnown, DataKnown DEF SwitchInv
<1>2. EverySiteAttached => EverySiteAttached' BY DEF EverySiteAttached
<1> QED BY <1>1, <1>2, PTL

(* Every site has its home and its shelves to itself. *)
LEMMA OwnKeys ==
  ASSUME SwitchingAlone, EverySiteAttached, NEW s \in Sites, NEW b \in Branches
  PROVE  /\ HomeOf(s) \in Keys /\ ShelfOf(s, b) \in Keys
         /\ \A t \in Sites, c \in Branches :
              /\ HomeOf(s) # ShelfOf(t, c)
              /\ HomeOf(s) = HomeOf(t) => s = t
              /\ ShelfOf(s, b) = ShelfOf(t, c) => s = t /\ b = c
BY ConstantsAssumption DEF SwitchingAlone, EverySiteAttached, HomeOf, ShelfOf, Keys, Base, Parked

(* What a planned switch works on, in these words. *)
LEMMA SwitchKeys ==
  ASSUME EverySiteAttached, SwitchInv, NEW p \in Procs,
         pc[p] \in {"park", "swap", "clone", "record"}
  PROVE  /\ job[p].site \in Sites /\ job[p].from \in Branches /\ job[p].to \in Branches
         /\ job[p].from # job[p].to /\ links[job[p].site].branch = job[p].from
         /\ BaseOf(p) = HomeOf(job[p].site)
         /\ ParkFrom(p) = ShelfOf(job[p].site, job[p].from)
         /\ ParkTo(p) = ShelfOf(job[p].site, job[p].to)
<1> USE DEF SwitchInv
<1>1. /\ BaseOf(p) \in Keys /\ ParkFrom(p) \in Keys
      /\ job[p].site \in Sites /\ job[p].db = Attached[job[p].site]
  BY KnownKeys, StepNames
<1>2. job[p].port = DefaultPort
  <2>1. Exists(BaseOf(p)) \/ Exists(ParkFrom(p)) BY DEF SwitchKnows, Seen, Moved
  <2> QED BY <1>1, <2>1 DEF OneServer, BaseOf, ParkFrom, Base, Parked
<1>3. /\ job[p].from \in Branches /\ job[p].to \in Branches /\ job[p].from # job[p].to
  BY StepNames DEF IInv, LocalsKnown, Fits
<1>4. links[job[p].site].branch = job[p].from
  BY StepNames DEF SwitchKnows
<1> QED BY <1>1, <1>2, <1>3, <1>4 DEF BaseOf, ParkFrom, ParkTo, HomeOf, ShelfOf

(* The store stays as it is when nothing it looks at moves. *)
LEMMA StoreRests ==
  ASSUME EverySiteAttached, SwitchInv, SwitchInv', UNCHANGED <<links, dbs>>,
         \A p \in Procs : pc'[p] = "record" <=> pc[p] = "record",
         \A p \in Procs : pc[p] = "record" => job'[p] = job[p]
  PROVE  UNCHANGED <<StoreLive, StoreData>>
<1>1. LiveExact /\ LiveExact' /\ DataExact /\ DataExact' BY StoreKnown
<1>2. ASSUME NEW s \in Sites PROVE StoreLive'[s] = StoreLive[s]
  BY <1>1 DEF LiveExact
<1>3. StoreLive' = StoreLive BY <1>2 DEF StoreLive
<1>4. ASSUME NEW s \in Sites, NEW b \in Branches PROVE StoreData'[s][b] = StoreData[s][b]
  BY <1>1, <1>3 DEF DataExact, HomeOf, ShelfOf, Exists
<1>5. StoreData' = StoreData BY <1>4 DEF StoreData
<1> QED BY <1>3, <1>5

(* Parking moves the live branch's data and keeps them. *)
LEMMA ParkingRests ==
  ASSUME SwitchingAlone, EverySiteAttached, SwitchInv, SwitchInv', NEW p \in Procs, SwitchParks(p)
  PROVE  UNCHANGED <<StoreLive, StoreData>>
<1>1. LiveExact /\ LiveExact' /\ DataExact /\ DataExact' BY StoreKnown
<1>2. /\ pc[p] = "park" /\ Accepted(p) /\ dbs' = Renamed(BaseOf(p), ParkFrom(p))
      /\ pc' = [pc EXCEPT ![p] = "back?"] /\ UNCHANGED <<links, job>>
  BY DEF SwitchParks, Rewrite, Runs, Continue, Goto
<1>3. PICK s \in Sites :
        /\ s = job[p].site /\ job[p].from \in Branches /\ links[s].branch = job[p].from
        /\ BaseOf(p) = HomeOf(s) /\ ParkFrom(p) = ShelfOf(s, job[p].from)
  BY <1>2, SwitchKeys
<1>4. HomeOf(s) \in Keys /\ ShelfOf(s, job[p].from) \in Keys BY <1>3, OwnKeys
<1>5. /\ dbs'[HomeOf(s)] = None /\ dbs'[ShelfOf(s, job[p].from)] = dbs[HomeOf(s)]
      /\ \A k \in Keys \ {HomeOf(s), ShelfOf(s, job[p].from)} : dbs'[k] = dbs[k]
  <2>1. HomeOf(s) # ShelfOf(s, job[p].from) BY <1>3, OwnKeys
  <2> QED BY <1>2, <1>3, <1>4, <2>1 DEF Renamed, SwitchInv, IInv, TypeOK
<1>6. Exists(HomeOf(s)) /\ ~Exists(HomeOf(s))' BY <1>2, <1>3, <1>5 DEF Accepted, Exists
<1>7. \A q \in Procs : pc[q] # "record" /\ pc'[q] # "record"
  BY <1>2, OneSwitch, StepNames DEF SwitchInv, IInv, TypeOK
<1>8. ASSUME NEW t \in Sites PROVE StoreLive'[t] = StoreLive[t] /\ StoreLive[t] = links[t].branch
  BY <1>1, <1>2, <1>7 DEF LiveExact
<1>9. StoreLive' = StoreLive BY <1>8 DEF StoreLive
<1>10. ASSUME NEW t \in Sites, NEW b \in Branches PROVE StoreData'[t][b] = StoreData[t][b]
  <2>1. HomeOf(t) \in Keys /\ ShelfOf(t, b) \in Keys BY OwnKeys
  <2>2. CASE t = s
    <3>1. CASE b = job[p].from
      BY <1>1, <1>3, <1>5, <1>6, <1>8, <1>9, <2>2, <3>1 DEF DataExact
    <3>2. CASE b # job[p].from
      <4>1. ShelfOf(t, b) \notin {HomeOf(s), ShelfOf(s, job[p].from)}
        BY <1>3, <2>2, <3>2, OwnKeys
      <4> QED BY <1>1, <1>3, <1>5, <1>8, <1>9, <2>1, <2>2, <3>2, <4>1 DEF DataExact
    <3> QED BY <3>1, <3>2
  <2>3. CASE t # s
    <3>1. {HomeOf(t), ShelfOf(t, b)} \cap {HomeOf(s), ShelfOf(s, job[p].from)} = {}
      BY <1>3, <2>3, OwnKeys
    <3>2. dbs'[HomeOf(t)] = dbs[HomeOf(t)] /\ dbs'[ShelfOf(t, b)] = dbs[ShelfOf(t, b)]
      BY <1>5, <2>1, <3>1
    <3>3. Exists(HomeOf(t))' <=> Exists(HomeOf(t)) BY <3>2 DEF Exists, HomeOf
    <3> QED BY <1>1, <1>9, <3>2, <3>3 DEF DataExact
  <2> QED BY <2>2, <2>3
<1>11. StoreData' = StoreData BY <1>10 DEF StoreData
<1> QED BY <1>9, <1>11

(* When the data of the branch moved to take the base's name, it goes live. *)
LEMMA GoingLive ==
  ASSUME SwitchingAlone, EverySiteAttached, SwitchInv, SwitchInv', NEW p \in Procs,
         SwitchSwaps(p) \/ SwitchClones(p)
  PROVE  \E s \in Sites, to \in Branches : Store!Switch(s, to)
<1>1. LiveExact /\ LiveExact' /\ DataExact /\ DataExact' BY StoreKnown
<1>2. /\ pc[p] \in {"swap", "clone"} /\ pc' = [pc EXCEPT ![p] = "record"]
      /\ UNCHANGED <<links, job>> /\ Accepted(p)
  BY DEF SwitchSwaps, SwitchClones, Rewrite, Runs, Continue, Goto
<1>3. PICK s \in Sites, from \in Branches, to \in Branches :
        /\ s = job[p].site /\ from = job[p].from /\ to = job[p].to
        /\ from # to /\ links[s].branch = from
        /\ BaseOf(p) = HomeOf(s) /\ ParkFrom(p) = ShelfOf(s, from) /\ ParkTo(p) = ShelfOf(s, to)
  BY <1>2, SwitchKeys
<1>4. /\ HomeOf(s) \in Keys /\ ShelfOf(s, from) \in Keys /\ ShelfOf(s, to) \in Keys
      /\ HomeOf(s) # ShelfOf(s, from) /\ HomeOf(s) # ShelfOf(s, to)
      /\ ShelfOf(s, from) # ShelfOf(s, to)
  BY <1>3, OwnKeys
<1>5. dbs[HomeOf(s)] = None /\ dbs[ShelfOf(s, from)] # None
  BY <1>2, <1>3 DEF SwitchInv, SwitchKnows, Moved, Exists
<1>6. /\ dbs'[HomeOf(s)] = IF dbs[ShelfOf(s, to)] = None THEN dbs[ShelfOf(s, from)]
                                                         ELSE dbs[ShelfOf(s, to)]
      /\ \A k \in Keys \ {HomeOf(s), ShelfOf(s, to)} : dbs'[k] = dbs[k]
  <2>1. dbs \in [Keys -> Contents] BY DEF SwitchInv, IInv, TypeOK
  <2>2. CASE SwitchSwaps(p)
    <3>1. dbs[ShelfOf(s, to)] # None
      BY <1>2, <1>3, <2>2 DEF SwitchSwaps, Rewrite, Runs, Accepted, Exists
    <3>2. dbs' = Renamed(ShelfOf(s, to), HomeOf(s)) BY <1>3, <2>2 DEF SwitchSwaps, Rewrite
    <3> QED BY <1>4, <2>1, <3>1, <3>2 DEF Renamed
  <2>3. CASE SwitchClones(p)
    <3>1. dbs[ShelfOf(s, to)] = None
      BY <1>3, <2>3 DEF SwitchClones, Rewrite, Runs, SwitchInv, SwitchKnows, Exists
    <3>2. dbs' = [dbs EXCEPT ![HomeOf(s)] = dbs[ShelfOf(s, from)]]
      BY <1>3, <2>3 DEF SwitchClones, Rewrite
    <3> QED BY <1>4, <2>1, <3>1, <3>2
  <2> QED BY <2>2, <2>3
<1>7. ~Exists(HomeOf(s)) /\ Exists(HomeOf(s))'
  BY <1>5, <1>6 DEF Exists
<1>8. pc'[p] = "record" /\ \A q \in Procs : pc[q] # "record" /\ (q # p => pc'[q] # "record")
  BY <1>2, OneSwitch, StepNames DEF SwitchInv, IInv, TypeOK
<1>9. \A t \in Sites : StoreLive[t] = links[t].branch
  BY <1>1, <1>8 DEF LiveExact
<1>10. /\ StoreLive'[s] = to
       /\ \A t \in Sites \ {s} : StoreLive'[t] = StoreLive[t]
  BY <1>1, <1>2, <1>3, <1>8, <1>9 DEF LiveExact
<1>11. StoreLive' = [StoreLive EXCEPT ![s] = to]
  <2>1. (StoreLive = [t \in Sites |-> StoreLive[t]])' BY DEF StoreLive
  <2> QED BY <1>10, <2>1, StoreShape
<1>12. StoreLive[s] = from BY <1>3, <1>9
<1>13. /\ StoreData[s][from] = dbs[ShelfOf(s, from)]
       /\ StoreData[s][to] = dbs[ShelfOf(s, to)]
       /\ StoreData'[s][to] = dbs'[HomeOf(s)]
  BY <1>1, <1>3, <1>7, <1>10, <1>12 DEF DataExact
<1>14. ASSUME NEW t \in Sites, NEW b \in Branches, t # s \/ b # to
       PROVE  StoreData'[t][b] = StoreData[t][b]
  <2>1. HomeOf(t) \in Keys /\ ShelfOf(t, b) \in Keys BY OwnKeys
  <2>2. dbs'[ShelfOf(t, b)] = dbs[ShelfOf(t, b)]
    BY <1>3, <1>6, <1>14, <2>1, OwnKeys
  <2>3. CASE t = s
    BY <1>1, <1>7, <1>10, <1>14, <2>2, <2>3 DEF DataExact
  <2>4. CASE t # s
    <3>1. dbs'[HomeOf(t)] = dbs[HomeOf(t)]
      BY <1>3, <1>6, <2>1, <2>4, OwnKeys
    <3>2. Exists(HomeOf(t))' <=> Exists(HomeOf(t)) BY <3>1 DEF Exists, HomeOf
    <3> QED BY <1>1, <1>10, <2>2, <2>4, <3>1, <3>2 DEF DataExact
  <2> QED BY <2>3, <2>4
<1>15. StoreData' = [StoreData EXCEPT ![s][to] =
                       IF @ = None THEN StoreData[s][StoreLive[s]] ELSE @]
  <2> DEFINE moved == [StoreData EXCEPT ![s][to] =
                         IF @ = None THEN StoreData[s][StoreLive[s]] ELSE @]
  <2>1. \A t \in Sites, b \in Branches : StoreData'[t][b] = moved[t][b]
    BY <1>6, <1>12, <1>13, <1>14 DEF StoreData
  <2>2. \A t \in Sites : StoreData'[t] = moved[t] BY <2>1 DEF StoreData
  <2> QED BY <2>2 DEF StoreData
<1> QED BY <1>3, <1>11, <1>12, <1>15 DEF Store!Switch

(* The record catches up with what is live already. *)
LEMMA RecordingRests ==
  ASSUME SwitchingAlone, EverySiteAttached, SwitchInv, SwitchInv', NEW p \in Procs,
         SwitchRecords(p)
  PROVE  UNCHANGED <<StoreLive, StoreData>>
<1>1. LiveExact /\ LiveExact' /\ DataExact /\ DataExact' BY StoreKnown
<1>2. /\ pc[p] = "record" /\ UNCHANGED dbs
      /\ Record(p, [db |-> job[p].db, branch |-> job[p].to, port |-> job[p].kept])
  BY DEF SwitchRecords, pg
<1>3. PICK s \in Sites : s = job[p].site BY <1>2, SwitchKeys
<1>4. /\ links' = [links EXCEPT ![s] =
                     [db |-> job[p].db, branch |-> job[p].to, port |-> job[p].kept]]
      /\ \E ok : Return(p, ok)
  <2>1. links[s] # None BY DEF SwitchInv, LinksKept
  <2> QED BY <1>2, <1>3, <2>1 DEF Record, SetLink, SaveFails, Edited
<1>5. links'[s].branch = job[p].to /\ \A t \in Sites \ {s} : links'[t] = links[t]
  BY <1>4 DEF SwitchInv, IInv, TypeOK
<1>6. \A q \in Procs : pc'[q] # "record" /\ (q # p => pc[q] # "record")
  BY <1>2, <1>4, OneSwitch, StepNames DEF Return, Goto, SwitchInv, IInv, TypeOK
<1>7. ASSUME NEW t \in Sites PROVE StoreLive'[t] = StoreLive[t]
  BY <1>1, <1>2, <1>3, <1>5, <1>6 DEF LiveExact
<1>8. StoreLive' = StoreLive BY <1>7 DEF StoreLive
<1>9. ASSUME NEW t \in Sites, NEW b \in Branches PROVE StoreData'[t][b] = StoreData[t][b]
  BY <1>1, <1>2, <1>8 DEF DataExact, HomeOf, ShelfOf, Exists
<1>10. StoreData' = StoreData BY <1>9 DEF StoreData
<1> QED BY <1>8, <1>10

(* What the application writes goes into the live branch's data. *)
LEMMA WritingWrites ==
  ASSUME SwitchingAlone, EverySiteAttached, SwitchInv, SwitchInv',
         NEW key \in Keys, NEW w \in Writes, AppWrites(key, w)
  PROVE  \/ UNCHANGED <<StoreLive, StoreData>>
         \/ \E s \in Sites : Store!Write(s, w)
<1>1. LiveExact /\ LiveExact' /\ DataExact /\ DataExact' BY StoreKnown
<1>2. /\ IsBase(key) /\ Exists(key) /\ w \notin written
      /\ dbs' = [dbs EXCEPT ![key] = @ \cup {w}] /\ UNCHANGED <<links, pc, job>>
  BY DEF AppWrites, watch
<1>3. dbs'[key] = dbs[key] \cup {w} /\ \A k \in Keys \ {key} : dbs'[k] = dbs[k]
  BY <1>2 DEF SwitchInv, IInv, TypeOK
<1>4. w \notin dbs[key] BY <1>2 DEF SwitchInv, NothingMadeUp
<1>5. dbs'[key] # None
  BY <1>2, <1>3, ConstantsAssumption DEF SwitchInv, IInv, TypeOK, Contents, Exists
<1>6. ASSUME NEW t \in Sites PROVE StoreLive'[t] = StoreLive[t]
  BY <1>1, <1>2 DEF LiveExact
<1>7. StoreLive' = StoreLive BY <1>6 DEF StoreLive
<1>8. \A t \in Sites, b \in Branches : ShelfOf(t, b) # key
  BY <1>2, ConstantsAssumption DEF ShelfOf, Parked, IsBase
<1>9. ASSUME NEW t \in Sites, NEW b \in Branches, ~(HomeOf(t) = key /\ b = StoreLive[t])
      PROVE  StoreData'[t][b] = StoreData[t][b]
  <2>1. HomeOf(t) \in Keys /\ ShelfOf(t, b) \in Keys BY OwnKeys
  <2>2. dbs'[ShelfOf(t, b)] = dbs[ShelfOf(t, b)] BY <1>3, <1>8, <2>1
  <2>3. HomeOf(t) # key => dbs'[HomeOf(t)] = dbs[HomeOf(t)] BY <1>3, <2>1
  <2>4. HomeOf(t) # key => (Exists(HomeOf(t))' <=> Exists(HomeOf(t)))
    BY <2>3 DEF Exists, HomeOf
  <2> QED BY <1>1, <1>7, <1>9, <2>2, <2>3, <2>4 DEF DataExact
<1>10. CASE \A t \in Sites : HomeOf(t) # key
  <2>1. \A t \in Sites, b \in Branches : StoreData'[t][b] = StoreData[t][b] BY <1>9, <1>10
  <2>2. StoreData' = StoreData BY <2>1 DEF StoreData
  <2> QED BY <1>7, <2>2
<1>11. ASSUME NEW s \in Sites, HomeOf(s) = key PROVE Store!Write(s, w)
  <2>1. StoreLive[s] \in Branches
    <3>1. \A p \in Procs : pc[p] = "record" => job[p].to \in Branches BY SwitchKeys
    <3>2. links[s].branch \in Branches BY DEF SwitchInv, LinksKept, EverySiteAttached
    <3> QED BY <1>1, <3>1, <3>2 DEF LiveExact
  <2>2. StoreData[s][StoreLive[s]] = dbs[key]
    BY <1>1, <1>2, <1>11, <2>1 DEF DataExact
  <2>3. StoreData'[s][StoreLive[s]] = dbs'[key]
    <3>1. Exists(HomeOf(s))' BY <1>5, <1>11 DEF Exists, HomeOf
    <3> QED BY <1>1, <1>7, <1>11, <2>1, <3>1 DEF DataExact
  <2>4. \A t \in Sites \ {s} : HomeOf(t) # key BY <1>11, <2>1, OwnKeys
  <2>5. ASSUME NEW t \in Sites, NEW b \in Branches, t # s \/ b # StoreLive[s]
        PROVE  StoreData'[t][b] = StoreData[t][b]
    BY <1>9, <2>4, <2>5
  <2> DEFINE grown == [StoreData EXCEPT ![s][StoreLive[s]] = @ \cup {w}]
  <2>6. ASSUME NEW t \in Sites, NEW b \in Branches PROVE StoreData'[t][b] = grown[t][b]
    <3>1. CASE t = s /\ b = StoreLive[s]
      BY <1>3, <2>1, <2>2, <2>3, <3>1, StoreShape
    <3>2. CASE t # s \/ b # StoreLive[s]
      BY <2>1, <2>5, <3>2, StoreShape
    <3> QED BY <3>1, <3>2
  <2>7. \A t \in Sites : StoreData'[t] = grown[t] BY <2>6 DEF StoreData
  <2>8. StoreData' = grown BY <2>7 DEF StoreData
  <2> QED BY <1>4, <1>7, <2>2, <2>8 DEF Store!Write
<1> QED BY <1>10, <1>11

LEMMA StoreInit == SwitchingAlone /\ EverySiteAttached /\ Init => Store!Init
<1> SUFFICES ASSUME SwitchingAlone, EverySiteAttached, Init PROVE Store!Init OBVIOUS
<1>1. LiveExact /\ DataExact BY SwitchInit, LiveKnown, DataKnown DEF SwitchInv
<1>2. \A p \in Procs : pc[p] # "record" BY DEF Init
<1>3. ASSUME NEW s \in Sites PROVE StoreLive[s] = Trunk
  BY <1>1, <1>2, ConstantsAssumption DEF LiveExact, Init, EverySiteAttached
<1>4. StoreLive \in [Sites -> Branches] BY <1>3, StoreShape, ConstantsAssumption
<1>5. ASSUME NEW s \in Sites, NEW b \in Branches
      PROVE  StoreData[s][b] = IF b = StoreLive[s] THEN {} ELSE None
  <2>1. HomeOf(s) \in Keys /\ ShelfOf(s, b) \in Keys BY OwnKeys
  <2>2. dbs[HomeOf(s)] = {} BY <2>1 DEF Init, HomeOf, EverySiteAttached
  <2>3. dbs[ShelfOf(s, b)] = None
    BY <2>1, ConstantsAssumption DEF Init, ShelfOf, Parked, Base
  <2>4. Exists(HomeOf(s))
    BY <2>2, ConstantsAssumption DEF Exists
  <2> QED BY <1>1, <1>3, <2>2, <2>3, <2>4 DEF DataExact
<1>6. StoreData = [s \in Sites |-> [b \in Branches |-> IF b = StoreLive[s] THEN {} ELSE None]]
  BY <1>5, StoreShape
<1> QED BY <1>4, <1>6 DEF Store!Init

(* Every step of the daemon, of the watcher and of the application is a step *)
(* of the store, or none.                                                    *)
LEMMA StoreNext ==
  ASSUME SwitchingAlone, EverySiteAttached, SwitchInv, SwitchInv', Next
  PROVE  Store!Next \/ UNCHANGED <<StoreLive, StoreData>>
<1> USE DEF SwitchInv
<1>1. ASSUME NEW p \in Procs, UNCHANGED <<links, dbs>>, pc[p] # "record", pc'[p] # "record",
             \A q \in Procs \ {p} : pc'[q] = pc[q] /\ job'[q] = job[q]
      PROVE  UNCHANGED <<StoreLive, StoreData>>
  BY <1>1, StoreRests
<1>2. ASSUME NEW p \in Procs, UNCHANGED <<links, dbs>>, pc[p] # "record",
             \/ \E ok : Return(p, ok)
             \/ \E step, locals : step # "record" /\ ContinueWith(p, step, locals)
             \/ \E step : step # "record" /\ Continue(p, step)
      PROVE  UNCHANGED <<StoreLive, StoreData>>
  <2>1. pc'[p] # "record" /\ \A q \in Procs \ {p} : pc'[q] = pc[q] /\ job'[q] = job[q]
    BY <1>2 DEF Return, ContinueWith, Continue, Goto, IInv, TypeOK
  <2> QED BY <1>1, <1>2, <2>1
<1>3. ASSUME NEW p \in Clients, Request(p) \/ Edit(p)
      PROVE  UNCHANGED <<StoreLive, StoreData>>
  <2>1. p \in Procs BY DEF Procs
  <2>2. RequestSwitch(p)
    BY <1>3 DEF Request, RequestAttach, RequestDetach, RequestDropBranch, Edit, LinkSite,
                UnlinkSite, ApplySpec, SwitchingAlone
  <2>3. pc[p] = "idle" /\ (\E locals : ContinueWith(p, "lock", locals)) /\ UNCHANGED <<links, dbs>>
    BY <2>2 DEF RequestSwitch, pg
  <2> QED BY <1>2, <2>1, <2>3
<1>4. ASSUME NEW p \in Procs, Handle(p)
      PROVE  Store!Next \/ UNCHANGED <<StoreLive, StoreData>>
  <2>1. pc[p] \notin AttachSteps \cup DetachSteps \cup DropSteps \cup {"droppark"}
    BY StepNames DEF NothingStale, Resting, SwitchSteps, AttachSteps, DetachSteps, DropSteps
  <2>2. ~(Attach(p) \/ Detach(p) \/ DropBranch(p) \/ SwitchDropsStale(p))
    BY <2>1 DEF Attach, AttachPlans, AttachLooksForBase, AttachCreates, AttachRecords, Detach,
         DetachReads, DetachRecords, DropBranch, DropReads, DropLooks, DropDrops,
         SwitchDropsStale, Check, Rewrite, Runs, AttachSteps, DetachSteps, DropSteps
  <2>3. CASE StatementFails(p)
    BY <1>2, <2>3 DEF StatementFails, PsqlSteps, pg
  <2>4. CASE SwitchLock(p)
    <3>1. /\ pc[p] = "lock" /\ UNCHANGED <<links, dbs>>
          /\ pc'[p] # "record" /\ \A q \in Procs \ {p} : pc'[q] = pc[q] /\ job'[q] = job[q]
      BY <2>4 DEF SwitchLock, Return, Goto, pg, IInv, TypeOK
    <3> QED BY <1>1, <3>1
  <2>5. CASE SwitchPlan(p)
    <3>1. /\ pc[p] = "plan" /\ UNCHANGED <<links, dbs>>
          /\ (\E ok : Return(p, ok)) \/ (\E locals : ContinueWith(p, "base?", locals))
      BY <2>5 DEF SwitchPlan, pg
    <3> QED BY <1>2, <3>1
  <2>6. CASE SwitchChecksBase(p) \/ SwitchKicks(p) \/ SwitchLooksForStale(p) \/ SwitchLooksForParked(p)
    <3>1. /\ pc[p] \in {"base?", "kick", "parked?", "back?"} /\ UNCHANGED <<links, dbs>>
          /\ \E step : step # "record" /\ Continue(p, step)
      BY <2>6 DEF SwitchChecksBase, SwitchKicks, SwitchLooksForStale, SwitchLooksForParked,
                  Check, Runs, pg
    <3> QED BY <1>2, <3>1
  <2>7. CASE SwitchParks(p) BY <2>7, ParkingRests
  <2>8. CASE SwitchSwaps(p) \/ SwitchClones(p) BY <2>8, GoingLive DEF Store!Next
  <2>9. CASE SwitchRecords(p) BY <2>9, RecordingRests
  <2> QED BY <1>4, <2>2, <2>3, <2>4, <2>5, <2>6, <2>7, <2>8, <2>9 DEF Handle, Switch
<1>5. CASE Watch
  <2>1. Watcher \in Procs BY DEF Procs
  <2>2. /\ UNCHANGED <<links, dbs>>
        /\ pc[Watcher] \in {"sleep", "visit"} /\ pc'[Watcher] \in {"sleep", "visit", "lock"}
        /\ \A q \in Procs \ {Watcher} : pc'[q] = pc[q] /\ job'[q] = job[q]
    BY <1>5, <2>1 DEF Watch, WatchPolls, WatchVisits, WatchSleeps, Goto, pg, watch, IInv, TypeOK
  <2> QED BY <1>1, <2>1, <2>2
<1>6. ASSUME NEW key \in Keys, NEW w \in Writes, AppWrites(key, w)
      PROVE  Store!Next \/ UNCHANGED <<StoreLive, StoreData>>
  BY <1>6, WritingWrites DEF Store!Next
<1>7. CASE World /\ ~\E k \in Keys, w \in Writes : AppWrites(k, w)
  <2>1. UNCHANGED <<links, dbs, pc, job>>
    BY <1>7 DEF World, Checkout, AppConnects, AppLeaves, PostgresStops, PostgresStarts, Restart,
                SwitchingAlone, pg, watch
  <2> QED BY <2>1, StoreRests
<1> QED BY <1>3, <1>4, <1>5, <1>6, <1>7 DEF Next, World

(* While switches are all that happens, what they do to the databases, step  *)
(* by step and failing half way, is what BranchStore promises of the store   *)
(* of every attached site: the data of every branch are kept, and a branch   *)
(* visited first starts from those of the branch left.                       *)
THEOREM SwitchingKeepsBranches ==
  ASSUME SwitchingAlone, EverySiteAttached PROVE Spec => KeepsEveryBranch
<1>1. SwitchInv /\ SwitchInv' /\ [Next]_vars => [Store!Next]_Store!storeVars
  <2>1. CASE UNCHANGED vars
    <3>1. StoreLive' = StoreLive BY <2>1 DEF vars, StoreLive
    <3>2. StoreData' = StoreData BY <2>1, <3>1 DEF vars, StoreData, Exists
    <3> QED BY <3>1, <3>2 DEF Store!storeVars
  <2> QED BY <2>1, StoreNext DEF Store!storeVars
<1>2. Init => Store!Init BY StoreInit
<1> QED BY <1>1, <1>2, SwitchInvariance, PTL DEF Spec, KeepsEveryBranch, Store!Spec

-------------------------------------------------------------------------------
(* Wherever a switch stops *)

(* The clients switch branches and nothing else, and no two links share a    *)
(* database. Postgres may go away, saves may fail, the daemon may end.       *)
SwitchingOnly ==
  /\ Requests \subseteq {"switch"}
  /\ \A s, t \in Sites : Attached[s] # None /\ Attached[s] = Attached[t] => s = t

(* A table of links, in memory or saved, in which each link is attached to   *)
(* what it was attached to at the start, on the same server.                 *)
KeptIn(table) ==
  \A s \in Sites : /\ table[s] # None
                   /\ table[s].db = Attached[s] /\ table[s].port = DefaultPort
                   /\ Attached[s] # None => table[s].branch \in Branches

Stages == SwitchSteps \cup Resting \cup {"lock"}

(* A switch in progress works on what the link says; the base is there until *)
(* it is parked and again once it is swapped, what it left is parked from    *)
(* then on.                                                                  *)
Knows(p) ==
  /\ pc[p] \in SwitchSteps =>
       /\ job[p].db = links[job[p].site].db /\ job[p].db # None
       /\ job[p].from = links[job[p].site].branch
       /\ job[p].kept = DefaultPort
  /\ pc[p] \in {"kick", "parked?", "droppark", "park", "record"} => Exists(BaseOf(p))
  /\ pc[p] \in {"back?", "swap", "clone", "record"} => Exists(ParkFrom(p))

Found ==
  \A s \in Sites : Attached[s] # None =>
    Exists(HomeOf(s)) \/ Exists(ShelfOf(s, links[s].branch))

(* Where the saved config differs from the one in memory, what it calls live *)
(* is parked, or has just taken the base's name.                             *)
SavedFound ==
  \A s \in Sites : Attached[s] # None =>
    \/ disk[s].branch = links[s].branch
    \/ Exists(ShelfOf(s, disk[s].branch))
    \/ \E p \in Procs : pc[p] = "record" /\ job[p].site = s /\ job[p].to = disk[s].branch

FindInv ==
  /\ IInv /\ KeptIn(links) /\ KeptIn(disk) /\ OneServer
  /\ \A p \in Procs : pc[p] \in Stages
  /\ \A p \in Procs : Knows(p)
  /\ Found /\ SavedFound

(* The databases of one site are no other site's. *)
LEMMA ApartKeys ==
  ASSUME SwitchingOnly, NEW s \in Sites, Attached[s] # None, NEW b \in Branches
  PROVE  /\ HomeOf(s) \in Keys /\ ShelfOf(s, b) \in Keys /\ HomeOf(s) # ShelfOf(s, b)
         /\ \A c \in Branches : ShelfOf(s, b) = ShelfOf(s, c) => b = c
         /\ \A t \in Sites \ {s}, c \in Branches : Attached[t] # None =>
              {HomeOf(s), ShelfOf(s, b)} \cap {HomeOf(t), ShelfOf(t, c)} = {}
BY ConstantsAssumption DEF SwitchingOnly, HomeOf, ShelfOf, Keys, Base, Parked

(* What a switch works on once it has seen the base: its site's own.         *)
LEMMA FindKeys ==
  ASSUME FindInv, NEW p \in Procs,
         pc[p] \in {"kick", "parked?", "droppark", "park", "back?", "swap", "clone", "record"}
  PROVE  /\ job[p].site \in Sites /\ Attached[job[p].site] # None
         /\ job[p].from \in Branches /\ job[p].to \in Branches /\ job[p].from # job[p].to
         /\ links[job[p].site].branch = job[p].from
         /\ job[p].db = Attached[job[p].site] /\ job[p].kept = DefaultPort
         /\ BaseOf(p) = HomeOf(job[p].site)
         /\ ParkFrom(p) = ShelfOf(job[p].site, job[p].from)
         /\ ParkTo(p) = ShelfOf(job[p].site, job[p].to)
<1>1. job[p] \in Job BY DEF FindInv, IInv, TypeOK
<1>2. /\ job[p].site \in Sites /\ job[p].from \in Branches /\ job[p].to \in Branches
      /\ job[p].from # job[p].to
  BY StepNames DEF FindInv, IInv, LocalsKnown, Fits
<1>3. /\ job[p].db = links[job[p].site].db /\ job[p].db # None
      /\ job[p].from = links[job[p].site].branch /\ job[p].kept = DefaultPort
  BY StepNames DEF FindInv, Knows
<1>4. job[p].db \in Bases /\ job[p].port \in Ports BY <1>1, <1>3 DEF Job
<1>5. job[p].db = Attached[job[p].site] BY <1>2, <1>3 DEF FindInv, KeptIn
<1>6. BaseOf(p) \in Keys /\ ParkFrom(p) \in Keys
  BY <1>2, <1>4 DEF BaseOf, ParkFrom, Keys, Base, Parked
<1>7. job[p].port = DefaultPort
  <2>1. Exists(BaseOf(p)) \/ Exists(ParkFrom(p)) BY DEF FindInv, Knows
  <2> QED BY <1>6, <2>1 DEF FindInv, OneServer, BaseOf, ParkFrom, Base, Parked
<1> QED BY <1>2, <1>3, <1>5, <1>7 DEF BaseOf, ParkFrom, ParkTo, HomeOf, ShelfOf

(* What a process knows lasts while it rests and no database comes or goes.  *)
LEMMA KnowsLasts ==
  ASSUME FindInv, UNCHANGED links, \A k \in Keys : Exists(k)' <=> Exists(k),
         NEW p \in Procs, pc'[p] = pc[p], job'[p] = job[p]
  PROVE  Knows(p)'
<1>1. BaseOf(p)' = BaseOf(p) /\ ParkFrom(p)' = ParkFrom(p) BY DEF BaseOf, ParkFrom
<1>2. CASE pc[p] \in {"kick", "parked?", "droppark", "park", "back?", "swap", "clone", "record"}
  <2>1. /\ job[p].site \in Sites /\ Attached[job[p].site] \in Bases /\ job[p].from \in Branches
        /\ BaseOf(p) = HomeOf(job[p].site) /\ ParkFrom(p) = ShelfOf(job[p].site, job[p].from)
    BY <1>2, FindKeys, ConstantsAssumption
  <2>2. BaseOf(p) \in Keys /\ ParkFrom(p) \in Keys
    BY <2>1, ConstantsAssumption DEF HomeOf, ShelfOf, Keys, Base, Parked
  <2>3. Knows(p) BY DEF FindInv
  <2>4. Exists(BaseOf(p))' <=> Exists(BaseOf(p)) BY <1>1, <2>2 DEF Exists
  <2>5. Exists(ParkFrom(p))' <=> Exists(ParkFrom(p)) BY <1>1, <2>2 DEF Exists
  <2> QED BY <2>3, <2>4, <2>5 DEF Knows
<1>3. CASE pc[p] \notin {"kick", "parked?", "droppark", "park", "back?", "swap", "clone", "record"}
  BY <1>3 DEF FindInv, Knows
<1> QED BY <1>2, <1>3

(* Steps that no database and no link comes or goes by. *)
LEMMA FindRests ==
  ASSUME FindInv, IInv', UNCHANGED <<links, disk>>,
         \A k \in Keys : Exists(k)' <=> Exists(k),
         \A q \in Procs : pc[q] = "record" => pc'[q] = "record" /\ job'[q] = job[q],
         \A q \in Procs : pc'[q] \in Stages,
         \A q \in Procs : Knows(q)'
  PROVE  FindInv'
<1>1. KeptIn(links)' /\ KeptIn(disk)' BY DEF FindInv, KeptIn
<1>2. OneServer' BY DEF FindInv, OneServer
<1>3. ASSUME NEW s \in Sites, Attached[s] # None, NEW b \in Branches
      PROVE  /\ Exists(HomeOf(s))' <=> Exists(HomeOf(s))
             /\ Exists(ShelfOf(s, b))' <=> Exists(ShelfOf(s, b))
  <2>1. HomeOf(s) \in Keys /\ ShelfOf(s, b) \in Keys
    BY <1>3, ConstantsAssumption DEF HomeOf, ShelfOf, Keys, Base, Parked
  <2> QED BY <2>1 DEF Exists, HomeOf, ShelfOf
<1>4. \A s \in Sites : Attached[s] # None => links[s].branch \in Branches /\ disk[s].branch \in Branches
  BY DEF FindInv, KeptIn
<1>5. Found' BY <1>3, <1>4 DEF FindInv, Found
<1>6. SavedFound' BY <1>3, <1>4 DEF FindInv, SavedFound
<1> QED BY <1>1, <1>2, <1>5, <1>6 DEF FindInv

(* A process takes such a step, the others rest. *)
LEMMA FindMoves ==
  ASSUME FindInv, IInv', NEW p \in Procs, UNCHANGED <<links, disk, dbs>>,
         \A q \in Procs \ {p} : pc'[q] = pc[q] /\ job'[q] = job[q],
         pc[p] # "record", pc'[p] \in Stages, Knows(p)'
  PROVE  FindInv'
<1>1. \A k \in Keys : Exists(k)' <=> Exists(k) BY DEF Exists
<1>2. ASSUME NEW q \in Procs PROVE Knows(q)'
  <2>1. CASE q # p BY <1>1, <2>1, KnowsLasts
  <2> QED BY <2>1
<1>3. \A q \in Procs : pc'[q] \in Stages BY DEF FindInv
<1> QED BY <1>1, <1>2, <1>3, FindRests

LEMMA FindReturns ==
  ASSUME FindInv, IInv', NEW p \in Procs, NEW ok, Return(p, ok), pc[p] # "record",
         UNCHANGED <<links, disk, dbs>>
  PROVE  FindInv'
<1>1. pc'[p] \in {"visit", "ok", "err"} BY DEF Return, Goto, FindInv, IInv, TypeOK
<1>2. \A q \in Procs \ {p} : pc'[q] = pc[q] /\ job'[q] = job[q]
  BY DEF Return, Goto, FindInv, IInv, TypeOK
<1>3. pc'[p] \in Stages /\ pc'[p] \notin SwitchSteps BY <1>1, StepNames DEF Stages
<1>4. Knows(p)' BY <1>1, <1>3 DEF Knows
<1> QED BY <1>2, <1>3, <1>4, FindMoves

LEMMA FindGoesOn ==
  ASSUME FindInv, IInv', NEW p \in Procs, NEW step \in Stages, NEW locals,
         ContinueWith(p, step, locals) \/ (locals = job[p] /\ Continue(p, step)),
         pc[p] # "record", UNCHANGED <<links, disk, dbs>>,
         Knows(p)'
  PROVE  FindInv'
<1>1. pc'[p] = step /\ \A q \in Procs \ {p} : pc'[q] = pc[q] /\ job'[q] = job[q]
  BY DEF Continue, ContinueWith, Goto, FindInv, IInv, TypeOK
<1> QED BY <1>1, FindMoves

(* The steps of a switch that no database comes or goes by. *)
LEMMA FindLocks ==
  ASSUME FindInv, IInv', NEW p \in Procs, SwitchLock(p)
  PROVE  FindInv'
<1> DEFINE s == job[p].site
<1>1. pc[p] = "lock" /\ UNCHANGED <<links, disk, dbs>> BY DEF SwitchLock, pg
<1>2. s \in Sites BY <1>1, StepNames DEF FindInv, IInv, LocalsKnown, Fits
<1>3. CASE ~IsAttached(s) BY <1>1, <1>3, FindReturns DEF SwitchLock
<1>4. CASE IsAttached(s)
  <2>1. /\ pc'[p] = "plan"
        /\ job'[p] = [job[p] EXCEPT !.db = links[s].db, !.from = links[s].branch, !.kept = links[s].port]
        /\ \A q \in Procs \ {p} : pc'[q] = pc[q] /\ job'[q] = job[q]
    BY <1>4 DEF SwitchLock, Goto, FindInv, IInv, TypeOK
  <2>2. /\ job'[p].site = s /\ job'[p].db = links[s].db /\ job'[p].from = links[s].branch
        /\ job'[p].kept = links[s].port
    BY <2>1 DEF FindInv, IInv, TypeOK, Job
  <2>3. links[s].db # None /\ links[s].port = DefaultPort
    BY <1>2, <1>4 DEF IsAttached, FindInv, KeptIn
  <2>4. Knows(p)' BY <1>1, <2>1, <2>2, <2>3 DEF Knows
  <2>5. "plan" \in Stages BY StepNames DEF Stages
  <2> QED BY <1>1, <2>1, <2>4, <2>5, FindMoves
<1> QED BY <1>3, <1>4

LEMMA FindPlans ==
  ASSUME FindInv, IInv', NEW p \in Procs, SwitchPlan(p)
  PROVE  FindInv'
<1> DEFINE j == job[p]
           to == IF j.to # None THEN j.to ELSE head[j.site]
           port == IF j.override # None THEN j.override ELSE j.kept
           locals == [j EXCEPT !.to = to, !.port = port]
<1>1. pc[p] = "plan" /\ UNCHANGED <<links, disk, dbs>> BY DEF SwitchPlan, pg
<1>2. (\E ok : Return(p, ok)) \/ ContinueWith(p, "base?", locals) BY DEF SwitchPlan
<1>3. CASE \E ok : Return(p, ok) BY <1>1, <1>3, FindReturns
<1>4. CASE ContinueWith(p, "base?", locals)
  <2>1. pc'[p] = "base?" /\ job'[p] = locals
    BY <1>4 DEF ContinueWith, Goto, FindInv, IInv, TypeOK
  <2>2. locals.site = j.site /\ locals.db = j.db /\ locals.from = j.from /\ locals.kept = j.kept
    BY DEF FindInv, IInv, TypeOK, Job
  <2> HIDE DEF locals
  <2>3. "plan" \in SwitchSteps BY StepNames
  <2>4. Knows(p)' BY <1>1, <2>1, <2>2, <2>3 DEF FindInv, Knows
  <2>5. "base?" \in Stages BY StepNames DEF Stages
  <2> QED BY <1>1, <1>4, <2>4, <2>5, FindGoesOn
<1> QED BY <1>2, <1>3, <1>4

LEMMA FindChecks ==
  ASSUME FindInv, IInv', NEW p \in Procs,
         \/ SwitchChecksBase(p) \/ SwitchKicks(p) \/ SwitchLooksForStale(p)
         \/ SwitchLooksForParked(p)
  PROVE  FindInv'
<1> USE DEF FindInv
<1>0. UNCHANGED <<links, disk, dbs>>
  BY DEF SwitchChecksBase, SwitchKicks, SwitchLooksForStale, SwitchLooksForParked, Check, pg
<1>1. ASSUME NEW step \in {"base?", "kick", "parked?", "back?"}, NEW next \in Stages,
             Runs(p, step), Continue(p, next),
             next \in {"kick", "parked?", "droppark", "park"} => Exists(BaseOf(p)),
             next \in {"back?", "swap", "clone"} => Exists(ParkFrom(p)),
             next # "record"
      PROVE  FindInv'
  <2>1. /\ pc[p] = step /\ pc'[p] = next /\ job' = job
        /\ BaseOf(p)' = BaseOf(p) /\ ParkFrom(p)' = ParkFrom(p)
    BY <1>1 DEF Runs, Continue, Goto, BaseOf, ParkFrom, IInv, TypeOK
  <2>2. pc[p] \in SwitchSteps BY <2>1, StepNames
  <2>3. Knows(p)' BY <1>0, <1>1, <2>1, <2>2 DEF Knows, Exists
  <2> QED BY <1>0, <1>1, <2>1, <2>3, FindGoesOn
<1>2. /\ {"kick", "parked?", "droppark", "park", "swap", "clone"} \subseteq Stages
  BY StepNames DEF Stages
<1>3. CASE SwitchChecksBase(p)
  <2>1. Runs(p, "base?") /\ Continue(p, "kick") BY <1>3 DEF SwitchChecksBase, Check
  <2>2. Exists(BaseOf(p)) BY <2>1 DEF Runs, Accepted
  <2> QED BY <1>1, <1>2, <2>1, <2>2
<1>4. CASE SwitchKicks(p)
  <2>1. Runs(p, "kick") /\ Continue(p, "parked?") BY <1>4 DEF SwitchKicks
  <2>2. Exists(BaseOf(p)) BY <2>1 DEF Runs, Knows
  <2> QED BY <1>1, <1>2, <2>1, <2>2
<1>5. CASE SwitchLooksForStale(p)
  <2> DEFINE next == IF Exists(ParkFrom(p)) THEN "droppark" ELSE "park"
  <2>1. Runs(p, "parked?") /\ Continue(p, next) BY <1>5 DEF SwitchLooksForStale, Check
  <2>2. Exists(BaseOf(p)) BY <2>1 DEF Runs, Knows
  <2>3. next \in {"droppark", "park"} OBVIOUS
  <2> HIDE DEF next
  <2> QED BY <1>1, <1>2, <2>1, <2>2, <2>3
<1>6. CASE SwitchLooksForParked(p)
  <2> DEFINE next == IF Exists(ParkTo(p)) THEN "swap" ELSE "clone"
  <2>1. Runs(p, "back?") /\ Continue(p, next) BY <1>6 DEF SwitchLooksForParked, Check
  <2>2. Exists(ParkFrom(p)) BY <2>1 DEF Runs, Knows
  <2>3. next \in {"swap", "clone"} OBVIOUS
  <2> HIDE DEF next
  <2> QED BY <1>1, <1>2, <2>1, <2>2, <2>3
<1> QED BY <1>3, <1>4, <1>5, <1>6

(* A statement of a switch that changes databases: those of its own site,    *)
(* of which the live branch's stay, and every other branch's, but for the    *)
(* one that takes the base's name.                                           *)
LEMMA FindRewrites ==
  ASSUME SwitchingOnly, FindInv, IInv', NEW p \in Procs,
         NEW step \in {"droppark", "park", "swap", "clone"},
         NEW next \in {"park", "back?", "record"}, NEW databases,
         Rewrite(p, step, databases, next),
         \A k \in Keys \ {BaseOf(p), ParkFrom(p), ParkTo(p)} : databases[k] = dbs[k],
         databases[BaseOf(p)] # None \/ databases[ParkFrom(p)] # None,
         Exists(ParkTo(p)) => databases[ParkTo(p)] # None \/ next = "record",
         next \in {"park", "record"} => databases[BaseOf(p)] # None,
         next \in {"back?", "record"} => databases[ParkFrom(p)] # None
  PROVE  FindInv'
<1> USE DEF FindInv
<1>1. /\ pc[p] = step /\ dbs' = databases /\ job' = job
      /\ pc' = [pc EXCEPT ![p] = next] /\ UNCHANGED <<links, disk>>
  BY DEF Rewrite, Runs, Continue, Goto
<1>2. pc'[p] = next /\ \A q \in Procs \ {p} : pc'[q] = pc[q] BY <1>1 DEF IInv, TypeOK
<1>3. PICK s \in Sites :
        /\ s = job[p].site /\ Attached[s] # None
        /\ job[p].from \in Branches /\ job[p].to \in Branches
        /\ links[s].branch = job[p].from
        /\ BaseOf(p) = HomeOf(s)
        /\ ParkFrom(p) = ShelfOf(s, job[p].from) /\ ParkTo(p) = ShelfOf(s, job[p].to)
  BY <1>1, FindKeys
<1>4. KeptIn(links)' /\ KeptIn(disk)' BY <1>1 DEF KeptIn
<1>5. OneServer'
  <2>1. \A k \in {BaseOf(p), ParkFrom(p), ParkTo(p)} : k[1] = DefaultPort
    BY <1>3 DEF HomeOf, ShelfOf, Base, Parked
  <2> QED BY <1>1, <2>1 DEF OneServer, Exists
<1>6. \A q \in Procs : pc'[q] \in Stages BY <1>2, StepNames DEF Stages
<1>7. ASSUME NEW q \in Procs PROVE Knows(q)'
  <2>1. CASE q # p
    <3>1. pc'[q] \notin SwitchSteps BY <1>1, <1>2, <2>1, OneSwitch, StepNames
    <3> QED BY <3>1, StepNames DEF Knows
  <2>2. CASE q = p
    <3>1. BaseOf(p)' = BaseOf(p) /\ ParkFrom(p)' = ParkFrom(p) BY <1>1 DEF BaseOf, ParkFrom
    <3>2. pc[p] \in SwitchSteps BY <1>1, StepNames
    <3> QED BY <1>1, <1>2, <2>2, <3>1, <3>2 DEF Knows, Exists
  <2> QED BY <2>1, <2>2
<1>8. ASSUME NEW t \in Sites, t # s, Attached[t] # None, NEW b \in Branches
      PROVE  /\ Exists(HomeOf(t))' <=> Exists(HomeOf(t))
             /\ Exists(ShelfOf(t, b))' <=> Exists(ShelfOf(t, b))
  <2>1. HomeOf(t) \in Keys /\ ShelfOf(t, b) \in Keys BY <1>8, ApartKeys
  <2>2. {HomeOf(t), ShelfOf(t, b)} \cap {BaseOf(p), ParkFrom(p), ParkTo(p)} = {}
    BY <1>3, <1>8, ApartKeys
  <2>3. databases[HomeOf(t)] = dbs[HomeOf(t)] /\ databases[ShelfOf(t, b)] = dbs[ShelfOf(t, b)]
    BY <2>1, <2>2
  <2> QED BY <1>1, <2>3 DEF Exists, HomeOf, ShelfOf
<1>9. Found'
  <2> SUFFICES ASSUME NEW t \in Sites, Attached[t] # None
               PROVE  Exists(HomeOf(t))' \/ Exists(ShelfOf(t, links[t].branch))'
    BY DEF Found
  <2>1. links[t].branch \in Branches BY DEF KeptIn
  <2>2. CASE t = s
    BY <1>1, <1>3, <2>2 DEF Exists, HomeOf, ShelfOf
  <2>3. CASE t # s BY <1>1, <1>8, <2>1, <2>3 DEF Found, ShelfOf
  <2> QED BY <2>2, <2>3
<1>10. SavedFound'
  <2> SUFFICES ASSUME NEW t \in Sites, Attached[t] # None, disk[t].branch # links[t].branch
               PROVE  \/ Exists(ShelfOf(t, disk[t].branch))'
                      \/ \E q \in Procs : pc'[q] = "record" /\ job'[q].site = t
                                          /\ job'[q].to = disk[t].branch
    BY <1>1 DEF SavedFound
  <2>1. disk[t].branch \in Branches BY DEF KeptIn
  <2>2. \A q \in Procs : pc[q] # "record" BY <1>1, OneSwitch, StepNames
  <2>3. Exists(ShelfOf(t, disk[t].branch)) BY <2>2 DEF SavedFound
  <2>4. CASE t # s BY <1>1, <1>8, <2>1, <2>3, <2>4 DEF ShelfOf
  <2>5. CASE t = s /\ disk[t].branch = job[p].to
    BY <1>1, <1>2, <1>3, <2>3, <2>5 DEF Exists, ShelfOf
  <2>6. CASE t = s /\ disk[t].branch # job[p].to
    <3>1. ShelfOf(s, disk[s].branch) \in Keys \ {BaseOf(p), ParkFrom(p), ParkTo(p)}
      BY <1>3, <2>1, <2>6, ApartKeys
    <3> QED BY <1>1, <2>3, <2>6, <3>1 DEF Exists, ShelfOf
  <2> QED BY <2>4, <2>5, <2>6
<1> QED BY <1>4, <1>5, <1>6, <1>7, <1>9, <1>10

LEMMA FindSwitches ==
  ASSUME SwitchingOnly, FindInv, IInv', NEW p \in Procs,
         SwitchDropsStale(p) \/ SwitchParks(p) \/ SwitchSwaps(p) \/ SwitchClones(p)
  PROVE  FindInv'
<1> USE DEF FindInv
<1>0. pc[p] \in {"droppark", "park", "swap", "clone"} /\ Accepted(p) /\ Knows(p)
  BY DEF SwitchDropsStale, SwitchParks, SwitchSwaps, SwitchClones, Rewrite, Runs
<1>1. /\ BaseOf(p) \in Keys /\ ParkFrom(p) \in Keys /\ ParkTo(p) \in Keys
      /\ BaseOf(p) # ParkFrom(p) /\ BaseOf(p) # ParkTo(p) /\ ParkFrom(p) # ParkTo(p)
  <2>1. PICK s \in Sites :
          /\ Attached[s] # None /\ job[p].from \in Branches /\ job[p].to \in Branches
          /\ job[p].from # job[p].to
          /\ BaseOf(p) = HomeOf(s)
          /\ ParkFrom(p) = ShelfOf(s, job[p].from) /\ ParkTo(p) = ShelfOf(s, job[p].to)
    BY <1>0, FindKeys
  <2> QED BY <2>1, ApartKeys
<1>2. dbs \in [Keys -> Contents] BY DEF IInv, TypeOK
<1>3. CASE SwitchDropsStale(p)
  <2> DEFINE databases == Dropped(ParkFrom(p))
  <2>1. pc[p] = "droppark" /\ Rewrite(p, "droppark", databases, "park")
    BY <1>3 DEF SwitchDropsStale, Rewrite, Runs
  <2>2. Exists(BaseOf(p)) BY <1>0, <2>1 DEF Knows
  <2>3. \A k \in Keys \ {ParkFrom(p)} : databases[k] = dbs[k] BY <1>2 DEF Dropped
  <2> HIDE DEF databases
  <2>4. databases[BaseOf(p)] # None /\ (Exists(ParkTo(p)) => databases[ParkTo(p)] # None)
    BY <1>1, <2>2, <2>3 DEF Exists
  <2> QED BY <2>1, <2>3, <2>4, FindRewrites
<1>4. CASE SwitchParks(p)
  <2> DEFINE databases == Renamed(BaseOf(p), ParkFrom(p))
  <2>1. pc[p] = "park" /\ Rewrite(p, "park", databases, "back?")
    BY <1>4 DEF SwitchParks, Rewrite, Runs
  <2>2. Exists(BaseOf(p)) BY <1>0, <2>1 DEF Knows
  <2>3. /\ databases[ParkFrom(p)] = dbs[BaseOf(p)]
        /\ \A k \in Keys \ {BaseOf(p), ParkFrom(p)} : databases[k] = dbs[k]
    BY <1>1, <1>2 DEF Renamed
  <2> HIDE DEF databases
  <2>4. databases[ParkFrom(p)] # None /\ (Exists(ParkTo(p)) => databases[ParkTo(p)] # None)
    BY <1>1, <2>2, <2>3 DEF Exists
  <2> QED BY <2>1, <2>3, <2>4, FindRewrites
<1>5. CASE SwitchSwaps(p)
  <2> DEFINE databases == Renamed(ParkTo(p), BaseOf(p))
  <2>1. pc[p] = "swap" /\ Rewrite(p, "swap", databases, "record")
    BY <1>5 DEF SwitchSwaps, Rewrite, Runs
  <2>2. Exists(ParkTo(p)) /\ Exists(ParkFrom(p)) BY <1>0, <2>1 DEF Accepted, Knows
  <2>3. /\ databases[BaseOf(p)] = dbs[ParkTo(p)]
        /\ \A k \in Keys \ {BaseOf(p), ParkTo(p)} : databases[k] = dbs[k]
    BY <1>1, <1>2 DEF Renamed
  <2> HIDE DEF databases
  <2>4. databases[BaseOf(p)] # None /\ databases[ParkFrom(p)] # None
    BY <1>1, <2>2, <2>3 DEF Exists
  <2> QED BY <2>1, <2>3, <2>4, FindRewrites
<1>6. CASE SwitchClones(p)
  <2> DEFINE databases == [dbs EXCEPT ![BaseOf(p)] = dbs[ParkFrom(p)]]
  <2>1. pc[p] = "clone" /\ Rewrite(p, "clone", databases, "record")
    BY <1>6 DEF SwitchClones, Rewrite, Runs
  <2>2. Exists(ParkFrom(p)) BY <1>0, <2>1 DEF Knows
  <2>3. /\ databases[BaseOf(p)] = dbs[ParkFrom(p)]
        /\ \A k \in Keys \ {BaseOf(p)} : databases[k] = dbs[k]
    BY <1>1, <1>2
  <2> HIDE DEF databases
  <2>4. databases[BaseOf(p)] # None /\ databases[ParkFrom(p)] # None
    BY <1>1, <2>2, <2>3 DEF Exists
  <2> QED BY <2>1, <2>3, <2>4, FindRewrites
<1> QED BY <1>3, <1>4, <1>5, <1>6

(* The record, saved or not: the base is there, and what the saved config    *)
(* still calls live has been parked.                                         *)
LEMMA FindRecords ==
  ASSUME SwitchingOnly, FindInv, IInv', NEW p \in Procs, SwitchRecords(p)
  PROVE  FindInv'
<1> USE DEF FindInv
<1> DEFINE s == job[p].site
           link == [db |-> job[p].db, branch |-> job[p].to, port |-> job[p].kept]
<1>1. pc[p] = "record" /\ Record(p, link) /\ UNCHANGED dbs BY DEF SwitchRecords, pg
<1>2. /\ s \in Sites /\ Attached[s] # None /\ job[p].db = Attached[s]
      /\ job[p].from \in Branches /\ job[p].to \in Branches
      /\ links[s].branch = job[p].from /\ job[p].kept = DefaultPort
      /\ BaseOf(p) = HomeOf(s) /\ ParkFrom(p) = ShelfOf(s, job[p].from)
  BY <1>1, FindKeys
<1>3. Exists(HomeOf(s)) /\ Exists(ShelfOf(s, job[p].from)) BY <1>1, <1>2 DEF Knows
<1>4. /\ links' = [links EXCEPT ![s] = link] /\ (disk' = links' \/ disk' = disk)
      /\ \E ok : Return(p, ok)
  <2>1. links[s] # None BY <1>2 DEF KeptIn
  <2> QED BY <1>1, <2>1 DEF Record, SetLink, SaveFails, Edited
<1>5. links'[s] = link /\ \A t \in Sites \ {s} : links'[t] = links[t]
  BY <1>2, <1>4 DEF IInv, TypeOK
<1>6. KeptIn(links)' /\ KeptIn(disk)'
  <2>1. link # None BY <1>2, ConstantsAssumption DEF Link
  <2>2. KeptIn(links') BY <1>2, <1>5, <2>1 DEF KeptIn
  <2> QED BY <1>4, <2>2 DEF KeptIn
<1>7. OneServer' BY <1>1 DEF OneServer, Exists
<1>8. pc'[p] \in {"visit", "ok", "err"} /\ \A q \in Procs \ {p} : pc'[q] = pc[q]
  BY <1>4 DEF Return, Goto, IInv, TypeOK
<1>9. \A q \in Procs : pc'[q] \in Stages BY <1>8, StepNames DEF Stages
<1>10. \A q \in Procs : pc'[q] \notin SwitchSteps BY <1>1, <1>8, OneSwitch, StepNames
<1>11. \A q \in Procs : Knows(q)' BY <1>10, StepNames DEF Knows
<1>12. Found'
  <2> SUFFICES ASSUME NEW t \in Sites, Attached[t] # None
               PROVE  Exists(HomeOf(t))' \/ Exists(ShelfOf(t, links[t].branch))'
    BY DEF Found
  <2>1. CASE t = s BY <1>1, <1>3, <2>1 DEF Exists, HomeOf
  <2>2. CASE t # s BY <1>1, <1>5, <2>2 DEF Found, Exists, HomeOf, ShelfOf
  <2> QED BY <2>1, <2>2
<1>13. SavedFound'
  <2> SUFFICES ASSUME NEW t \in Sites, Attached[t] # None, disk' = disk,
                      disk[t].branch # links'[t].branch
               PROVE  Exists(ShelfOf(t, disk[t].branch))'
    BY <1>4 DEF SavedFound, ShelfOf, Exists
  <2>1. CASE t = s
    <3>1. disk[t].branch # job[p].to BY <1>5, <2>1
    <3>2. CASE disk[t].branch = job[p].from
      BY <1>1, <1>3, <2>1, <3>2 DEF Exists, ShelfOf
    <3>3. CASE disk[t].branch # job[p].from
      <4>1. \A q \in Procs : pc[q] = "record" => q = p BY <1>1, OneSwitch, StepNames
      <4> QED BY <1>1, <1>2, <2>1, <3>1, <3>3, <4>1 DEF SavedFound, Exists, ShelfOf
    <3> QED BY <3>2, <3>3
  <2>2. CASE t # s
    <3>1. \A q \in Procs : pc[q] = "record" => q = p BY <1>1, OneSwitch, StepNames
    <3> QED BY <1>1, <1>5, <2>2, <3>1 DEF SavedFound, Exists, ShelfOf
  <2> QED BY <2>1, <2>2
<1> QED BY <1>6, <1>7, <1>9, <1>11, <1>12, <1>13

(* The daemon ends, wherever its handlers are, and reads the config back.    *)
LEMMA FindSurvives == ASSUME SwitchingOnly, FindInv, IInv', Restart PROVE FindInv'
<1> USE DEF FindInv
<1>1. links' = disk /\ UNCHANGED <<disk, dbs>> BY DEF Restart, pg
<1>2. KeptIn(links)' /\ KeptIn(disk)' /\ OneServer' BY <1>1 DEF KeptIn, OneServer, Exists
<1>3. \A q \in Procs : pc'[q] \in Resting BY DEF Restart, Resting, IInv, TypeOK
<1>4. \A q \in Procs : pc'[q] \in Stages /\ Knows(q)' BY <1>3, StepNames DEF Stages, Knows
<1>5. SavedFound' BY <1>1 DEF SavedFound
<1>6. Found'
  <2> SUFFICES ASSUME NEW t \in Sites, Attached[t] # None
               PROVE  Exists(HomeOf(t)) \/ Exists(ShelfOf(t, disk[t].branch))
    BY <1>1 DEF Found, Exists, HomeOf, ShelfOf
  <2>1. CASE \E p \in Procs : pc[p] = "record" /\ job[p].site = t
    <3>1. PICK p \in Procs : pc[p] = "record" /\ job[p].site = t BY <2>1
    <3>2. Exists(BaseOf(p)) /\ BaseOf(p) = HomeOf(t) BY <3>1, FindKeys DEF Knows
    <3> QED BY <3>2
  <2>2. CASE ~\E p \in Procs : pc[p] = "record" /\ job[p].site = t
    BY <2>2 DEF Found, SavedFound
  <2> QED BY <2>1, <2>2
<1> QED BY <1>2, <1>4, <1>5, <1>6

LEMMA FindKeeps ==
  ASSUME SwitchingOnly, FindInv, IInv', Next
  PROVE  FindInv'
<1> USE DEF FindInv
<1>1. ASSUME NEW p \in Clients, Request(p) \/ Edit(p) PROVE FindInv'
  <2>1. p \in Procs BY DEF Procs
  <2>2. RequestSwitch(p)
    BY <1>1 DEF Request, RequestAttach, RequestDetach, RequestDropBranch, Edit, LinkSite,
                UnlinkSite, ApplySpec, SwitchingOnly
  <2>3. pc[p] = "idle" /\ (\E locals : ContinueWith(p, "lock", locals))
        /\ UNCHANGED <<links, disk, dbs>>
    BY <2>2 DEF RequestSwitch, pg
  <2>4. pc'[p] = "lock" BY <2>1, <2>3 DEF ContinueWith, Goto, IInv, TypeOK
  <2>5. Knows(p)' BY <2>4, StepNames DEF Knows
  <2>6. "lock" \in Stages BY DEF Stages
  <2> QED BY <2>1, <2>3, <2>5, <2>6, FindGoesOn
<1>2. ASSUME NEW p \in Procs, Handle(p) PROVE FindInv'
  <2>1. pc[p] \notin AttachSteps \cup DetachSteps \cup DropSteps
    BY StepNames DEF Stages, Resting, SwitchSteps, AttachSteps, DetachSteps, DropSteps
  <2>2. ~(Attach(p) \/ Detach(p) \/ DropBranch(p))
    BY <2>1 DEF Attach, AttachPlans, AttachLooksForBase, AttachCreates, AttachRecords, Detach,
         DetachReads, DetachRecords, DropBranch, DropReads, DropLooks, DropDrops,
         Check, Rewrite, Runs, AttachSteps, DetachSteps, DropSteps
  <2>3. CASE StatementFails(p)
    BY <2>3, FindReturns DEF StatementFails, PsqlSteps, pg
  <2> QED
    BY <1>2, <2>2, <2>3, FindLocks, FindPlans, FindChecks, FindSwitches, FindRecords
       DEF Handle, Switch
<1>3. CASE Watch
  <2>1. Watcher \in Procs BY DEF Procs
  <2>2. /\ UNCHANGED <<links, disk, dbs>>
        /\ pc[Watcher] \in {"sleep", "visit"} /\ pc'[Watcher] \in {"sleep", "visit", "lock"}
        /\ \A q \in Procs \ {Watcher} : pc'[q] = pc[q] /\ job'[q] = job[q]
    BY <1>3, <2>1 DEF Watch, WatchPolls, WatchVisits, WatchSleeps, Goto, pg, watch, IInv, TypeOK
  <2>3. Knows(Watcher)' BY <2>2 DEF Knows, SwitchSteps
  <2>4. pc'[Watcher] \in Stages BY <2>2 DEF Stages, Resting
  <2> QED BY <2>1, <2>2, <2>3, <2>4, FindMoves
<1>4. CASE World /\ ~Restart
  <2>1. UNCHANGED <<links, disk, pc, job>>
    BY <1>4 DEF World, Checkout, AppConnects, AppLeaves, AppWrites, PostgresStops, PostgresStarts,
                pg, watch
  <2>2. \A k \in Keys : Exists(k)' <=> Exists(k)
    <3>1. ASSUME NEW key \in Keys, NEW w \in Writes, AppWrites(key, w)
          PROVE  \A k \in Keys : Exists(k)' <=> Exists(k)
      <4>1. dbs[key] \cup {w} # None
        BY <3>1, ConstantsAssumption DEF AppWrites, Exists, IInv, TypeOK, Contents
      <4> QED BY <3>1, <4>1 DEF AppWrites, Exists, IInv, TypeOK
    <3>2. CASE UNCHANGED dbs BY <3>2 DEF Exists
    <3> QED BY <1>4, <3>1, <3>2
            DEF World, Checkout, AppConnects, AppLeaves, PostgresStops, PostgresStarts, pg
  <2>3. \A q \in Procs : Knows(q)' BY <2>1, <2>2, KnowsLasts
  <2> QED BY <2>1, <2>2, <2>3, FindRests
<1> QED BY <1>1, <1>2, <1>3, <1>4, FindSurvives DEF Next

LEMMA FindInit == SwitchingOnly /\ Init => FindInv
<1> SUFFICES ASSUME SwitchingOnly, Init PROVE FindInv OBVIOUS
<1>1. IInv BY InitKeeps
<1>2. \A p \in Procs : pc[p] \in Resting BY StepNames DEF Init
<1>3. \A p \in Procs : pc[p] \in Stages /\ Knows(p) BY <1>2, StepNames DEF Stages, Knows
<1>4. \A s \in Sites : links[s] \in Link BY ConstantsAssumption DEF Init, Link
<1>5. KeptIn(links) BY <1>4, ConstantsAssumption DEF Init, KeptIn
<1>6. KeptIn(disk) /\ SavedFound BY <1>5 DEF Init, SavedFound
<1>7. OneServer BY DEF Init, OneServer, Exists, Base
<1>8. Found
  <2> SUFFICES ASSUME NEW s \in Sites, Attached[s] # None PROVE Exists(HomeOf(s)) BY DEF Found
  <2>1. HomeOf(s) \in Keys BY ConstantsAssumption DEF HomeOf, Keys, Base
  <2>2. dbs[HomeOf(s)] = {} BY <2>1 DEF Init, HomeOf
  <2>3. {} # None BY ConstantsAssumption
  <2> QED BY <2>2, <2>3 DEF Exists
<1> QED BY <1>1, <1>3, <1>5, <1>6, <1>7, <1>8 DEF FindInv

(* Wherever a switch stops, at a statement Postgres refuses or is not there  *)
(* for, at a save that fails, at the end of the daemon, the live data of an  *)
(* attached site are in its base, or parked under the branch the config says *)
(* is live. However many sites, branches, servers and clients there are.     *)
THEOREM LiveDataFound == ASSUME SwitchingOnly PROVE Spec => []LiveDataFindable
<1>1. FindInv => LiveDataFindable
  BY DEF FindInv, LiveDataFindable, Found, KeptIn, IsAttached, HomeOf, ShelfOf
<1>2. FindInv /\ IInv' /\ [Next]_vars => FindInv'
  <2>1. CASE UNCHANGED vars
    BY <2>1 DEF vars, FindInv, KeptIn, OneServer, Knows, Found, SavedFound, HomeOf, ShelfOf,
       BaseOf, ParkFrom, Exists
  <2> QED BY <2>1, FindKeeps
<1>3. Init => FindInv BY FindInit
<1> QED BY <1>1, <1>2, <1>3, Invariance, PTL DEF Spec
==============================================================================
