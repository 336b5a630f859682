----------------------------- MODULE StartupProofs -----------------------------
(***************************************************************************)
(* Daemons that start one after the other never serve side by side and     *)
(* never kill one another's pools, however many there are and whatever     *)
(* crashes and stops come in between. Daemons that start at the same       *)
(* moment never serve side by side while none of them stops.               *)
(***************************************************************************)
EXTENDS Startup, TLAPS

(* A starting daemon that has found out that nobody serves. *)
Cleared(d) ==
  \/ pc[d] \in {"http", "kill", "start", "check", "unlink", "bind"}
  \/ pc[d] \in {"probing", "checking"} /\ target[d] = Gone

(* A starting daemon that still waits to hear from another. *)
Asking(d) == pc[d] \in {"probing", "checking"} /\ target[d] # Gone

(* Only one daemon is starting, *)
OneStarter == \A d, e \in Daemons : pc[d] \in StartSteps /\ pc[e] \in StartSteps => d = e

(* the file leads to the one that listens, *)
FileLeadsToListener == \A d \in Daemons : Listening(d) => sock = d

(* and whoever starts knows of it, or that there is none. *)
StarterKnows ==
  \A d, e \in Daemons : Listening(e) => ~Cleared(d) /\ (Asking(d) => target[d] = e)

IInv == TypeOK /\ OneStarter /\ FileLeadsToListener /\ StarterKnows

-------------------------------------------------------------------------------
(* A process that ends leaves what the others know intact. *)
LEMMA EndsKeeps ==
  ASSUME IInv, NEW d \in Daemons, pc[d] # "off", Ends(d), sock' = sock,
         pools' \subseteq Daemons, crashes' \in 0..MaxCrashes
  PROVE  IInv'
<1> USE DEF IInv
<1>1. pc' = [pc EXCEPT ![d] = "off"] BY DEF Ends, Goto
<1>2. \A e \in Daemons : /\ e # d => pc'[e] = pc[e]
                         /\ pc'[d] = "off"
  BY <1>1 DEF TypeOK
<1>3. \A e \in Daemons :
        target'[e] = IF e = d THEN None ELSE IF target[e] = d THEN Gone ELSE target[e]
  BY DEF Ends
<1>4. TypeOK'
  <2>1. pc' \in [Daemons -> {"off", "serving", "closing", "ending"} \cup StartSteps]
    BY <1>1 DEF TypeOK
  <2>2. target' \in [Daemons -> Daemons \cup {None, Gone}] BY DEF Ends, TypeOK
  <2>3. \A e \in Daemons : target'[e] # None <=> pc'[e] \in {"probing", "checking"}
    BY <1>2, <1>3, StartupAssumption DEF TypeOK
  <2> QED BY <2>1, <2>2, <2>3 DEF TypeOK
<1>5. OneStarter' BY <1>2 DEF OneStarter, StartSteps
<1>6. FileLeadsToListener' BY <1>2 DEF FileLeadsToListener, Listening
<1>7. StarterKnows'
  <2> SUFFICES ASSUME NEW e \in Daemons, NEW f \in Daemons, Listening(f)'
               PROVE  ~Cleared(e)' /\ (Asking(e)' => target'[e] = f)
    BY DEF StarterKnows
  <2>1. f # d /\ Listening(f) BY <1>2 DEF Listening
  <2>2. CASE e = d BY <2>2, <1>2 DEF Cleared, Asking
  <2>3. CASE e # d
    <3>1. ~Cleared(e) /\ (Asking(e) => target[e] = f) BY <2>1 DEF StarterKnows
    <3> QED BY <3>1, <2>1, <2>3, <1>2, <1>3, StartupAssumption DEF Cleared, Asking
  <2> QED BY <2>2, <2>3
<1> QED BY <1>4, <1>5, <1>6, <1>7

(* A step of a starting daemon that changes its place alone. *)
LEMMA StartingKeeps ==
  ASSUME IInv, NEW d \in Daemons, pc[d] \in StartSteps,
         NEW step \in {"http", "kill", "start", "check", "unlink", "bind"}, Goto(d, step),
         target' = [target EXCEPT ![d] = None], sock' \in {sock, None},
         pools' \subseteq Daemons, crashes' = crashes,
         \A e \in Daemons : ~Listening(e)
  PROVE  IInv'
<1> USE DEF IInv
<1>1. \A e \in Daemons : /\ e # d => pc'[e] = pc[e] /\ target'[e] = target[e]
                         /\ pc'[d] = step /\ target'[d] = None
  BY DEF Goto, TypeOK
<1>2. \A e \in Daemons : ~Listening(e)' BY <1>1 DEF Listening
<1>3. TypeOK'
  <2>1. pc' \in [Daemons -> {"off", "serving", "closing", "ending"} \cup StartSteps]
    BY DEF Goto, TypeOK, StartSteps
  <2>2. target' \in [Daemons -> Daemons \cup {None, Gone}] BY DEF TypeOK
  <2>3. \A e \in Daemons : target'[e] # None <=> pc'[e] \in {"probing", "checking"}
    BY <1>1 DEF TypeOK
  <2>4. sock' \in Daemons \cup {None} BY DEF TypeOK
  <2> QED BY <2>1, <2>2, <2>3, <2>4 DEF TypeOK
<1>4. OneStarter' BY <1>1 DEF OneStarter, StartSteps
<1> QED BY <1>2, <1>3, <1>4 DEF FileLeadsToListener, StarterKnows

(* Connecting finds the listener if there is one. *)
LEMMA ConnectKeeps ==
  ASSUME IInv, NEW d \in Daemons, pc[d] \in {"probe", "check"},
         NEW waiting \in {"probing", "checking"}, NEW absent \in {"http", "bind"},
         Connect(d, waiting, absent)
  PROVE  IInv'
<1> USE DEF IInv
<1>1. CASE sock = None
  <2>1. \A e \in Daemons : ~Listening(e) BY <1>1, StartupAssumption DEF FileLeadsToListener
  <2>2. target[d] = None BY DEF TypeOK
  <2>3. target' = [target EXCEPT ![d] = None] BY <1>1, <2>2 DEF Connect, TypeOK
  <2> QED BY <1>1, <2>1, <2>3, StartingKeeps DEF Connect, TypeOK, StartSteps
<1>2. CASE sock # None
  <2> DEFINE reached == IF Listening(sock) THEN sock ELSE Gone
  <2>1. reached \in Daemons \cup {Gone} BY <1>2 DEF TypeOK
  <2>2. pc' = [pc EXCEPT ![d] = waiting] /\ target' = [target EXCEPT ![d] = reached]
    BY <1>2 DEF Connect, Goto
  <2>3. \A e \in Daemons : Listening(e) => reached = e /\ e # d
    BY DEF FileLeadsToListener, Listening
  <2> HIDE DEF reached
  <2>4. \A e \in Daemons : /\ e # d => pc'[e] = pc[e] /\ target'[e] = target[e]
                           /\ pc'[d] = waiting /\ target'[d] = reached
    BY <2>2 DEF TypeOK
  <2>5. UNCHANGED <<sock, pools, crashes>> BY DEF Connect
  <2>6. TypeOK'
    <3>1. pc' \in [Daemons -> {"off", "serving", "closing", "ending"} \cup StartSteps]
      BY <2>2 DEF TypeOK, StartSteps
    <3>2. target' \in [Daemons -> Daemons \cup {None, Gone}] BY <2>1, <2>2 DEF TypeOK
    <3>3. \A e \in Daemons : target'[e] # None <=> pc'[e] \in {"probing", "checking"}
      BY <2>1, <2>4, StartupAssumption DEF TypeOK
    <3> QED BY <2>5, <3>1, <3>2, <3>3 DEF TypeOK
  <2>7. OneStarter' BY <2>4 DEF OneStarter, StartSteps
  <2>8. FileLeadsToListener' BY <2>4, <2>5 DEF FileLeadsToListener, Listening
  <2>9. StarterKnows'
    <3> SUFFICES ASSUME NEW e \in Daemons, NEW f \in Daemons, Listening(f)'
                 PROVE  ~Cleared(e)' /\ (Asking(e)' => target'[e] = f)
      BY DEF StarterKnows
    <3>1. Listening(f) /\ reached = f BY <2>3, <2>4 DEF Listening
    <3>2. CASE e = d BY <3>1, <3>2, <2>4, StartupAssumption DEF Cleared, Asking
    <3>3. CASE e # d BY <3>1, <3>3, <2>4 DEF StarterKnows, Cleared, Asking
    <3> QED BY <3>2, <3>3
  <2> QED BY <2>6, <2>7, <2>8, <2>9
<1> QED BY <1>1, <1>2

(* An answer sends the daemon away, a refusal clears it. *)
LEMMA ProceedKeeps ==
  ASSUME IInv, NEW d \in Daemons, NEW step \in {"probing", "checking"},
         NEW next \in {"http", "unlink"}, Proceed(d, step, next)
  PROVE  IInv'
<1> USE DEF IInv
<1>1. pc[d] = step BY DEF Proceed
<1>2. CASE Bail(d)
  BY <1>1, <1>2, EndsKeeps DEF Bail, TypeOK
<1>3. CASE Refused(d) /\ Goto(d, next) /\ target' = [target EXCEPT ![d] = None]
           /\ UNCHANGED <<sock, pools, crashes>>
  <2>1. \A e \in Daemons : ~Listening(e)
    BY <1>1, <1>3 DEF Refused, Cleared, Asking, StarterKnows, Listening
  <2> QED BY <1>1, <1>3, <2>1, StartingKeeps DEF TypeOK, StartSteps
<1> QED BY <1>2, <1>3 DEF Proceed


(* The steps of a daemon on its way up. *)
LEMMA RunKeeps ==
  ASSUME IInv, NEW d \in Daemons, Run(d)
  PROVE  IInv'
<1> USE DEF IInv
<1>1. CASE Probe(d) BY <1>1, ConnectKeeps, ProceedKeeps DEF Probe
<1>2. CASE BindHttp(d)
  <2>1. pc[d] = "http" /\ target[d] = None BY <1>2 DEF BindHttp, TypeOK
  <2>2. \A e \in Daemons : ~Listening(e) BY <2>1 DEF Cleared, StarterKnows
  <2>3. CASE Bail(d) BY <2>1, <2>3, EndsKeeps DEF Bail, TypeOK
  <2>4. CASE Goto(d, "kill") /\ UNCHANGED <<sock, target, pools, crashes>>
    <3>1. target' = [target EXCEPT ![d] = None] BY <2>1, <2>4 DEF TypeOK
    <3> QED BY <2>1, <2>2, <2>4, <3>1, StartingKeeps DEF TypeOK, StartSteps
  <2> QED BY <1>2, <2>3, <2>4 DEF BindHttp
<1>3. CASE KillOrphans(d) \/ StartBackends(d) \/ Unlink(d)
  <2>1. pc[d] \in {"kill", "start", "unlink"} /\ target[d] = None
    BY <1>3 DEF KillOrphans, StartBackends, Unlink, TypeOK
  <2>2. \A e \in Daemons : ~Listening(e) BY <2>1 DEF Cleared, StarterKnows
  <2>3. target' = [target EXCEPT ![d] = None]
    BY <1>3, <2>1 DEF KillOrphans, StartBackends, Unlink, TypeOK
  <2>4. PICK step \in {"start", "check", "bind"} : Goto(d, step)
    BY <1>3 DEF KillOrphans, StartBackends, Unlink
  <2>5. sock' \in {sock, None} /\ pools' \subseteq Daemons /\ crashes' = crashes
    BY <1>3 DEF KillOrphans, StartBackends, Unlink, TypeOK
  <2> QED BY <2>1, <2>2, <2>3, <2>4, <2>5, StartingKeeps DEF StartSteps
<1>4. CASE Check(d) BY <1>4, ConnectKeeps, ProceedKeeps DEF Check
<1>5. CASE Bind(d)
  <2>1. pc[d] = "bind" /\ target[d] = None BY <1>5 DEF Bind, TypeOK
  <2>2. \A e \in Daemons : ~Listening(e) BY <2>1 DEF Cleared, StarterKnows
  <2>3. CASE Bail(d) BY <2>1, <2>3, EndsKeeps DEF Bail, TypeOK
  <2>4. CASE sock' = d /\ Goto(d, "serving") /\ UNCHANGED <<target, pools, crashes>>
    <3>1. pc' = [pc EXCEPT ![d] = "serving"] BY <2>4 DEF Goto
    <3>2. \A e \in Daemons : (e # d => pc'[e] = pc[e]) /\ pc'[d] = "serving"
      BY <3>1 DEF TypeOK
    <3>3. \A e \in Daemons : Listening(e)' => e = d BY <2>2, <3>2 DEF Listening
    <3>4. TypeOK'
      <4>1. pc' \in [Daemons -> {"off", "serving", "closing", "ending"} \cup StartSteps]
        BY <3>1 DEF TypeOK
      <4>2. \A e \in Daemons : target'[e] # None <=> pc'[e] \in {"probing", "checking"}
        BY <2>1, <2>4, <3>2 DEF TypeOK
      <4> QED BY <2>4, <4>1, <4>2 DEF TypeOK
    <3>5. OneStarter' BY <3>2 DEF OneStarter, StartSteps
    <3>6. FileLeadsToListener' BY <2>4, <3>3 DEF FileLeadsToListener
    <3>7. \A e \in Daemons : pc'[e] \notin StartSteps
      BY <2>1, <3>2 DEF OneStarter, StartSteps
    <3>8. StarterKnows' BY <3>7 DEF StarterKnows, Cleared, Asking, StartSteps
    <3> QED BY <3>4, <3>5, <3>6, <3>8
  <2> QED BY <1>5, <2>3, <2>4 DEF Bind
<1>6. CASE RemoveSocket(d)
  <2>1. pc[d] = "closing" /\ sock' = None /\ pc' = [pc EXCEPT ![d] = "ending"]
        /\ UNCHANGED <<target, pools, crashes>>
    BY <1>6 DEF RemoveSocket, Goto
  <2>2. \A e \in Daemons : (e # d => pc'[e] = pc[e]) /\ pc'[d] = "ending"
    BY <2>1 DEF TypeOK
  <2>3. \A e \in Daemons : ~Listening(e)'
    BY <2>1, <2>2 DEF FileLeadsToListener, Listening
  <2>4. TypeOK'
    <3>1. pc' \in [Daemons -> {"off", "serving", "closing", "ending"} \cup StartSteps]
      BY <2>1 DEF TypeOK
    <3>2. \A e \in Daemons : target'[e] # None <=> pc'[e] \in {"probing", "checking"}
      BY <2>1, <2>2 DEF TypeOK
    <3> QED BY <2>1, <3>1, <3>2 DEF TypeOK
  <2>5. OneStarter' BY <2>2 DEF OneStarter, StartSteps
  <2> QED BY <2>3, <2>4, <2>5 DEF FileLeadsToListener, StarterKnows
<1>7. CASE Exit(d) BY <1>7, EndsKeeps DEF Exit, Bail, TypeOK
<1> QED BY <1>1, <1>2, <1>3, <1>4, <1>5, <1>6, <1>7 DEF Run

LEMMA NextKeeps == ~Overlap /\ IInv /\ [Next]_vars => IInv'
<1> SUFFICES ASSUME ~Overlap, IInv, [Next]_vars PROVE IInv' OBVIOUS
<1> USE DEF IInv
<1>1. ASSUME NEW d \in Daemons, Start(d) PROVE IInv'
  <2>1. pc' = [pc EXCEPT ![d] = "probe"] /\ pc[d] = "off" /\ UNCHANGED <<sock, target, pools, crashes>>
    BY <1>1 DEF Start, Goto
  <2>2. \A e \in Daemons : (e # d => pc'[e] = pc[e]) /\ pc'[d] = "probe"
    BY <2>1 DEF TypeOK
  <2>3. \A e \in Daemons : pc[e] \notin StartSteps BY <1>1 DEF Start
  <2>4. TypeOK'
    <3>1. pc' \in [Daemons -> {"off", "serving", "closing", "ending"} \cup StartSteps]
      BY <2>1 DEF TypeOK, StartSteps
    <3>2. \A e \in Daemons : target'[e] # None <=> pc'[e] \in {"probing", "checking"}
      BY <2>1, <2>2 DEF TypeOK
    <3> QED BY <2>1, <3>1, <3>2 DEF TypeOK
  <2>5. OneStarter' BY <2>2, <2>3 DEF OneStarter
  <2>6. FileLeadsToListener' BY <2>1, <2>2 DEF FileLeadsToListener, Listening
  <2>7. StarterKnows' BY <2>2, <2>3 DEF StarterKnows, Cleared, Asking, StartSteps
  <2> QED BY <2>4, <2>5, <2>6, <2>7
<1>2. ASSUME NEW d \in Daemons, Run(d) PROVE IInv' BY <1>2, RunKeeps
<1>3. ASSUME NEW d \in Daemons, Respawn(d) PROVE IInv'
  <2>1. UNCHANGED <<pc, sock, target, crashes>> /\ pools' \subseteq Daemons
    BY <1>3 DEF Respawn, TypeOK
  <2> QED BY <2>1 DEF TypeOK, OneStarter, FileLeadsToListener, StarterKnows, Listening, Cleared, Asking
<1>4. ASSUME NEW d \in Daemons, Shutdown(d) PROVE IInv'
  <2>1. pc' = [pc EXCEPT ![d] = "closing"] /\ pc[d] = "serving" /\ UNCHANGED <<sock, target, pools, crashes>>
    BY <1>4 DEF Shutdown, Goto, Serving
  <2>2. \A e \in Daemons : (e # d => pc'[e] = pc[e]) /\ pc'[d] = "closing"
    BY <2>1 DEF TypeOK
  <2>3. TypeOK'
    <3>1. pc' \in [Daemons -> {"off", "serving", "closing", "ending"} \cup StartSteps]
      BY <2>1 DEF TypeOK
    <3>2. \A e \in Daemons : target'[e] # None <=> pc'[e] \in {"probing", "checking"}
      BY <2>1, <2>2 DEF TypeOK
    <3> QED BY <2>1, <3>1, <3>2 DEF TypeOK
  <2>4. OneStarter' BY <2>2 DEF OneStarter, StartSteps
  <2>5. \A e \in Daemons : /\ Listening(e)' <=> Listening(e)
                           /\ Cleared(e)' <=> Cleared(e)
                           /\ Asking(e)' <=> Asking(e)
    BY <2>1, <2>2 DEF Listening, Cleared, Asking
  <2> QED BY <2>1, <2>3, <2>4, <2>5 DEF FileLeadsToListener, StarterKnows
<1>5. ASSUME NEW d \in Daemons, Terminate(d) \/ Crash(d) PROVE IInv'
  <2>1. crashes' \in 0..MaxCrashes
    BY <1>5, StartupAssumption DEF Terminate, Crash, TypeOK
  <2>2. Ends(d) /\ UNCHANGED <<sock, pools>> /\ pc[d] # "off"
    BY <1>5 DEF Terminate, Crash, Serving
  <2> QED BY <2>1, <2>2, EndsKeeps DEF TypeOK
<1>6. CASE UNCHANGED vars
  BY <1>6 DEF vars, TypeOK, OneStarter, FileLeadsToListener, StarterKnows, Listening, Cleared, Asking
<1> QED BY <1>1, <1>2, <1>3, <1>4, <1>5, <1>6 DEF Next

LEMMA InitHolds == Init => IInv
BY StartupAssumption
   DEF Init, IInv, TypeOK, OneStarter, FileLeadsToListener, StarterKnows, Listening, Cleared,
       Asking, StartSteps

LEMMA Invariance == ~Overlap /\ Spec => []IInv
<1>1. CASE Overlap BY <1>1
<1>2. CASE ~Overlap
  <2>1. IInv /\ [Next]_vars => IInv' BY <1>2, NextKeeps
  <2> QED BY <2>1, InitHolds, PTL DEF Spec
<1> QED BY <1>1, <1>2

(* Daemons started one after the other, any number of them, with crashes    *)
(* and stops at any point: at most one serves, behind the socket file.      *)
THEOREM SingleOwner == ~Overlap /\ Spec => []OneOwner
<1>1. IInv => OneOwner BY DEF IInv, FileLeadsToListener, OneOwner, Listening, Serving
<1> QED BY <1>1, Invariance, PTL

(* Such a daemon kills no pool of one that serves or starts.                *)
THEOREM KillsOrphansOnly == ~Overlap /\ Spec => BailsBeforeKilling
<1> DEFINE Spares == \A d, e \in Daemons :
      KillOrphans(d) /\ d # e /\ e \in pools => pc[e] \in {"off", "closing", "ending"}
<1>1. IInv => [Spares]_vars
  <2> SUFFICES ASSUME IInv, NEW d \in Daemons, NEW e \in Daemons, KillOrphans(d), d # e
               PROVE  pc[e] \in {"off", "closing", "ending"}
    BY DEF Spares
  <2>1. pc[d] = "kill" BY DEF KillOrphans
  <2>2. pc[e] \notin StartSteps BY <2>1 DEF IInv, OneStarter, StartSteps
  <2>3. ~Listening(e) BY <2>1 DEF IInv, StarterKnows, Cleared
  <2> QED BY <2>2, <2>3 DEF IInv, TypeOK, Listening
<1> QED BY <1>1, Invariance, PTL DEF BailsBeforeKilling

-------------------------------------------------------------------------------
(* Daemons that start side by side, when none stops *)

(* A process that moves on, with its probe or without. *)
LEMMA MoveKeepsType ==
  ASSUME TypeOK, NEW d \in Daemons,
         NEW step \in {"off", "serving", "closing", "ending"} \cup StartSteps, Goto(d, step),
         NEW reached \in Daemons \cup {None, Gone}, target' = [target EXCEPT ![d] = reached],
         reached # None <=> step \in {"probing", "checking"},
         sock' \in Daemons \cup {None}, pools' \subseteq Daemons, crashes' = crashes
  PROVE  TypeOK'
<1>1. pc' \in [Daemons -> {"off", "serving", "closing", "ending"} \cup StartSteps]
  BY DEF Goto, TypeOK
<1>2. target' \in [Daemons -> Daemons \cup {None, Gone}] BY DEF TypeOK
<1>3. \A e \in Daemons : target'[e] # None <=> pc'[e] \in {"probing", "checking"}
  BY DEF Goto, TypeOK
<1> QED BY <1>1, <1>2, <1>3 DEF TypeOK

LEMMA EndKeepsType ==
  ASSUME TypeOK, NEW d \in Daemons, Ends(d), sock' = sock,
         pools' \subseteq Daemons, crashes' \in 0..MaxCrashes
  PROVE  TypeOK'
<1>1. pc' \in [Daemons -> {"off", "serving", "closing", "ending"} \cup StartSteps]
  BY DEF Ends, Goto, TypeOK
<1>2. target' \in [Daemons -> Daemons \cup {None, Gone}] BY DEF Ends, TypeOK
<1>3. \A e \in Daemons : target'[e] # None <=> pc'[e] \in {"probing", "checking"}
  BY StartupAssumption DEF Ends, Goto, TypeOK
<1> QED BY <1>1, <1>2, <1>3 DEF TypeOK

LEMMA NextKeepsType == TypeOK /\ [Next]_vars => TypeOK'
<1> SUFFICES ASSUME TypeOK, Next PROVE TypeOK' BY DEF vars, TypeOK
<1>1. PICK d \in Daemons : \/ Start(d) \/ Run(d) \/ Respawn(d)
                           \/ Shutdown(d) \/ Terminate(d) \/ Crash(d)
  BY DEF Next
<1>2. ASSUME NEW step \in ({"serving", "closing", "ending"} \cup StartSteps) \ {"probing", "checking"},
             Goto(d, step), target' = [target EXCEPT ![d] = None] \/ target' = target,
             pc[d] \notin {"probing", "checking"} \/ target' # target,
             sock' \in {sock, None, d}, pools' \subseteq Daemons, crashes' = crashes
      PROVE  TypeOK'
  <2>1. target' = [target EXCEPT ![d] = None] BY <1>2 DEF TypeOK
  <2> QED BY <1>2, <2>1, MoveKeepsType DEF TypeOK
<1>3. CASE Bail(d) BY <1>3, EndKeepsType DEF Bail, TypeOK
<1>4. ASSUME NEW waiting \in {"probing", "checking"}, NEW absent \in {"http", "bind"},
             Connect(d, waiting, absent), pc[d] \in {"probe", "check"}
      PROVE  TypeOK'
  <2>1. CASE sock = None BY <1>2, <1>4, <2>1 DEF Connect, TypeOK, StartSteps
  <2>2. CASE sock # None
    <3> DEFINE reached == IF Listening(sock) THEN sock ELSE Gone
    <3>1. reached \in Daemons \cup {Gone} /\ reached # None
      BY <2>2, StartupAssumption DEF TypeOK
    <3>2. Goto(d, waiting) /\ target' = [target EXCEPT ![d] = reached]
          /\ UNCHANGED <<sock, pools, crashes>>
      BY <1>4, <2>2 DEF Connect
    <3> HIDE DEF reached
    <3> QED BY <3>1, <3>2, MoveKeepsType DEF TypeOK, StartSteps
  <2> QED BY <2>1, <2>2
<1>5. ASSUME NEW step \in {"probing", "checking"}, NEW next \in {"http", "unlink"},
             Proceed(d, step, next)
      PROVE  TypeOK'
  <2>1. CASE Goto(d, next) /\ target' = [target EXCEPT ![d] = None]
             /\ UNCHANGED <<sock, pools, crashes>>
    BY <2>1, MoveKeepsType DEF TypeOK, StartSteps
  <2> QED BY <1>3, <1>5, <2>1 DEF Proceed
<1>6. CASE Start(d) BY <1>2, <1>6 DEF Start, TypeOK, StartSteps
<1>7. CASE Run(d)
  <2>1. CASE Probe(d) BY <1>4, <1>5, <2>1 DEF Probe
  <2>2. CASE BindHttp(d) BY <1>2, <1>3, <2>2 DEF BindHttp, TypeOK, StartSteps
  <2>3. CASE KillOrphans(d) BY <1>2, <2>3 DEF KillOrphans, TypeOK, StartSteps
  <2>4. CASE StartBackends(d) BY <1>2, <2>4 DEF StartBackends, TypeOK, StartSteps
  <2>5. CASE Check(d) BY <1>4, <1>5, <2>5 DEF Check
  <2>6. CASE Unlink(d) BY <1>2, <2>6 DEF Unlink, TypeOK, StartSteps
  <2>7. CASE Bind(d) BY <1>2, <1>3, <2>7 DEF Bind, TypeOK, StartSteps
  <2>8. CASE RemoveSocket(d) BY <1>2, <2>8 DEF RemoveSocket, TypeOK, StartSteps
  <2>9. CASE Exit(d) BY <1>3, <2>9 DEF Exit
  <2> QED BY <1>7, <2>1, <2>2, <2>3, <2>4, <2>5, <2>6, <2>7, <2>8, <2>9 DEF Run
<1>8. CASE Respawn(d) BY <1>8 DEF Respawn, TypeOK
<1>9. CASE Shutdown(d) BY <1>2, <1>9 DEF Shutdown, Serving, TypeOK
<1>10. CASE Terminate(d) BY <1>10, EndKeepsType DEF Terminate, TypeOK
<1>11. CASE Crash(d)
  <2>1. crashes' \in 0..MaxCrashes BY <1>11, StartupAssumption DEF Crash, TypeOK
  <2> QED BY <1>11, <2>1, EndKeepsType DEF Crash, TypeOK
<1> QED BY <1>1, <1>6, <1>7, <1>8, <1>9, <1>10, <1>11

(* The type invariant, with the connections probes have, however daemons     *)
(* start, stop and end.                                                      *)
THEOREM Typing == Spec => []TypeOK
<1>1. Init => TypeOK BY StartupAssumption DEF Init, TypeOK, StartSteps
<1> QED BY <1>1, NextKeepsType, PTL DEF Spec

NoneStops == Stops = {} /\ MaxCrashes = 0

(* The file is there exactly when its owner serves, and a probe is connected *)
(* to one that serves: none is ever refused, and so no file is removed.      *)
RaceInv ==
  /\ TypeOK
  /\ \A d \in Daemons : Serving(d) <=> sock = d
  /\ \A d \in Daemons : pc[d] \notin {"closing", "ending", "unlink"}
  /\ \A d \in Daemons : target[d] # None => target[d] \in Daemons /\ Serving(target[d])

LEMMA RaceKeeps == NoneStops /\ RaceInv /\ TypeOK' /\ [Next]_vars => RaceInv'
<1> SUFFICES ASSUME NoneStops, RaceInv, TypeOK', Next PROVE RaceInv'
  BY DEF vars, RaceInv, Serving
<1> USE DEF RaceInv
<1>1. PICK d \in Daemons : Start(d) \/ Run(d) \/ Respawn(d)
  BY DEF Next, NoneStops, Shutdown, Terminate, Crash, TypeOK
<1>2. ASSUME NEW step \in StartSteps \ {"unlink"}, Goto(d, step), ~Serving(d),
             NEW reached, target' = [target EXCEPT ![d] = reached],
             reached # None => reached \in Daemons /\ Serving(reached), sock' = sock
      PROVE  RaceInv'
  <2>1. \A e \in Daemons : /\ e # d => pc'[e] = pc[e] /\ target'[e] = target[e]
                           /\ pc'[d] = step /\ target'[d] = reached
    BY <1>2 DEF Goto, TypeOK
  <2>2. \A e \in Daemons : Serving(e)' <=> Serving(e)
    BY <1>2, <2>1 DEF Serving, StartSteps
  <2>3. \A e \in Daemons : pc'[e] \notin {"closing", "ending", "unlink"}
    BY <2>1 DEF StartSteps
  <2>4. \A e \in Daemons : target'[e] # None => target'[e] \in Daemons /\ Serving(target'[e])
    BY <1>2, <2>1
  <2>5. \A e \in Daemons : target'[e] # None => target'[e] \in Daemons /\ Serving(target[e])'
    BY <2>2, <2>4 DEF Serving
  <2> QED BY <1>2, <2>2, <2>3, <2>5
<1>3. CASE Bail(d) /\ ~Serving(d)
  <2>1. \A e \in Daemons : target[e] # d BY <1>3, StartupAssumption DEF TypeOK
  <2>2. pc' = [pc EXCEPT ![d] = "off"] /\ sock' = sock BY <1>3 DEF Bail, Ends, Goto
  <2>3. \A e \in Daemons : target'[e] = IF e = d THEN None ELSE target[e]
    BY <1>3, <2>1 DEF Bail, Ends
  <2>4. \A e \in Daemons : pc'[e] = IF e = d THEN "off" ELSE pc[e] BY <2>2 DEF TypeOK
  <2>5. \A e \in Daemons : Serving(e)' <=> Serving(e) BY <1>3, <2>4 DEF Serving
  <2>6. \A e \in Daemons : target'[e] # None => target'[e] \in Daemons /\ Serving(target[e])'
    BY <2>3, <2>5 DEF Serving
  <2> QED BY <2>2, <2>4, <2>5, <2>6
<1>4. ASSUME NEW waiting \in {"probing", "checking"}, NEW absent \in {"http", "bind"},
             Connect(d, waiting, absent), pc[d] \in {"probe", "check"}
      PROVE  RaceInv'
  <2>1. ~Serving(d) /\ target[d] = None BY <1>4 DEF Serving, TypeOK
  <2>2. CASE sock = None
    <3>1. target' = [target EXCEPT ![d] = None] BY <1>4, <2>1, <2>2 DEF Connect, TypeOK
    <3> QED BY <1>2, <1>4, <2>1, <2>2, <3>1 DEF Connect, StartSteps
  <2>3. CASE sock # None
    <3>1. sock \in Daemons /\ Serving(sock) BY <2>3 DEF TypeOK
    <3>2. target' = [target EXCEPT ![d] = sock] BY <1>4, <2>3, <3>1 DEF Connect, Serving, Listening
    <3> QED BY <1>2, <1>4, <2>1, <2>3, <3>1, <3>2 DEF Connect, StartSteps
  <2> QED BY <2>2, <2>3
<1>5. ASSUME NEW step \in {"probing", "checking"}, NEW next, Proceed(d, step, next)
      PROVE  RaceInv'
  <2>1. pc[d] = step /\ ~Serving(d) BY <1>5 DEF Proceed, Serving
  <2>2. target[d] \in Daemons /\ Serving(target[d]) BY <2>1 DEF TypeOK
  <2>3. ~Refused(d) BY <2>2, StartupAssumption DEF Refused, Serving
  <2> QED BY <1>3, <1>5, <2>1, <2>3 DEF Proceed
<1>6. CASE Start(d)
  <2>1. target' = [target EXCEPT ![d] = None] BY <1>6 DEF Start, TypeOK
  <2> QED BY <1>2, <1>6, <2>1 DEF Start, Serving, StartSteps
<1>7. CASE Respawn(d) BY <1>7 DEF Respawn, Serving
<1>8. CASE BindHttp(d) \/ KillOrphans(d) \/ StartBackends(d)
  <2>1. pc[d] \in {"http", "kill", "start"} /\ ~Serving(d)
    BY <1>8 DEF BindHttp, KillOrphans, StartBackends, Serving
  <2>2. CASE Bail(d) BY <1>3, <2>1, <2>2
  <2>3. CASE ~Bail(d)
    <3>1. target' = target /\ sock' = sock /\ \E step \in {"kill", "start", "check"} : Goto(d, step)
      BY <1>8, <2>3 DEF BindHttp, KillOrphans, StartBackends
    <3>2. target' = [target EXCEPT ![d] = None] BY <2>1, <3>1 DEF TypeOK
    <3> QED BY <1>2, <2>1, <3>1, <3>2 DEF StartSteps
  <2> QED BY <2>2, <2>3
<1>9. CASE Bind(d)
  <2>1. pc[d] = "bind" /\ ~Serving(d) BY <1>9 DEF Bind, Serving
  <2>2. CASE sock = None /\ sock' = d /\ Goto(d, "serving") /\ UNCHANGED <<target, pools, crashes>>
    <3>1. \A e \in Daemons : (e # d => pc'[e] = pc[e]) /\ pc'[d] = "serving"
      BY <2>2 DEF Goto, TypeOK
    <3>2. \A e \in Daemons : ~Serving(e) BY <2>2, StartupAssumption
    <3>3. \A e \in Daemons : Serving(e)' <=> e = d BY <3>1, <3>2 DEF Serving
    <3>4. \A e \in Daemons : target[e] = None BY <3>2
    <3>5. \A e \in Daemons : pc'[e] \notin {"closing", "ending", "unlink"} BY <3>1
    <3> QED BY <2>2, <3>3, <3>4, <3>5
  <2> QED BY <1>3, <1>9, <2>1, <2>2 DEF Bind
<1>10. ~(Unlink(d) \/ RemoveSocket(d) \/ Exit(d)) BY DEF Unlink, RemoveSocket, Exit
<1> QED BY <1>1, <1>4, <1>5, <1>6, <1>7, <1>8, <1>9, <1>10 DEF Run, Probe, Check

(* Any number of daemons start at the same moment, and none stops: the bind  *)
(* lets one of them serve, whatever their probes saw.                        *)
THEOREM OneOwnerOfRace == ASSUME NoneStops PROVE Spec => []OneOwner
<1>1. RaceInv => OneOwner BY DEF RaceInv, OneOwner
<1>2. Init => RaceInv
  BY StartupAssumption DEF Init, RaceInv, TypeOK, Serving, StartSteps
<1>3. RaceInv /\ TypeOK' /\ [Next]_vars => RaceInv' BY RaceKeeps
<1> QED BY <1>1, <1>2, <1>3, Typing, PTL DEF Spec
===============================================================================
