------------------------------ MODULE PartsProofs ------------------------------
(***************************************************************************)
(* What holds of the parts that have a machine or a daemon to themselves,  *)
(* for every value of their constants: the database servers, the dumps     *)
(* receiver, the mail sink, a request to php-fpm, the accounts, the        *)
(* machine's setup and doctor, the Node tools and the PHP tools; and of    *)
(* those that a run checks side by side, with the branch switch of         *)
(* BranchDbProofs. Each section has its hypotheses and its invariant.      *)
(***************************************************************************)
EXTENDS Parts, BranchDbProofs, Sequences, Functions, FiniteSetTheorems, TLAPS

-----------------------------------------------------------------------------
(* The database servers: whatever fails, requests that end half way, saves,  *)
(* servers and daemons.                                                      *)

(* A server in the table is its instance's, version and port included: a   *)
(* restart that takes the instance's server away takes the only one.       *)
HeldOfInstance ==
  \A s \in servers : s.state = "held" =>
    s.name \in running /\ \E i \in config : s = Srv!Server(i, "held")

ServersInv == /\ Srv!TypeOK /\ Srv!Distinct
              /\ running \subseteq Srv!NamesOf(config) /\ HeldOfInstance

(* Servers that are ended are still servers, and those of the names are no   *)
(* longer held.                                                              *)
LEMMA EndedIs ==
  ASSUME Srv!TypeOK, NEW names
  PROVE  /\ Srv!Ended(names) \subseteq [name: Names, version: Engines, port: Srv!TcpPorts,
                                        state: {"held", "dying", "orphan"}]
         /\ \A s \in Srv!Ended(names) : s.state = "held" => s \in servers /\ s.name \notin names
BY DEF Srv!Ended, Srv!TypeOK

(* A directory is left alone, or made for a version of its instance. *)
LEMMA InitialisedIs ==
  ASSUME Srv!TypeOK, NEW instances \in SUBSET Srv!Instance
  PROVE  Srv!Initialised(instances) \in [Names -> Engines \cup {None, Partial}]
<1> SUFFICES ASSUME NEW n \in Names PROVE Srv!Initialised(instances)[n] \in Engines \cup {None, Partial}
  BY DEF Srv!Initialised
<1>1. CASE n \in Srv!NamesOf(instances)
  <2>1. \E i \in instances : i.name = n BY <1>1 DEF Srv!NamesOf
  <2>2. (CHOOSE i \in instances : i.name = n) \in instances BY <2>1
  <2>3. (CHOOSE i \in instances : i.name = n).version \in Engines BY <2>2 DEF Srv!Instance
  <2> QED BY <2>3 DEF Srv!Initialised, Srv!TypeOK
<1>2. CASE n \notin Srv!NamesOf(instances) BY <1>2 DEF Srv!Initialised, Srv!TypeOK
<1> QED BY <1>1, <1>2

(* The servers that are started are servers of their instances. *)
LEMMA ServerIs ==
  ASSUME NEW i \in Srv!Instance, NEW state \in {"held", "dying", "orphan"}
  PROVE  /\ Srv!Server(i, state) \in [name: Names, version: Engines, port: Srv!TcpPorts,
                                      state: {"held", "dying", "orphan"}]
         /\ Srv!Server(i, state).name = i.name /\ Srv!Server(i, state).port = i.port
         /\ Srv!Server(i, state).state = state
BY DEF Srv!Server, Srv!Instance

(* Requests *)

(* Starting one instance, as create and start do. *)
LEMMA SpawnKeeps ==
  ASSUME ServersInv, NEW i \in Srv!Instance, Srv!Spawn({i}),
         config' \subseteq Srv!Instance, config \cup {i} \subseteq config'
  PROVE  /\ running' \subseteq Names /\ running' \subseteq Srv!NamesOf(config')
         /\ servers' \subseteq [name: Names, version: Engines, port: Srv!TcpPorts,
                                state: {"held", "dying", "orphan"}]
         /\ data' \in [Names -> Engines \cup {None, Partial}]
         /\ HeldOfInstance'
<1>1. /\ running' = running \cup {i.name} /\ servers' \subseteq servers \cup {Srv!Server(i, "held")}
      /\ data' = Srv!Initialised({i})
  BY DEF Srv!Spawn, Srv!NamesOf
<1>2. i.name \in Names /\ running \subseteq Srv!NamesOf(config) BY DEF Srv!Instance, ServersInv
<1>3. Srv!NamesOf(config) \cup {i.name} \subseteq Srv!NamesOf(config') BY DEF Srv!NamesOf
<1>4. Srv!TypeOK BY DEF ServersInv
<1>5. HeldOfInstance'
  <2> SUFFICES ASSUME NEW s \in servers', s.state = "held"
               PROVE  s.name \in running' /\ \E j \in config' : s = Srv!Server(j, "held")
    BY DEF HeldOfInstance
  <2>1. CASE s = Srv!Server(i, "held") BY <2>1, <1>1, ServerIs
  <2>2. CASE s # Srv!Server(i, "held") BY <2>2, <1>1 DEF ServersInv, HeldOfInstance
  <2> QED BY <2>1, <2>2
<1> QED BY <1>1, <1>2, <1>3, <1>4, <1>5, ServerIs, InitialisedIs DEF Srv!TypeOK

(* A start that ends with an error leaves the servers; the directory may be  *)
(* half made.                                                                *)
LEMMA SpawnFailsKeeps ==
  ASSUME ServersInv, NEW i \in Srv!Instance, Srv!SpawnFails(i), config' = config
  PROVE  /\ running' = running /\ servers' = servers
         /\ data' \in [Names -> Engines \cup {None, Partial}]
         /\ HeldOfInstance'
BY DEF Srv!SpawnFails, ServersInv, Srv!TypeOK, HeldOfInstance

LEMMA CreateKeeps ==
  ASSUME ServersInv, NEW i \in Srv!Instance, Srv!CreateOn(i) \/ Srv!CreateAnywhere(i) PROVE ServersInv'
<1> USE DEF ServersInv
<1>1. Srv!Create(i) /\ \A j \in config : j.port # i.port
  BY DEF Srv!CreateOn, Srv!CreateAnywhere, Srv!Free, Srv!free_port, Srv!Instance, Srv!TcpPorts
<1>2. i.name \in Names /\ \A j \in config : j.name # i.name BY <1>1 DEF Srv!Create, Srv!NamesOf, Srv!Instance
<1>3. gone' \subseteq Names /\ foreign' \subseteq Srv!TcpPorts BY <1>1 DEF Srv!Create, Srv!TypeOK
<1>4. CASE Srv!SpawnFails(i) /\ UNCHANGED <<config, saved, made>>
  <2>1. /\ running' = running /\ servers' = servers
        /\ data' \in [Names -> Engines \cup {None, Partial}] /\ HeldOfInstance'
    BY <1>4, SpawnFailsKeeps
  <2>2. Srv!TypeOK' BY <1>3, <1>4, <2>1 DEF Srv!TypeOK
  <2>3. Srv!Distinct' BY <1>4 DEF Srv!Distinct
  <2> QED BY <1>4, <2>1, <2>2, <2>3
<1>5. CASE Srv!Spawn({i}) /\ Srv!Stored(i) /\ made' = IF saved' # saved THEN made \cup {i.name} ELSE made
  <2>1. config' = config \cup {i} /\ saved' \in {config', saved} BY <1>5 DEF Srv!Stored, Srv!Save
  <2>2. config' \subseteq Srv!Instance BY <2>1 DEF Srv!TypeOK
  <2>3. /\ running' \subseteq Names /\ running' \subseteq Srv!NamesOf(config')
        /\ servers' \subseteq [name: Names, version: Engines, port: Srv!TcpPorts,
                               state: {"held", "dying", "orphan"}]
        /\ data' \in [Names -> Engines \cup {None, Partial}]
        /\ HeldOfInstance'
    BY <1>5, <2>1, <2>2, SpawnKeeps
  <2>4. made' \subseteq Names BY <1>2, <1>5 DEF Srv!TypeOK
  <2>5. Srv!TypeOK' BY <1>3, <2>1, <2>2, <2>3, <2>4 DEF Srv!TypeOK
  <2>6. Srv!Distinct' BY <1>1, <1>2, <2>1 DEF Srv!Distinct
  <2> QED BY <2>3, <2>5, <2>6
<1> QED BY <1>1, <1>4, <1>5 DEF Srv!Create

LEMMA StartKeeps ==
  ASSUME ServersInv, NEW i \in config, Srv!Start(i) PROVE ServersInv'
<1> USE DEF ServersInv
<1>1. UNCHANGED <<config, saved, foreign, made, gone>> /\ (Srv!Spawn({i}) \/ Srv!SpawnFails(i)) BY DEF Srv!Start
<1>2. i \in Srv!Instance /\ config' = config /\ config \subseteq Srv!Instance BY <1>1 DEF Srv!TypeOK
<1>3. /\ running' \subseteq Names /\ running' \subseteq Srv!NamesOf(config')
      /\ servers' \subseteq [name: Names, version: Engines, port: Srv!TcpPorts,
                             state: {"held", "dying", "orphan"}]
      /\ data' \in [Names -> Engines \cup {None, Partial}]
      /\ HeldOfInstance'
  <2>1. CASE Srv!Spawn({i}) BY <1>2, <2>1, SpawnKeeps
  <2>2. CASE Srv!SpawnFails(i) BY <1>2, <2>2, SpawnFailsKeeps DEF Srv!TypeOK
  <2> QED BY <1>1, <2>1, <2>2
<1>4. Srv!TypeOK' BY <1>1, <1>3 DEF Srv!TypeOK
<1>5. Srv!Distinct' BY <1>1 DEF Srv!Distinct
<1> QED BY <1>3, <1>4, <1>5

(* Stop, and the beginning of delete. *)
LEMMA ForgottenIs ==
  ASSUME ServersInv, NEW n, Srv!Forgotten(n)
  PROVE  /\ running' \subseteq running /\ n \notin running'
         /\ servers' \subseteq [name: Names, version: Engines, port: Srv!TcpPorts,
                                state: {"held", "dying", "orphan"}]
         /\ \A s \in servers' : s.state = "held" =>
              /\ s.name \in running' /\ s.name # n
              /\ \E i \in config : s = Srv!Server(i, "held")
<1>1. running' = running \ {n} /\ servers' = Srv!Ended({n}) BY DEF Srv!Forgotten
<1>2. /\ Srv!Ended({n}) \subseteq [name: Names, version: Engines, port: Srv!TcpPorts,
                                   state: {"held", "dying", "orphan"}]
      /\ \A s \in Srv!Ended({n}) : s.state = "held" => s \in servers /\ s.name \notin {n}
  BY EndedIs DEF ServersInv
<1> QED BY <1>1, <1>2 DEF ServersInv, HeldOfInstance

LEMMA StopKeeps ==
  ASSUME ServersInv, NEW n, Srv!Stop(n) PROVE ServersInv'
<1> USE DEF ServersInv
<1>1. UNCHANGED <<config, saved, data, foreign, made, gone>> /\ Srv!Forgotten(n) BY DEF Srv!Stop, Srv!Forgotten
<1>2. /\ running' \subseteq running
      /\ servers' \subseteq [name: Names, version: Engines, port: Srv!TcpPorts,
                             state: {"held", "dying", "orphan"}]
      /\ \A s \in servers' : s.state = "held" =>
           s.name \in running' /\ \E i \in config : s = Srv!Server(i, "held")
  BY <1>1, ForgottenIs
<1>3. Srv!TypeOK' BY <1>1, <1>2 DEF Srv!TypeOK
<1>4. Srv!Distinct' BY <1>1 DEF Srv!Distinct
<1>5. HeldOfInstance' BY <1>1, <1>2 DEF HeldOfInstance
<1> QED BY <1>1, <1>2, <1>3, <1>4, <1>5

LEMMA DeleteKeeps ==
  ASSUME ServersInv, NEW n \in Names, Srv!Delete(n) PROVE ServersInv'
<1> USE DEF ServersInv
<1>1. /\ UNCHANGED <<data, foreign>> /\ Srv!Forgotten(n)
      /\ config' = {i \in config : i.name # n} /\ saved' \in {config', saved}
      /\ made' \subseteq made /\ gone' \subseteq gone \cup {n}
  BY DEF Srv!Delete, Srv!Save
<1>2. /\ running' \subseteq running /\ n \notin running'
      /\ servers' \subseteq [name: Names, version: Engines, port: Srv!TcpPorts,
                             state: {"held", "dying", "orphan"}]
      /\ \A s \in servers' : s.state = "held" =>
           /\ s.name \in running' /\ s.name # n
           /\ \E i \in config : s = Srv!Server(i, "held")
  BY <1>1, ForgottenIs
<1>3. Srv!TypeOK' BY <1>1, <1>2 DEF Srv!TypeOK
<1>4. Srv!Distinct' BY <1>1 DEF Srv!Distinct
<1>5. running' \subseteq Srv!NamesOf(config') BY <1>1, <1>2 DEF Srv!NamesOf
<1>6. HeldOfInstance'
  <2> SUFFICES ASSUME NEW s \in servers', s.state = "held"
               PROVE  s.name \in running' /\ \E i \in config' : s = Srv!Server(i, "held")
    BY DEF HeldOfInstance
  <2>1. PICK i \in config : s = Srv!Server(i, "held") BY <1>2
  <2>2. s.name = i.name BY <2>1 DEF Srv!Server
  <2> QED BY <1>1, <1>2, <2>1, <2>2
<1> QED BY <1>3, <1>4, <1>5, <1>6

(* Whichever way the old server went, another of its name is not held. *)
LEMMA RestartKeeps ==
  ASSUME ServersInv, NEW i \in config, Srv!Restart(i) PROVE ServersInv'
<1> USE DEF ServersInv
<1> DEFINE AllServers == [name: Names, version: Engines, port: Srv!TcpPorts,
                          state: {"held", "dying", "orphan"}]
<1>1. UNCHANGED <<config, saved, foreign, made, gone>> /\ i.name \in running /\ i \in Srv!Instance
  BY DEF Srv!Restart, Srv!TypeOK
<1>2. PICK others \in {Srv!Ended({i.name}), servers \ {Srv!Server(i, "held")}} :
        \/ /\ running' = running
           /\ servers' = others \cup {Srv!Server(i, "held")} \/ servers' = others
           /\ data' = Srv!Initialised({i})
        \/ /\ running' = running \ {i.name} /\ servers' = others /\ data' = data
  BY DEF Srv!Restart
<1>3. others \subseteq AllServers /\ \A s \in others : s.state = "held" => s \in servers /\ s.name # i.name
  <2>1. CASE others = Srv!Ended({i.name}) BY <2>1, EndedIs
  <2>2. CASE others = servers \ {Srv!Server(i, "held")}
    <3>1. ASSUME NEW s \in servers, s.state = "held", s.name = i.name PROVE s = Srv!Server(i, "held")
      <4>1. PICK j \in config : s = Srv!Server(j, "held") BY <3>1 DEF HeldOfInstance
      <4>2. j.name = i.name BY <3>1, <4>1 DEF Srv!Server
      <4>3. j = i BY <4>2 DEF Srv!Distinct
      <4> QED BY <4>1, <4>3
    <3> QED BY <2>2, <3>1 DEF Srv!TypeOK
  <2> QED BY <1>2, <2>1, <2>2
<1>4. running' \subseteq running /\ servers' \subseteq others \cup {Srv!Server(i, "held")} BY <1>2
<1>5. data' \in [Names -> Engines \cup {None, Partial}]
  BY <1>1, <1>2, InitialisedIs DEF Srv!TypeOK
<1>6. HeldOfInstance'
  <2> SUFFICES ASSUME NEW s \in servers', s.state = "held"
               PROVE  s.name \in running' /\ \E j \in config' : s = Srv!Server(j, "held")
    BY DEF HeldOfInstance
  <2>1. CASE s \in others BY <2>1, <1>1, <1>2, <1>3 DEF HeldOfInstance
  <2>2. CASE s \notin others
    <3>1. s = Srv!Server(i, "held") /\ running' = running BY <1>2, <2>2
    <3> QED BY <3>1, <1>1, ServerIs
  <2> QED BY <2>1, <2>2
<1>7. Srv!TypeOK' BY <1>1, <1>3, <1>4, <1>5, ServerIs DEF Srv!TypeOK
<1>8. Srv!Distinct' BY <1>1 DEF Srv!Distinct
<1>9. running' \subseteq Srv!NamesOf(config') BY <1>1, <1>4
<1> QED BY <1>6, <1>7, <1>8, <1>9

(* The world *)

LEMMA OutsideKeeps ==
  ASSUME ServersInv, \/ \E s \in servers : Srv!Exit(s)
              \/ \E p \in Srv!TcpPorts : Srv!Foreign(p)
  PROVE  ServersInv'
<1> USE DEF ServersInv
<1>1. /\ UNCHANGED <<config, saved, running, data, made, gone>> /\ servers' \subseteq servers
      /\ foreign' \subseteq Srv!TcpPorts
  BY DEF Srv!Exit, Srv!Foreign, Srv!TypeOK
<1>2. Srv!TypeOK' BY <1>1 DEF Srv!TypeOK
<1>3. Srv!Distinct' BY <1>1 DEF Srv!Distinct
<1>4. HeldOfInstance' BY <1>1 DEF HeldOfInstance
<1> QED BY <1>1, <1>2, <1>3, <1>4

(* A daemon starts its instances anew, and holds none of what it finds. *)
LEMMA BootKeeps ==
  ASSUME ServersInv, NEW loaded \in {saved, {}}, NEW kept, Srv!Boot(kept, loaded),
         kept \subseteq [name: Names, version: Engines, port: Srv!TcpPorts, state: {"held", "dying", "orphan"}],
         \A s \in kept : s.state # "held"
  PROVE  ServersInv'
<1> USE DEF ServersInv
<1>1. loaded \subseteq Srv!Instance BY DEF Srv!TypeOK
<1>2. PICK started \in SUBSET loaded :
        /\ config' = loaded /\ running' = Srv!NamesOf(started)
        /\ servers' \subseteq kept \cup {Srv!Server(i, "held") : i \in started}
        /\ data' = Srv!Initialised(started)
        /\ UNCHANGED <<saved, foreign, made, gone>>
  <2>1. PICK fails :
          LET due == {i \in loaded : i.port \notin foreign /\ \A s \in kept : s.port # i.port}
              started == due \ fails
          IN /\ config' = loaded /\ running' = Srv!NamesOf(started)
             /\ servers' = kept \cup {Srv!Server(i, "held") :
                                            i \in {j \in started : data[j.name] \in {None, j.version}}}
             /\ data' = Srv!Initialised(started)
             /\ UNCHANGED <<saved, foreign, made, gone>>
    BY DEF Srv!Boot
  <2> DEFINE started == {i \in loaded : i.port \notin foreign /\ \A s \in kept : s.port # i.port} \ fails
  <2>2. started \in SUBSET loaded OBVIOUS
  <2>3. /\ config' = loaded /\ running' = Srv!NamesOf(started)
        /\ servers' = kept \cup {Srv!Server(i, "held") :
                                       i \in {j \in started : data[j.name] \in {None, j.version}}}
        /\ data' = Srv!Initialised(started)
        /\ UNCHANGED <<saved, foreign, made, gone>>
    BY <2>1
  <2> HIDE DEF started
  <2> QED BY <2>2, <2>3
<1>3. started \subseteq Srv!Instance BY <1>1
<1>4. running' \subseteq Names /\ running' \subseteq Srv!NamesOf(config')
  BY <1>2, <1>3 DEF Srv!NamesOf, Srv!Instance
<1>5. servers' \subseteq [name: Names, version: Engines, port: Srv!TcpPorts,
                          state: {"held", "dying", "orphan"}]
  BY <1>2, <1>3, ServerIs
<1>6. data' \in [Names -> Engines \cup {None, Partial}] BY <1>2, <1>3, InitialisedIs
<1>7. Srv!TypeOK' BY <1>1, <1>2, <1>4, <1>5, <1>6 DEF Srv!TypeOK
<1>8. Srv!Distinct' BY <1>2 DEF Srv!Distinct
<1>9. HeldOfInstance'
  <2> SUFFICES ASSUME NEW s \in servers', s.state = "held"
               PROVE  s.name \in running' /\ \E j \in config' : s = Srv!Server(j, "held")
    BY DEF HeldOfInstance
  <2>1. PICK i \in started : s = Srv!Server(i, "held") BY <1>2
  <2>2. s.name = i.name BY <2>1 DEF Srv!Server
  <2> QED BY <1>2, <2>1, <2>2 DEF Srv!NamesOf
<1> QED BY <1>4, <1>7, <1>8, <1>9

LEMMA RebootKeeps ==
  ASSUME ServersInv, Srv!Reboot \/ Srv!Killed \/ Srv!Unreadable PROVE ServersInv'
<1>1. CASE Srv!Reboot BY <1>1, BootKeeps DEF Srv!Reboot
<1>2. CASE Srv!Killed
  <2> DEFINE kept == {[s EXCEPT !.state = "orphan"] : s \in {t \in servers : t.state # "dying"}}
  <2>1. /\ kept \subseteq [name: Names, version: Engines, port: Srv!TcpPorts, state: {"held", "dying", "orphan"}]
        /\ \A s \in kept : s.state # "held"
    BY DEF ServersInv, Srv!TypeOK
  <2>2. Srv!Boot(kept, saved) BY <1>2 DEF Srv!Killed
  <2> HIDE DEF kept
  <2> QED BY <2>1, <2>2, BootKeeps
<1>3. CASE Srv!Unreadable BY <1>3, BootKeeps DEF Srv!Unreadable
<1> QED BY <1>1, <1>2, <1>3

LEMMA ServersKeep == ServersInv /\ [Srv!Next]_Srv!vars => ServersInv'
<1> SUFFICES ASSUME ServersInv, [Srv!Next]_Srv!vars PROVE ServersInv' OBVIOUS
<1>1. CASE UNCHANGED Srv!vars
  BY <1>1 DEF Srv!vars, ServersInv, Srv!TypeOK, Srv!Distinct, HeldOfInstance
<1>2. CASE \E i \in Srv!Instance : Srv!CreateOn(i) \/ Srv!CreateAnywhere(i) BY <1>2, CreateKeeps
<1>3. CASE \E i \in config : Srv!Start(i) \/ Srv!Restart(i) BY <1>3, StartKeeps, RestartKeeps
<1>4. CASE \E n \in Names : Srv!Stop(n) \/ Srv!Delete(n) BY <1>4, StopKeeps, DeleteKeeps
<1>5. CASE \/ \E s \in servers : Srv!Exit(s)
           \/ \E p \in Srv!TcpPorts : Srv!Foreign(p)
  BY <1>5, OutsideKeeps
<1>6. CASE Srv!Reboot \/ Srv!Killed \/ Srv!Unreadable BY <1>6, RebootKeeps
<1> QED BY <1>1, <1>2, <1>3, <1>4, <1>5, <1>6 DEF Srv!Next

LEMMA ServersStart == Srv!Init => ServersInv
<1> SUFFICES ASSUME Srv!Init PROVE ServersInv OBVIOUS
<1>1. 0 \in Srv!TcpPorts BY PartsAssumption DEF Srv!ServicesAssumption, Srv!TcpPorts
<1> QED BY <1>1 DEF Srv!Init, ServersInv, Srv!TypeOK, Srv!Distinct, HeldOfInstance, Srv!NamesOf

(* Theorems *)

(* Every variable holds values of its kind.                                  *)
THEOREM ServersTyping == Srv!Spec => []Srv!TypeOK
<1>1. ServersInv => Srv!TypeOK BY DEF ServersInv
<1> QED BY <1>1, ServersStart, ServersKeep, PTL DEF Srv!Spec

(* Two instances never share a name or a port, in memory or in the file,     *)
(* whatever saves failed in between.                                         *)
THEOREM NoneShared == Srv!Spec => []Srv!Distinct
<1>1. ServersInv => Srv!Distinct BY DEF ServersInv
<1> QED BY <1>1, ServersStart, ServersKeep, PTL DEF Srv!Spec

(* No request, failed or not, leaves a server that is held and that no       *)
(* request can name, and the port it is on is its instance's.                *)
THEOREM HeldAreNamed == Srv!Spec => []Srv!HeldIsNamed
<1>1. ServersInv => Srv!HeldIsNamed
  <2> SUFFICES ASSUME ServersInv, NEW s \in servers, s.state = "held"
               PROVE  s.name \in running /\ \E i \in config : i.name = s.name /\ i.port = s.port
    BY DEF Srv!HeldIsNamed, ServersInv
  <2>1. s.name \in running /\ \E i \in config : s = Srv!Server(i, "held") BY DEF ServersInv, HeldOfInstance
  <2> QED BY <2>1 DEF Srv!Server
<1> QED BY <1>1, ServersStart, ServersKeep, PTL DEF Srv!Spec

(* A server is only left behind by a daemon that is killed. *)
NoneLeft == \A s \in servers : s.state \in {"held", "dying"}

LEMMA NoneLeftNext ==
  ASSUME "kill" \notin ServicesFaults PROVE NoneLeft /\ [Srv!Next]_Srv!vars => NoneLeft'
<1> SUFFICES ASSUME NoneLeft, [Srv!Next]_Srv!vars PROVE NoneLeft' OBVIOUS
<1>1. \A i : Srv!Server(i, "held").state = "held" BY DEF Srv!Server
<1>2. \A names : \A s \in Srv!Ended(names) : s.state \in {"held", "dying"}
  <2> SUFFICES ASSUME NEW names, NEW t \in servers
               PROVE  (IF t.name \in names /\ t.state = "held" THEN [t EXCEPT !.state = "dying"] ELSE t).state
                        \in {"held", "dying"}
    BY DEF Srv!Ended
  <2>1. t.state \in {"held", "dying"} BY DEF NoneLeft
  <2>2. t.state = "held" => [t EXCEPT !.state = "dying"].state \in {"held", "dying"} OBVIOUS
  <2> QED BY <2>1, <2>2
<1>3. ASSUME servers' \subseteq servers PROVE NoneLeft' BY <1>3 DEF NoneLeft
<1>4. ASSUME NEW is, Srv!Spawn(is) PROVE NoneLeft' BY <1>1, <1>4 DEF Srv!Spawn, NoneLeft
<1>5. ASSUME NEW i, Srv!SpawnFails(i) PROVE NoneLeft' BY <1>3, <1>5 DEF Srv!SpawnFails
<1>6. ASSUME NEW i, Srv!Restart(i) PROVE NoneLeft' BY <1>1, <1>2, <1>6 DEF Srv!Restart, NoneLeft
<1>7. ASSUME NEW n, servers' = Srv!Ended({n}) PROVE NoneLeft' BY <1>2, <1>7 DEF NoneLeft
<1>8. ASSUME NEW loaded, Srv!Boot({}, loaded) PROVE NoneLeft' BY <1>1, <1>8 DEF Srv!Boot, NoneLeft
<1>9. CASE UNCHANGED servers BY <1>3, <1>9
<1>10. CASE \E i \in Srv!Instance : Srv!CreateOn(i) \/ Srv!CreateAnywhere(i)
  BY <1>4, <1>5, <1>10 DEF Srv!CreateOn, Srv!CreateAnywhere, Srv!Create
<1>11. CASE \E i \in config : Srv!Start(i) \/ Srv!Restart(i) BY <1>4, <1>5, <1>6, <1>11 DEF Srv!Start
<1>12. CASE \E n \in Names : Srv!Stop(n) \/ Srv!Delete(n) BY <1>7, <1>12 DEF Srv!Stop, Srv!Delete, Srv!Forgotten
<1>13. CASE \/ \E s \in servers : Srv!Exit(s)
           \/ \E p \in Srv!TcpPorts : Srv!Foreign(p)
  BY <1>3, <1>13 DEF Srv!Exit, Srv!Foreign
<1>14. CASE Srv!Reboot \/ Srv!Killed \/ Srv!Unreadable
  BY <1>8, <1>14 DEF Srv!Reboot, Srv!Killed, Srv!Unreadable
<1> QED BY <1>9, <1>10, <1>11, <1>12, <1>13, <1>14 DEF Srv!Next, Srv!vars

(* What the list calls stopped does not run, but for what is ending: after   *)
(* failed starts, restarts that met their own old server, and daemons that   *)
(* were told to end; as long as none is killed.                              *)
THEOREM StoppedIsStopped ==
  ASSUME "kill" \notin ServicesFaults PROVE Srv!Spec => []Srv!UnlistedStopped
<1>1. Srv!Init => NoneLeft BY DEF Srv!Init, NoneLeft
<1>2. ServersInv /\ NoneLeft => Srv!UnlistedStopped
  <2> SUFFICES ASSUME ServersInv, NoneLeft, NEW l \in Srv!list, ~l.running,
                      NEW s \in servers, s.name = l.name, s.state # "dying"
               PROVE  FALSE
    BY DEF Srv!UnlistedStopped
  <2>1. s.state = "held" BY DEF NoneLeft
  <2>2. s.name \in running BY <2>1 DEF ServersInv, HeldOfInstance
  <2>3. \E i \in config : l.name = i.name /\ l.running = (i.name \in running) BY DEF Srv!list
  <2> QED BY <2>2, <2>3
<1> QED BY <1>1, <1>2, NoneLeftNext, ServersStart, ServersKeep, PTL DEF Srv!Spec

(* What a request changes of the names in memory and in the file. *)
LEMMA DurableNext ==
  ASSUME "unreadable" \notin ServicesFaults PROVE Srv!Durable /\ [Srv!Next]_Srv!vars => Srv!Durable'
<1> SUFFICES ASSUME Srv!Durable, [Srv!Next]_Srv!vars PROVE Srv!Durable' OBVIOUS
<1>1. ASSUME NEW i \in Srv!Instance, Srv!Create(i) PROVE Srv!Durable'
  <2>1. i.name \notin Srv!NamesOf(config) /\ gone' = gone \ {i.name} BY <1>1 DEF Srv!Create
  <2>2. CASE UNCHANGED <<config, saved, made>> BY <2>1, <2>2 DEF Srv!Durable
  <2>3. CASE Srv!Stored(i) /\ made' = IF saved' # saved THEN made \cup {i.name} ELSE made
    <3>1. config' = config \cup {i} /\ saved' \in {config', saved} BY <2>3 DEF Srv!Stored, Srv!Save
    <3>2. Srv!NamesOf(config') = Srv!NamesOf(config) \cup {i.name} BY <3>1 DEF Srv!NamesOf
    <3>3. CASE saved' = saved BY <2>1, <2>3, <3>2, <3>3 DEF Srv!Durable
    <3>4. CASE saved' = config' BY <2>1, <2>3, <3>2, <3>4 DEF Srv!Durable
    <3> QED BY <3>1, <3>3, <3>4
  <2> QED BY <1>1, <2>2, <2>3 DEF Srv!Create
<1>2. ASSUME NEW n \in Names, Srv!Delete(n) PROVE Srv!Durable'
  <2>1. /\ config' = {i \in config : i.name # n} /\ saved' \in {config', saved}
        /\ made' = made \ {n} /\ gone' = IF n \notin Srv!NamesOf(saved') THEN gone \cup {n} ELSE gone
    BY <1>2 DEF Srv!Delete, Srv!Save
  <2>2. Srv!NamesOf(config') = Srv!NamesOf(config) \ {n} BY <2>1 DEF Srv!NamesOf
  <2>3. CASE saved' = saved BY <2>1, <2>2, <2>3 DEF Srv!Durable
  <2>4. CASE saved' = config' BY <2>1, <2>2, <2>4 DEF Srv!Durable
  <2> QED BY <2>1, <2>3, <2>4
<1>3. ASSUME NEW kept, Srv!Boot(kept, saved) PROVE Srv!Durable'
  <2>1. config' = saved /\ UNCHANGED <<saved, made, gone>> BY <1>3 DEF Srv!Boot
  <2> QED BY <2>1 DEF Srv!Durable
<1>4. CASE UNCHANGED <<config, saved, made, gone>> BY <1>4 DEF Srv!Durable
<1>5. ASSUME \E i \in config : Srv!Start(i) \/ Srv!Restart(i) PROVE UNCHANGED <<config, saved, made, gone>>
  BY <1>5 DEF Srv!Start, Srv!Restart
<1>6. ASSUME \/ \E n \in Names : Srv!Stop(n)
             \/ \E s \in servers : Srv!Exit(s)
             \/ \E p \in Srv!TcpPorts : Srv!Foreign(p)
             \/ UNCHANGED Srv!vars
      PROVE  UNCHANGED <<config, saved, made, gone>>
  BY <1>6 DEF Srv!Stop, Srv!Exit, Srv!Foreign, Srv!vars
<1>7. ~Srv!Unreadable BY DEF Srv!Unreadable
<1> QED BY <1>1, <1>2, <1>3, <1>4, <1>5, <1>6, <1>7 DEF Srv!Next, Srv!CreateOn, Srv!CreateAnywhere,
                                                        Srv!Reboot, Srv!Killed

(* An instance whose creation was answered with success is in memory and in  *)
(* the file until it is asked to be deleted, and one that was deleted never  *)
(* comes back: for every order of requests, failed saves, failed starts and  *)
(* daemons killed, as long as the file can be read.                          *)
THEOREM PromisesKept ==
  ASSUME "unreadable" \notin ServicesFaults PROVE Srv!Spec => []Srv!Durable
<1>1. Srv!Init => Srv!Durable BY DEF Srv!Init, Srv!Durable, Srv!NamesOf
<1> QED BY <1>1, DurableNext, PTL DEF Srv!Spec

-----------------------------------------------------------------------------
(* The dumps receiver                                                        *)

Breakpoint == [at : {"idle", "waiting", "broken", "dropping", "done"},
               token : Tokens \cup {None}, got : Answers \cup {None}, early : BOOLEAN]
Post == [at : {"idle", "stamped", "buffered", "done"}, id : Nat]
Viewer == [at : {"idle", "opened", "streams"}, live : BOOLEAN,
           queue : Seq(Nat), shown : Seq(Nat)]

BreakpointsOK ==
  /\ pending \in [Tokens -> Pauses \cup {None}]
  /\ pauses \in [Pauses -> Breakpoint]

StreamOK ==
  /\ posts \in [Posts -> Post]
  /\ next_id \in Nat
  /\ ring \in Seq(Nat)
  /\ viewers \in [Viewers -> Viewer]

(* A request has its token to itself until it has gone on. *)
OwnToken ==
  \A p, q \in Pauses : p # q /\ pauses[p].token # None /\ pauses[p].token = pauses[q].token
                         => pauses[p].at = "done" \/ pauses[q].at = "done"

(* A request that waits for its answer has its sender in the map. *)
Reachable ==
  \A p \in Pauses : /\ pauses[p].at # "idle" => pauses[p].token # None
                    /\ pauses[p].at = "waiting" /\ pauses[p].got = None
                         => pending[pauses[p].token] = p

(* What is in the map came there with its token. *)
Registered ==
  \A t \in Tokens : pending[t] # None => /\ pauses[pending[t]].token = t
                                         /\ pauses[pending[t]].at # "idle"

BreakInv == /\ BreakpointsOK /\ OwnToken /\ Reachable /\ Registered
            /\ Receiver!HeldUntilResumed

(* What has been put into the ring is there, or was cleared. *)
RingHolds ==
  \A d \in Posts : posts[d].at \in {"buffered", "done"} => posts[d].id \in Range(ring) \cup cleared

(* What has been sent to a viewer is in front of it. *)
ViewerHolds ==
  \A v \in Viewers :
    /\ viewers[v].at # "idle" => viewers[v].live
    /\ viewers[v].at = "streams" => \A d \in Posts : posts[d].at = "done" =>
         posts[d].id \in Range(viewers[v].shown) \cup Range(viewers[v].queue) \cup cleared

StreamInv == StreamOK /\ RingHolds /\ ViewerHolds

-------------------------------------------------------------------------------
(* Breakpoints *)

(* A map in which everybody who waits is found breaks nobody. *)
LEMMA NobodyBroken ==
  ASSUME NEW ps, ps \in [Pauses -> Breakpoint], NEW map,
         \A p \in Pauses : ps[p].at = "waiting" /\ ps[p].got = None => map[ps[p].token] = p
  PROVE  Receiver!Settled(ps, map) = ps
BY DEF Receiver!Settled

LEMMA PauseKeeps ==
  ASSUME Named, "reuse" \notin DumpsFaults, BreakInv, NEW p \in Pauses, NEW token \in Tokens, Receiver!Pause(p, token)
  PROVE  /\ BreakInv' /\ pauses'[p].at = "waiting" /\ pauses'[p].got = pauses[p].got
         /\ \A q \in Pauses \ {p} : pauses'[q] = pauses[q]
<1> USE DEF BreakInv, BreakpointsOK, Named
<1> DEFINE ps == [pauses EXCEPT ![p] = [@ EXCEPT !.at = "waiting", !.token = token]]
<1>1. /\ pauses[p].at = "idle" /\ pending' = [pending EXCEPT ![token] = p]
      /\ pauses' = Receiver!Settled(ps, pending')
      /\ \A q \in Pauses : pauses[q].token # token \/ pauses[q].at = "done"
  BY DEF Receiver!Pause, Receiver!MayUse
<1> DEFINE held == [pauses[p] EXCEPT !.at = "waiting", !.token = token]
<1>0. /\ held \in Breakpoint /\ held.at = "waiting" /\ held.token = token
      /\ held.got = pauses[p].got /\ held.early = pauses[p].early
  BY DEF Breakpoint
<1>a. ps = [pauses EXCEPT ![p] = held] OBVIOUS
<1> HIDE DEF held
<1>2. /\ ps \in [Pauses -> Breakpoint]
      /\ ps[p].at = "waiting" /\ ps[p].token = token /\ ~ps[p].early /\ ps[p].got = pauses[p].got
      /\ \A q \in Pauses \ {p} : ps[q] = pauses[q]
  BY <1>0, <1>a DEF Receiver!HeldUntilResumed
<1>3. pending'[token] = p /\ \A t \in Tokens \ {token} : pending'[t] = pending[t] BY <1>1
<1> HIDE DEF ps
<1>4. \A q \in Pauses : ps[q].at = "waiting" /\ ps[q].got = None => pending'[ps[q].token] = q
  BY <1>1, <1>2, <1>3 DEF Reachable, Breakpoint
<1>b. pauses' = Receiver!Settled(ps, pending') /\ ps \in [Pauses -> Breakpoint] BY <1>1, <1>2
<1>5. pauses' = ps BY ONLY <1>b, <1>4, NobodyBroken
<1>6. BreakpointsOK' BY <1>1, <1>2, <1>5
<1>7. OwnToken' BY <1>1, <1>2, <1>5 DEF OwnToken
<1>8. Reachable' BY <1>2, <1>4, <1>5 DEF Reachable
<1>9. Registered' BY <1>1, <1>2, <1>3, <1>5 DEF Registered
<1>10. Receiver!HeldUntilResumed' BY <1>2, <1>5 DEF Receiver!HeldUntilResumed
<1> QED BY <1>2, <1>5, <1>6, <1>7, <1>8, <1>9, <1>10

LEMMA ResumeKeeps ==
  ASSUME Named, BreakInv, NEW token \in Tokens, NEW action \in Answers, Receiver!Resume(token, action)
  PROVE  /\ BreakInv' /\ pauses'[pending[token]].at # "idle"
         /\ \A q \in Pauses \ {pending[token]} : pauses'[q] = pauses[q]
<1> USE DEF BreakInv, BreakpointsOK, Named
<1> DEFINE told == IF pauses[pending[token]].at = "waiting"
                   THEN [pauses EXCEPT ![pending[token]].got = action] ELSE pauses
<1>1. PICK p \in Pauses : p = pending[token] BY DEF Receiver!Resume
<1>2. /\ pending' = [pending EXCEPT ![token] = None] /\ pauses' = Receiver!Settled(told, pending')
      /\ pauses[p].token = token /\ pauses[p].at # "idle"
  BY <1>1 DEF Receiver!Resume, Receiver!Resumed, Registered
<1>3. /\ told \in [Pauses -> Breakpoint]
      /\ told[p].at = pauses[p].at /\ told[p].token = token /\ told[p].early = pauses[p].early
      /\ told[p].at = "waiting" => told[p].got # None
      /\ \A q \in Pauses \ {p} : told[q] = pauses[q]
  BY <1>1, <1>2 DEF Breakpoint
<1>4. pending'[token] = None /\ \A t \in Tokens \ {token} : pending'[t] = pending[t] BY <1>2
<1> HIDE DEF told
<1>5. \A q \in Pauses : told[q].at = "waiting" /\ told[q].got = None => pending'[told[q].token] = q
  BY <1>1, <1>2, <1>3, <1>4 DEF Reachable, Breakpoint
<1>b. pauses' = Receiver!Settled(told, pending') /\ told \in [Pauses -> Breakpoint] BY ONLY <1>2, <1>3
<1>6. pauses' = told BY ONLY <1>b, <1>5, NobodyBroken
<1>7. BreakpointsOK' BY <1>2, <1>3, <1>6
<1>8. OwnToken' BY <1>2, <1>3, <1>6 DEF OwnToken
<1>9. Reachable' BY <1>2, <1>3, <1>5, <1>6 DEF Reachable
<1>10. Registered' BY <1>2, <1>3, <1>4, <1>6 DEF Registered
<1>11. Receiver!HeldUntilResumed' BY <1>3, <1>6 DEF Receiver!HeldUntilResumed
<1> QED BY <1>1, <1>2, <1>3, <1>6, <1>7, <1>8, <1>9, <1>10, <1>11

(* A request goes on, and with it what the map holds under its token. *)
LEMMA GoesOnKeeps ==
  ASSUME Named, BreakInv, NEW p \in Pauses, Receiver!GoesOn(p)
  PROVE  /\ BreakInv' /\ pauses'[p].at = "done"
         /\ \A q \in Pauses \ {p} : pauses'[q] = pauses[q]
<1> USE DEF BreakInv, BreakpointsOK, Named
<1> DEFINE ps == [pauses EXCEPT ![p].at = "done"]
<1>1. /\ pauses[p].at = "dropping" /\ pending' = [pending EXCEPT ![pauses[p].token] = None]
      /\ pauses' = Receiver!Settled(ps, pending')
  BY DEF Receiver!GoesOn, Receiver!Dropped
<1>2. /\ ps \in [Pauses -> Breakpoint]
      /\ ps[p].at = "done" /\ ps[p].token = pauses[p].token /\ ps[p].early = pauses[p].early
      /\ \A q \in Pauses \ {p} : ps[q] = pauses[q]
  BY DEF Breakpoint
<1>3. pauses[p].token \in Tokens BY <1>1 DEF Reachable, Breakpoint
<1>4. /\ pending'[pauses[p].token] = None
      /\ \A t \in Tokens \ {pauses[p].token} : pending'[t] = pending[t]
  BY <1>1, <1>3
<1> HIDE DEF ps
<1>5. \A q \in Pauses : ps[q].at = "waiting" /\ ps[q].got = None => pending'[ps[q].token] = q
  BY <1>1, <1>2, <1>3, <1>4 DEF Reachable, OwnToken, Breakpoint
<1>b. pauses' = Receiver!Settled(ps, pending') /\ ps \in [Pauses -> Breakpoint] BY ONLY <1>1, <1>2
<1>6. pauses' = ps BY ONLY <1>b, <1>5, NobodyBroken
<1>7. BreakpointsOK' BY <1>1, <1>2, <1>6
<1>8. OwnToken' BY <1>1, <1>2, <1>6 DEF OwnToken
<1>9. Reachable' BY <1>1, <1>2, <1>5, <1>6 DEF Reachable
<1>10. Registered' BY <1>2, <1>4, <1>6 DEF Registered
<1>11. Receiver!HeldUntilResumed' BY <1>2, <1>6 DEF Receiver!HeldUntilResumed
<1> QED BY <1>2, <1>6, <1>7, <1>8, <1>9, <1>10, <1>11

(* A request is answered, gives up or goes away; the map stays. *)
LEMMA AloneKeeps ==
  ASSUME Named, BreakInv, NEW p \in Pauses, Receiver!Answered(p) \/ Receiver!GivesUp(p) \/ Receiver!Disconnect(p)
  PROVE  BreakInv'
<1> USE DEF BreakInv, BreakpointsOK, Named
<1>1. /\ pauses[p].at = "waiting" /\ pending' = pending
      /\ \A q \in Pauses \ {p} : pauses'[q] = pauses[q]
      /\ pauses' \in [Pauses -> Breakpoint]
      /\ pauses'[p].at \in {"done", "dropping"} /\ pauses'[p].token = pauses[p].token
      /\ ~pauses'[p].early
  BY DEF Receiver!Answered, Receiver!GivesUp, Receiver!Disconnect, Receiver!TimeUp,
         Receiver!HeldUntilResumed, Breakpoint
<1>2. OwnToken' BY <1>1 DEF OwnToken
<1>3. Reachable' BY <1>1 DEF Reachable
<1>4. Registered' BY <1>1 DEF Registered
<1>5. Receiver!HeldUntilResumed' BY <1>1 DEF Receiver!HeldUntilResumed
<1> QED BY <1>1, <1>2, <1>3, <1>4, <1>5

LEMMA BreakNext ==
  ASSUME Named, "reuse" \notin DumpsFaults PROVE BreakInv /\ [Receiver!Next]_Receiver!vars => BreakInv'
<1> SUFFICES ASSUME BreakInv, [Receiver!Next]_Receiver!vars PROVE BreakInv' OBVIOUS
<1>1. CASE UNCHANGED <<pending, pauses>>
  BY <1>1 DEF BreakInv, BreakpointsOK, OwnToken, Reachable, Registered, Receiver!HeldUntilResumed
<1>2. UNCHANGED <<pending, pauses>> \/
      \/ \E p \in Pauses, token \in Tokens : Receiver!Pause(p, token)
      \/ \E token \in Tokens, action \in Answers : Receiver!Resume(token, action)
      \/ \E p \in Pauses : Receiver!Answered(p) \/ Receiver!GivesUp(p) \/ Receiver!GoesOn(p) \/ Receiver!Disconnect(p)
  BY DEF Receiver!Next, Receiver!vars, Answers, Receiver!Stamp, Receiver!Buffer, Receiver!Broadcast,
         Receiver!Clear, Receiver!Open, Receiver!Show, Receiver!breakpoints
<1> QED BY <1>1, <1>2, PauseKeeps, ResumeKeeps, GoesOnKeeps, AloneKeeps

LEMMA BreakInit == Named /\ Receiver!Init => BreakInv
BY DEF Named, Receiver!Init, BreakInv, BreakpointsOK, Breakpoint, OwnToken, Reachable, Registered,
       Receiver!HeldUntilResumed

(* As long as every site that pauses gives its breakpoint a token of its     *)
(* own, no resume, timeout or hang-up of one frees another.                  *)
THEOREM HeldByOwn ==
  ASSUME Named, "reuse" \notin DumpsFaults PROVE Receiver!Spec => []Receiver!HeldUntilResumed
<1>1. BreakInv => Receiver!HeldUntilResumed BY DEF BreakInv
<1> QED BY <1>1, BreakInit, BreakNext, PTL DEF Receiver!Spec

(* A request that has not paused has no answer, and the map holds only those *)
(* that still wait for theirs.                                               *)
LeakInv == /\ BreakInv /\ Receiver!NoLeak
           /\ \A p \in Pauses : pauses[p].at = "idle" => pauses[p].got = None

LEMMA LeakPause ==
  ASSUME Named, "reuse" \notin DumpsFaults, LeakInv, NEW p \in Pauses, NEW token \in Tokens, Receiver!Pause(p, token)
  PROVE  LeakInv'
<1> USE DEF LeakInv
<1>1. /\ BreakInv' /\ pauses'[p].at = "waiting" /\ pauses'[p].got = pauses[p].got
      /\ \A q \in Pauses \ {p} : pauses'[q] = pauses[q]
  BY PauseKeeps
<1>2. pauses[p].at = "idle" /\ pending' = [pending EXCEPT ![token] = p] BY DEF Receiver!Pause
<1>3. pending \in [Tokens -> Pauses \cup {None}] /\ None \notin Pauses
  BY DEF BreakInv, BreakpointsOK, Named
<1>4. \A t \in Tokens : pending[t] # None => pending[t] # p BY <1>2, <1>3 DEF Receiver!NoLeak
<1>5. Receiver!NoLeak' BY <1>1, <1>2, <1>3, <1>4 DEF Receiver!NoLeak
<1>6. \A q \in Pauses : pauses'[q].at = "idle" => pauses'[q].got = None BY <1>1
<1> QED BY <1>1, <1>5, <1>6

(* Whatever a resume or a site that goes on frees, the map let go of it. *)
LEMMA LeakFree ==
  ASSUME Named, LeakInv, NEW token \in Tokens, NEW p \in Pauses, pauses[p].token = token,
         pending' = [pending EXCEPT ![token] = None], BreakInv',
         pauses'[p].at # "idle", \A q \in Pauses \ {p} : pauses'[q] = pauses[q]
  PROVE  LeakInv'
<1> USE DEF LeakInv
<1>1. pending \in [Tokens -> Pauses \cup {None}] /\ None \notin Pauses
  BY DEF BreakInv, BreakpointsOK, Named
<1>2. \A t \in Tokens : pending'[t] # None => t # token /\ pending'[t] = pending[t] BY <1>1
<1>3. \A t \in Tokens : t # token => pending[t] # p BY <1>1 DEF Registered, BreakInv
<1>4. Receiver!NoLeak' BY <1>1, <1>2, <1>3 DEF Receiver!NoLeak
<1>5. \A q \in Pauses : pauses'[q].at = "idle" => pauses'[q].got = None OBVIOUS
<1> QED BY <1>4, <1>5

LEMMA LeakResume ==
  ASSUME Named, LeakInv, NEW token \in Tokens, NEW action \in Answers, Receiver!Resume(token, action)
  PROVE  LeakInv'
<1>1. PICK p \in Pauses : p = pending[token] BY DEF Receiver!Resume, LeakInv, BreakInv, BreakpointsOK
<1>2. pending' = [pending EXCEPT ![token] = None] /\ pauses[p].token = token
  BY <1>1 DEF Receiver!Resume, Receiver!Resumed, Registered, LeakInv, BreakInv
<1>3. /\ BreakInv' /\ pauses'[p].at # "idle"
      /\ \A q \in Pauses \ {p} : pauses'[q] = pauses[q]
  BY <1>1, ResumeKeeps DEF LeakInv
<1> QED BY <1>2, <1>3, LeakFree

LEMMA LeakGoesOn ==
  ASSUME Named, LeakInv, NEW p \in Pauses, Receiver!GoesOn(p) PROVE LeakInv'
<1>1. pauses[p].at = "dropping" /\ pending' = [pending EXCEPT ![pauses[p].token] = None]
  BY DEF Receiver!GoesOn, Receiver!Dropped
<1>2. PICK token \in Tokens : token = pauses[p].token
  BY <1>1 DEF Reachable, Breakpoint, LeakInv, BreakInv, BreakpointsOK
<1>3. /\ BreakInv' /\ pauses'[p].at # "idle"
      /\ \A q \in Pauses \ {p} : pauses'[q] = pauses[q]
  BY GoesOnKeeps DEF LeakInv
<1> QED BY <1>1, <1>2, <1>3, LeakFree

(* An answered request is out of the map already. *)
LEMMA LeakAlone ==
  ASSUME Named, LeakInv, NEW p \in Pauses, Receiver!Answered(p) \/ Receiver!GivesUp(p)
  PROVE  LeakInv'
<1> USE DEF LeakInv, BreakInv, BreakpointsOK, Named
<1>1. BreakInv' BY AloneKeeps
<1>2. /\ pending' = pending
      /\ \A q \in Pauses : q # p => pauses'[q] = pauses[q]
      /\ pauses'[p].got = pauses[p].got
      /\ \/ pauses[p].got # None /\ pauses'[p].at = "done"
         \/ pauses'[p].at = "dropping"
  BY DEF Receiver!Answered, Receiver!GivesUp, Breakpoint
<1>3. Receiver!NoLeak' BY <1>2 DEF Receiver!NoLeak
<1>4. \A q \in Pauses : pauses'[q].at = "idle" => pauses'[q].got = None BY <1>2
<1> QED BY <1>1, <1>3, <1>4

LEMMA LeakNext ==
  ASSUME Named, "reuse" \notin DumpsFaults, "disconnect" \notin DumpsFaults
  PROVE  LeakInv /\ [Receiver!Next]_Receiver!vars => LeakInv'
<1> SUFFICES ASSUME LeakInv, [Receiver!Next]_Receiver!vars PROVE LeakInv' OBVIOUS
<1>1. CASE UNCHANGED <<pending, pauses>>
  BY <1>1 DEF LeakInv, BreakInv, BreakpointsOK, OwnToken, Reachable, Registered, Receiver!HeldUntilResumed,
              Receiver!NoLeak
<1>2. UNCHANGED <<pending, pauses>> \/
      \/ \E p \in Pauses, token \in Tokens : Receiver!Pause(p, token)
      \/ \E token \in Tokens, action \in Answers : Receiver!Resume(token, action)
      \/ \E p \in Pauses : Receiver!Answered(p) \/ Receiver!GivesUp(p) \/ Receiver!GoesOn(p)
  BY DEF Receiver!Next, Receiver!vars, Answers, Receiver!Stamp, Receiver!Buffer, Receiver!Broadcast,
         Receiver!Clear, Receiver!Open, Receiver!Show, Receiver!breakpoints, Receiver!Disconnect
<1> QED BY <1>1, <1>2, LeakPause, LeakResume, LeakGoesOn, LeakAlone

LEMMA LeakInit == Named /\ Receiver!Init => LeakInv
<1> SUFFICES ASSUME Named, Receiver!Init PROVE LeakInv OBVIOUS
<1>1. BreakInv BY BreakInit
<1> QED BY <1>1 DEF LeakInv, Receiver!Init, Receiver!NoLeak

(* As long as tokens are not shared and no site hangs up at its breakpoint,  *)
(* the map of pending pauses holds nobody who has gone on.                   *)
THEOREM NothingLeaks ==
  ASSUME Named, "reuse" \notin DumpsFaults, "disconnect" \notin DumpsFaults PROVE Receiver!Spec => []Receiver!NoLeak
<1>1. LeakInv => Receiver!NoLeak BY DEF LeakInv
<1> QED BY <1>1, LeakInit, LeakNext, PTL DEF Receiver!Spec

-------------------------------------------------------------------------------
(* Payloads *)

(* What an element more, or one less, does to what a sequence holds. *)
LEMMA Appended ==
  ASSUME NEW s \in Seq(Nat), NEW id \in Nat
  PROVE  Append(s, id) \in Seq(Nat) /\ Range(Append(s, id)) = Range(s) \cup {id}
<1>1. /\ Append(s, id) \in Seq(Nat) /\ Len(Append(s, id)) = Len(s) + 1
      /\ \A i \in 1 .. Len(s) : Append(s, id)[i] = s[i]
      /\ Append(s, id)[Len(s) + 1] = id
  OBVIOUS
<1>2. DOMAIN s = 1 .. Len(s) /\ DOMAIN Append(s, id) = 1 .. Len(s) + 1 BY <1>1
<1>3. Len(s) \in Nat OBVIOUS
<1>4. 1 .. Len(s) + 1 = (1 .. Len(s)) \cup {Len(s) + 1} BY <1>3
<1> QED BY <1>1, <1>2, <1>4 DEF Range

LEMMA Shortened ==
  ASSUME NEW s \in Seq(Nat), s # <<>>
  PROVE  /\ Tail(s) \in Seq(Nat) /\ Head(s) \in Nat
         /\ Range(Tail(s)) \cup {Head(s)} = Range(s)
<1>1. /\ Tail(s) \in Seq(Nat) /\ Len(Tail(s)) = Len(s) - 1 /\ Head(s) = s[1]
      /\ \A i \in 1 .. Len(s) - 1 : Tail(s)[i] = s[i + 1]
  OBVIOUS
<1>2. Len(s) \in Nat /\ Len(s) # 0 OBVIOUS
<1>3. DOMAIN s = 1 .. Len(s) /\ DOMAIN Tail(s) = 1 .. Len(s) - 1 BY <1>1, <1>2
<1>4. \A x \in Range(s) : x \in Range(Tail(s)) \cup {Head(s)}
  <2> SUFFICES ASSUME NEW i \in 1 .. Len(s) PROVE s[i] \in Range(Tail(s)) \cup {Head(s)}
    BY <1>3 DEF Range
  <2>1. CASE i = 1 BY <2>1, <1>1
  <2>2. CASE i # 1
    <3>1. i - 1 \in 1 .. Len(s) - 1 /\ s[i] = Tail(s)[i - 1] BY <2>2, <1>1, <1>2
    <3> QED BY <3>1, <1>3 DEF Range
  <2> QED BY <2>1, <2>2
<1>5. \A x \in Range(Tail(s)) : x \in Range(s)
  <2> SUFFICES ASSUME NEW i \in 1 .. Len(s) - 1 PROVE Tail(s)[i] \in Range(s) BY <1>3 DEF Range
  <2>1. i + 1 \in 1 .. Len(s) /\ Tail(s)[i] = s[i + 1] BY <1>1, <1>2
  <2> QED BY <2>1, <1>3 DEF Range
<1>6. Head(s) \in Range(s) BY <1>1, <1>2, <1>3 DEF Range
<1>7. Head(s) \in Nat BY <1>1, <1>2
<1> QED BY <1>1, <1>4, <1>5, <1>6, <1>7

(* A post goes on: it is in the ring before it is done. *)
LEMMA StampKeeps ==
  ASSUME StreamInv, NEW d \in Posts, Receiver!Stamp(d) PROVE StreamInv'
<1> USE DEF StreamInv, StreamOK
<1>1. /\ UNCHANGED <<ring, viewers, cleared>> /\ next_id' \in Nat
      /\ \A e \in Posts \ {d} : posts'[e] = posts[e]
      /\ posts' \in [Posts -> Post] /\ posts'[d].at = "stamped"
  BY DEF Receiver!Stamp, Post
<1>2. StreamOK' BY <1>1
<1>3. RingHolds' BY <1>1 DEF RingHolds
<1>4. ViewerHolds' BY <1>1 DEF ViewerHolds
<1> QED BY <1>2, <1>3, <1>4

LEMMA BufferKeeps ==
  ASSUME RingCap \in Nat \ {0}, StreamInv, NEW d \in Posts, Receiver!Buffer(d) PROVE StreamInv'
<1> USE DEF StreamInv, StreamOK
<1>1. /\ UNCHANGED <<next_id, viewers>> /\ cleared' = cleared \cup (Range(ring) \ Range(ring'))
      /\ \A e \in Posts \ {d} : posts'[e] = posts[e]
      /\ posts' \in [Posts -> Post] /\ posts'[d].at = "buffered" /\ posts'[d].id = posts[d].id
      /\ ring' = Receiver!Kept(posts[d].id) /\ posts[d].id \in Nat
  BY DEF Receiver!Buffer, Post, Receiver!Range, Range
<1>2. ring' \in Seq(Nat) /\ posts[d].id \in Range(ring')
  <2>1. CASE Len(ring) >= RingCap
    <3>1. ring # <<>> BY <2>1
    <3>2. Tail(ring) \in Seq(Nat) BY <3>1
    <3>3. ring' = Append(Tail(ring), posts[d].id) BY <1>1, <2>1 DEF Receiver!Kept
    <3> QED BY ONLY <1>1, <3>2, <3>3, Appended
  <2>2. CASE ~(Len(ring) >= RingCap) BY <1>1, <2>2, Appended DEF Receiver!Kept
  <2> QED BY <2>1, <2>2
<1>3. StreamOK' BY <1>1, <1>2
<1>4. RingHolds' BY <1>1, <1>2 DEF RingHolds
<1>5. ViewerHolds' BY <1>1 DEF ViewerHolds
<1> QED BY <1>3, <1>4, <1>5

LEMMA BroadcastKeeps ==
  ASSUME "slow" \notin DumpsFaults, StreamInv, NEW d \in Posts, Receiver!Broadcast(d) PROVE StreamInv'
<1> USE DEF StreamInv, StreamOK
<1>1. /\ UNCHANGED <<next_id, ring, cleared>>
      /\ \A e \in Posts \ {d} : posts'[e] = posts[e]
      /\ posts' \in [Posts -> Post] /\ posts'[d].id = posts[d].id
      /\ posts[d].at = "buffered" /\ posts[d].id \in Nat
  BY DEF Receiver!Broadcast, Post
<1>2. viewers' = [v \in Viewers |-> Receiver!Queued(v, posts[d].id)] BY DEF Receiver!Broadcast
<1>3. ASSUME NEW v \in Viewers
      PROVE  /\ viewers'[v] \in Viewer
             /\ viewers'[v].at = viewers[v].at /\ viewers'[v].live = viewers[v].live
             /\ viewers'[v].shown = viewers[v].shown
             /\ viewers[v].live => Range(viewers'[v].queue) = Range(viewers[v].queue) \cup {posts[d].id}
  <2>1. viewers[v] \in Viewer /\ viewers'[v] = Receiver!Queued(v, posts[d].id) BY <1>2
  <2>2. CASE ~viewers[v].live BY <2>1, <2>2 DEF Receiver!Queued
  <2>3. CASE viewers[v].live
    <3>1. ~(Len(viewers[v].queue) >= ChannelCap) BY <2>3 DEF Receiver!Broadcast
    <3>2. viewers'[v] = [viewers[v] EXCEPT !.queue = Append(viewers[v].queue, posts[d].id)]
      BY <2>1, <2>3, <3>1 DEF Receiver!Queued
    <3>3. viewers[v].queue \in Seq(Nat) BY <2>1 DEF Viewer
    <3>4. /\ Append(viewers[v].queue, posts[d].id) \in Seq(Nat)
          /\ Range(Append(viewers[v].queue, posts[d].id)) = Range(viewers[v].queue) \cup {posts[d].id}
      BY <1>1, <3>3, Appended
    <3> QED BY <2>1, <3>2, <3>4 DEF Viewer
  <2> QED BY <2>2, <2>3
<1>4. viewers' \in [Viewers -> Viewer] BY <1>2, <1>3
<1>5. StreamOK' BY <1>1, <1>4
<1>6. RingHolds' BY <1>1 DEF RingHolds
<1>7. ViewerHolds'
  <2>1. ASSUME NEW v \in Viewers PROVE viewers'[v].at # "idle" => viewers'[v].live
    BY <1>3 DEF ViewerHolds
  <2>2. ASSUME NEW v \in Viewers, viewers'[v].at = "streams", NEW e \in Posts, posts'[e].at = "done"
        PROVE  posts'[e].id \in Range(viewers'[v].shown) \cup Range(viewers'[v].queue) \cup cleared'
    <3>1. viewers[v].live /\ viewers[v].at = "streams" BY <1>3, <2>2 DEF ViewerHolds
    <3>2. /\ Range(viewers'[v].queue) = Range(viewers[v].queue) \cup {posts[d].id}
          /\ viewers'[v].shown = viewers[v].shown
      BY <1>3, <3>1
    <3>3. CASE e = d BY <1>1, <3>2, <3>3
    <3>4. CASE e # d BY <1>1, <2>2, <3>1, <3>2, <3>4 DEF ViewerHolds
    <3> QED BY <3>3, <3>4
  <2> QED BY <2>1, <2>2 DEF ViewerHolds
<1> QED BY <1>5, <1>6, <1>7

LEMMA ClearKeeps ==
  ASSUME StreamInv, Receiver!Clear PROVE StreamInv'
<1> USE DEF StreamInv, StreamOK
<1>1. UNCHANGED <<posts, next_id, viewers>> /\ cleared' = cleared \cup Range(ring) /\ ring' = <<>>
  BY DEF Receiver!Clear, Receiver!Range, Range
<1>2. StreamOK' BY <1>1
<1>3. RingHolds' BY <1>1 DEF RingHolds
<1>4. ViewerHolds' BY <1>1 DEF ViewerHolds
<1> QED BY <1>2, <1>3, <1>4

(* A viewer joins the channel, and then reads the ring. *)
LEMMA OpenKeeps ==
  ASSUME StreamInv, NEW v \in Viewers, Receiver!Open(v) PROVE StreamInv'
<1> USE DEF StreamInv, StreamOK
<1>1. /\ UNCHANGED <<posts, next_id, ring, cleared>>
      /\ \A u \in Viewers \ {v} : viewers'[u] = viewers[u]
      /\ viewers' \in [Viewers -> Viewer] /\ viewers'[v].live
      /\ viewers'[v].at = "streams" => viewers'[v].shown = ring
  <2>1. viewers[v] \in Viewer /\ viewers[v].at \in {"idle", "opened"} BY DEF Receiver!Open
  <2>2. /\ UNCHANGED <<posts, next_id, ring, cleared>>
        /\ viewers' = [viewers EXCEPT ![v] =
             [Receiver!Opening(viewers[v]) EXCEPT
                        !.at = IF viewers[v].at = "idle" THEN "opened" ELSE "streams"]]
    BY DEF Receiver!Open
  <2>3. CASE viewers[v].at = "idle"
    <3>1. viewers'[v] = [viewers[v] EXCEPT !.live = TRUE, !.at = "opened"]
      BY <2>1, <2>2, <2>3 DEF Receiver!Opening, Receiver!Joined, Viewer
    <3>2. viewers'[v] \in Viewer /\ viewers'[v].live /\ viewers'[v].at = "opened"
      BY <2>1, <3>1 DEF Viewer
    <3> QED BY <2>2, <3>2
  <2>4. CASE viewers[v].at = "opened"
    <3>1. viewers'[v] = [viewers[v] EXCEPT !.shown = ring, !.at = "streams"]
      BY <2>1, <2>2, <2>4 DEF Receiver!Opening, Receiver!Filled, Viewer
    <3>2. viewers'[v] \in Viewer /\ viewers'[v].live /\ viewers'[v].shown = ring
      BY <2>1, <2>4, <3>1 DEF Viewer, ViewerHolds
    <3> QED BY <2>2, <3>2
  <2> QED BY <2>1, <2>3, <2>4
<1>2. StreamOK' BY <1>1
<1>3. RingHolds' BY <1>1 DEF RingHolds
<1>4. ViewerHolds' BY <1>1 DEF ViewerHolds, RingHolds
<1> QED BY <1>2, <1>3, <1>4

LEMMA ShowKeeps ==
  ASSUME StreamInv, NEW v \in Viewers, Receiver!Show(v) PROVE StreamInv'
<1> USE DEF StreamInv, StreamOK
<1>1. viewers[v] \in Viewer /\ viewers[v].queue # <<>> /\ viewers[v].queue \in Seq(Nat)
  BY DEF Receiver!Show, Viewer
<1> DEFINE due == viewers[v].queue  shown == viewers[v].shown
<1>2. /\ Tail(due) \in Seq(Nat) /\ Head(due) \in Nat
      /\ Range(Tail(due)) \cup {Head(due)} = Range(due)
  BY <1>1, Shortened
<1>3. /\ Append(shown, Head(due)) \in Seq(Nat)
      /\ Range(Append(shown, Head(due))) = Range(shown) \cup {Head(due)}
  BY <1>1, <1>2, Appended DEF Viewer
<1>4. /\ UNCHANGED <<posts, next_id, ring, cleared>>
      /\ viewers' = [viewers EXCEPT ![v] =
           [viewers[v] EXCEPT !.shown = Append(shown, Head(due)), !.queue = Tail(due)]]
  BY <1>1 DEF Receiver!Show, Viewer
<1>5. /\ viewers' \in [Viewers -> Viewer] /\ viewers'[v].live = viewers[v].live
      /\ viewers'[v].at = viewers[v].at
      /\ viewers'[v].shown = Append(shown, Head(due)) /\ viewers'[v].queue = Tail(due)
      /\ \A u \in Viewers \ {v} : viewers'[u] = viewers[u]
  BY <1>1, <1>2, <1>3, <1>4 DEF Viewer
<1>6. Range(viewers'[v].shown) \cup Range(viewers'[v].queue) = Range(shown) \cup Range(due)
  BY <1>2, <1>3, <1>5
<1>7. StreamOK' BY <1>4, <1>5
<1>8. RingHolds' BY <1>4 DEF RingHolds
<1>9. ViewerHolds' BY <1>4, <1>5, <1>6 DEF ViewerHolds
<1> QED BY <1>7, <1>8, <1>9

LEMMA StreamNext ==
  ASSUME RingCap \in Nat \ {0}, "slow" \notin DumpsFaults
  PROVE  StreamInv /\ [Receiver!Next]_Receiver!vars => StreamInv'
<1> SUFFICES ASSUME StreamInv, [Receiver!Next]_Receiver!vars PROVE StreamInv' OBVIOUS
<1>1. CASE UNCHANGED Receiver!stream
  BY <1>1 DEF Receiver!stream, StreamInv, StreamOK, RingHolds, ViewerHolds
<1>2. ASSUME NEW p \in Pauses, \/ \E token \in Tokens : Receiver!Pause(p, token)
                               \/ Receiver!Answered(p) \/ Receiver!GivesUp(p)
                               \/ Receiver!GoesOn(p) \/ Receiver!Disconnect(p)
      PROVE  UNCHANGED Receiver!stream
  BY <1>2 DEF Receiver!Pause, Receiver!Answered, Receiver!GivesUp, Receiver!GoesOn, Receiver!Disconnect
<1>3. ASSUME NEW token \in Tokens, NEW action \in {"continue", "stop"}, Receiver!Resume(token, action)
      PROVE  UNCHANGED Receiver!stream
  BY <1>3 DEF Receiver!Resume
<1>4. UNCHANGED Receiver!vars => UNCHANGED Receiver!stream BY DEF Receiver!vars, Receiver!stream
<1> QED BY <1>1, <1>2, <1>3, <1>4, StampKeeps, BufferKeeps, BroadcastKeeps, ClearKeeps, OpenKeeps,
           ShowKeeps DEF Receiver!Next

LEMMA StreamInit == Receiver!Init => StreamInv
BY DEF Receiver!Init, StreamInv, StreamOK, RingHolds, ViewerHolds, Post, Viewer

(* A viewer the channel never outruns has seen, when nothing is queued for   *)
(* it, every payload that was answered and is still kept.                    *)
THEOREM NoneFallsBetween ==
  ASSUME RingCap \in Nat \ {0}, "slow" \notin DumpsFaults PROVE Receiver!Spec => []Receiver!SeesAll
<1>1. StreamInv => Receiver!SeesAll
  <2>1. Range(<<>>) = {} BY DEF Range
  <2> QED BY <2>1 DEF StreamInv, ViewerHolds, Receiver!SeesAll, Receiver!Range, Range
<1> QED BY <1>1, StreamInit, StreamNext, PTL DEF Receiver!Spec

-----------------------------------------------------------------------------
(* The mail sink                                                             *)

Connection == [at : {"command", "data"}, from : Addrs \cup {None}, rcpts : SUBSET Addrs, mailbox : Sink!Box]
Meaning == [from : Addrs \cup {None}, rcpts : SUBSET Addrs, user : Sink!Box]

MailTypes ==
  /\ conn \in [Conns -> Connection] /\ want \in [Conns -> Meaning]
  /\ seq \in Nat /\ clock \in Nat

(* The counter is past every name: the next is new, whatever the clock says. *)
NamesPast == \A n \in DOMAIN mails : n \in Nat \X Nat /\ n[2] < seq

(* A connection files under the name of its client, ...                      *)
SenderKnown == \A c \in Conns : conn[c].mailbox = want[c].user

(* ... so a clear has listed nothing but what it was asked to remove.        *)
ListedAsked == listed \subseteq excused

FiledInv == MailTypes /\ NamesPast /\ SenderKnown /\ ListedAsked /\ Sink!FiledUnderSender /\ Sink!QueuedKept

(* While a client has a transaction open, the connection holds its envelope. *)
Held(k, w) ==
  /\ w.from # None => k.from = w.from /\ k.rcpts = w.rcpts
  /\ k.at = "data" => w.from # None

TransactionHeld == \A c \in Conns : Held(conn[c], want[c])

EnvelopesMeant ==
  \A n \in DOMAIN mails : mails[n].from = mails[n].meant.from /\ mails[n].rcpts = mails[n].meant.rcpts

EnvelopeInv == MailTypes /\ NamesPast /\ TransactionHeld /\ EnvelopesMeant

-----------------------------------------------------------------------------
(* What a line of a client does to what is known of it. *)
LineOf(c) ==
  \/ \E user \in Sink!Box : Sink!Auth(c, user)
  \/ \E addr \in Addrs : Sink!MailFrom(c, addr) \/ Sink!RcptTo(c, addr)
  \/ \E header \in Sink!Box : Sink!Dot(c, header)
  \/ Sink!Rset(c) \/ Sink!Data(c) \/ Sink!Quit(c) \/ Sink!HangUp(c) \/ Sink!Binary(c)

LEMMA LineKnown ==
  ASSUME MailTypes, NEW c \in Conns, LineOf(c)
  PROVE  /\ conn' \in [Conns -> Connection] /\ want' \in [Conns -> Meaning]
         /\ \A d \in Conns \ {c} : conn'[d] = conn[d] /\ want'[d] = want[d]
         /\ conn[c].mailbox = want[c].user => conn'[c].mailbox = want'[c].user
         /\ "again" \notin MailFaults /\ Held(conn[c], want[c]) => Held(conn'[c], want'[c])
<1> DEFINE k == conn[c]  w == want[c]
           Known(k1, w1) == /\ k1 \in Connection /\ w1 \in Meaning
                            /\ k.mailbox = w.user => k1.mailbox = w1.user
                            /\ "again" \notin MailFaults /\ Held(k, w) => Held(k1, w1)
<1>0. k \in Connection /\ w \in Meaning BY DEF MailTypes
<1>a. SUFFICES \E k1 \in Connection, w1 \in Meaning :
                 conn' = [conn EXCEPT ![c] = k1] /\ want' = [want EXCEPT ![c] = w1] /\ Known(k1, w1)
  BY <1>0 DEF MailTypes
<1> USE DEF Connection, Meaning, Held
<1>b. conn = [conn EXCEPT ![c] = k] /\ want = [want EXCEPT ![c] = w] BY DEF MailTypes
<1>1. CASE \E user \in Sink!Box : Sink!Auth(c, user)
  <2>1. PICK user \in Sink!Box : Sink!Auth(c, user) BY <1>1
  <2> DEFINE k1 == [k EXCEPT !.mailbox = user]  w1 == [w EXCEPT !.user = user]
  <2>2. conn' = [conn EXCEPT ![c] = k1] /\ want' = [want EXCEPT ![c] = w1] BY <2>1 DEF Sink!Auth
  <2>3. Known(k1, w1) BY <1>0
  <2> QED BY <2>2, <2>3
<1>2. CASE \E addr \in Addrs : Sink!MailFrom(c, addr)
  <2>1. PICK addr \in Addrs : Sink!MailFrom(c, addr) BY <1>2
  <2> DEFINE k1 == [k EXCEPT !.from = addr, !.rcpts = {}]
             w1 == [from |-> addr, rcpts |-> {}, user |-> w.user]
  <2>2. conn' = [conn EXCEPT ![c] = k1] /\ want' = [want EXCEPT ![c] = w1] /\ k.at = "command"
    BY <2>1 DEF Sink!MailFrom, Sink!Begun, Sink!AtCommand
  <2>3. Known(k1, w1) BY <1>0, <2>2
  <2> QED BY <2>2, <2>3
<1>3. CASE \E addr \in Addrs : Sink!RcptTo(c, addr)
  <2>1. PICK addr \in Addrs : Sink!RcptTo(c, addr) BY <1>3
  <2> DEFINE k1 == [k EXCEPT !.rcpts = @ \cup {addr}]  w1 == [w EXCEPT !.rcpts = @ \cup {addr}]
  <2>2. conn' = [conn EXCEPT ![c] = k1] /\ want' = [want EXCEPT ![c] = w1] /\ w.from # None
    BY <2>1 DEF Sink!RcptTo
  <2>3. Known(k1, w1) BY <1>0, <2>2
  <2> QED BY <2>2, <2>3
<1>4. CASE \E header \in Sink!Box : Sink!Dot(c, header)
  <2> DEFINE k1 == [k EXCEPT !.at = "command"]  w1 == [w EXCEPT !.from = None, !.rcpts = {}]
  <2>2. conn' = [conn EXCEPT ![c] = k1] /\ want' = [want EXCEPT ![c] = w1] BY <1>4 DEF Sink!Dot
  <2>3. Known(k1, w1) BY <1>0
  <2> QED BY <2>2, <2>3
<1>5. CASE Sink!Rset(c)
  <2> DEFINE k1 == [k EXCEPT !.from = None, !.rcpts = {}]  w1 == [w EXCEPT !.from = None, !.rcpts = {}]
  <2>2. conn' = [conn EXCEPT ![c] = k1] /\ want' = [want EXCEPT ![c] = w1] /\ k.at = "command"
    BY <1>5 DEF Sink!Rset, Sink!Cleared, Sink!AtCommand
  <2>3. Known(k1, w1) BY <1>0, <2>2
  <2> QED BY <2>2, <2>3
<1>6. CASE Sink!Data(c)
  <2> DEFINE k1 == [k EXCEPT !.at = "data"]
  <2>2. conn' = [conn EXCEPT ![c] = k1] /\ want' = want /\ (w.from # None \/ "again" \in MailFaults)
    BY <1>6 DEF Sink!Data
  <2>3. Known(k1, w) BY <1>0, <2>2
  <2> QED BY <1>0, <1>b, <2>2, <2>3
<1>7. CASE Sink!Quit(c) \/ Sink!HangUp(c) \/ Sink!Binary(c)
  <2>1. conn' = [conn EXCEPT ![c] = Sink!Fresh] /\ want' = [want EXCEPT ![c] = Sink!NoWant]
    BY <1>7 DEF Sink!Quit, Sink!HangUp, Sink!Binary, Sink!Close
  <2>2. Known(Sink!Fresh, Sink!NoWant) BY DEF Sink!Fresh, Sink!NoWant, Sink!Box
  <2> QED BY <2>1, <2>2
<1> QED BY <1>1, <1>2, <1>3, <1>4, <1>5, <1>6, <1>7 DEF LineOf

LEMMA MailTyped == MailTypes /\ [Sink!Next]_Sink!vars => MailTypes'
<1> SUFFICES ASSUME MailTypes, [Sink!Next]_Sink!vars PROVE MailTypes' OBVIOUS
<1>1. ASSUME NEW c \in Conns, LineOf(c) PROVE MailTypes'
  <2>1. clock' = clock /\ seq' \in Nat
    BY <1>1 DEF MailTypes, LineOf, Sink!Auth, Sink!MailFrom, Sink!RcptTo, Sink!Dot, Sink!Rset, Sink!Data, Sink!Quit,
       Sink!HangUp, Sink!Binary, Sink!Store, Sink!Rest
  <2> QED BY <1>1, <2>1, LineKnown DEF MailTypes
<1>2. ASSUME NEW box, Sink!ClearLists(box) PROVE MailTypes' BY <1>2 DEF MailTypes, Sink!ClearLists
<1>3. ASSUME NEW n, Sink!ClearRemoves(n) PROVE MailTypes' BY <1>3 DEF MailTypes, Sink!ClearRemoves
<1>4. CASE Sink!Tick BY <1>4 DEF MailTypes, Sink!Tick
<1>5. CASE UNCHANGED Sink!vars BY <1>5 DEF MailTypes, Sink!vars
<1> QED BY <1>1, <1>2, <1>3, <1>4, <1>5 DEF Sink!Next, LineOf

(* What is stored is stored under a new name, with what is known of the      *)
(* connection, and the rest stays.                                           *)
LEMMA StoredNew ==
  ASSUME MailTypes, NamesPast, NEW c \in Conns, NEW whole, NEW header, Sink!Store(c, whole, header)
  PROVE  /\ Sink!NewName \notin DOMAIN mails
         /\ DOMAIN mails' = DOMAIN mails \cup {Sink!NewName}
         /\ \A n \in DOMAIN mails : mails'[n] = mails[n]
         /\ mails'[Sink!NewName].from = conn[c].from /\ mails'[Sink!NewName].rcpts = conn[c].rcpts
         /\ conn[c].mailbox # None \/ header = None => mails'[Sink!NewName].mailbox = conn[c].mailbox
         /\ mails'[Sink!NewName].meant = want[c]
         /\ mails'[Sink!NewName].nth = seq
         /\ NamesPast'
<1>1. Sink!NewName \in Nat \X Nat /\ Sink!NewName[2] = seq BY DEF MailTypes, Sink!NewName
<1>2. Sink!NewName \notin DOMAIN mails BY <1>1 DEF NamesPast, MailTypes
<1>3. seq' = seq + 1 BY DEF Sink!Store
<1>4. DOMAIN mails' = DOMAIN mails \cup {Sink!NewName} BY DEF Sink!Store
<1>5. NamesPast'
  <2> SUFFICES ASSUME NEW n \in DOMAIN mails' PROVE n \in Nat \X Nat /\ n[2] < seq' BY DEF NamesPast
  <2>1. CASE n \in DOMAIN mails BY <1>3, <2>1 DEF NamesPast, MailTypes
  <2>2. CASE n = Sink!NewName BY <1>1, <1>3, <2>2 DEF MailTypes
  <2> QED BY <1>4, <2>1, <2>2
<1> DEFINE mail == [from |-> conn[c].from, rcpts |-> conn[c].rcpts, whole |-> whole,
                    mailbox |-> IF conn[c].mailbox # None THEN conn[c].mailbox ELSE header,
                    meant |-> want[c], nth |-> seq]
<1>6. mails'[Sink!NewName] = mail BY DEF Sink!Store
<1>7. \A n \in DOMAIN mails : mails'[n] = mails[n] BY <1>2 DEF Sink!Store
<1>8. /\ mail.from = conn[c].from /\ mail.rcpts = conn[c].rcpts /\ mail.meant = want[c] /\ mail.nth = seq
      /\ mail.mailbox = IF conn[c].mailbox # None THEN conn[c].mailbox ELSE header
  OBVIOUS
<1> HIDE DEF mail
<1> QED BY <1>2, <1>4, <1>5, <1>6, <1>7, <1>8

(* A line that stores nothing. *)
Files(c) == Sink!HangUp(c) \/ \E header \in Sink!Box : Sink!Dot(c, header)

LEMMA QuietLine ==
  ASSUME NEW c \in Conns, LineOf(c), ~Files(c)
  PROVE  UNCHANGED <<mails, seq, clock, listed, queued, excused>>
BY DEF LineOf, Files, Sink!Auth, Sink!MailFrom, Sink!RcptTo, Sink!Rset, Sink!Data, Sink!Quit, Sink!Binary, Sink!Rest

LEMMA FiledNext ==
  ASSUME "header" \notin MailFaults PROVE FiledInv /\ [Sink!Next]_Sink!vars => FiledInv'
<1> SUFFICES ASSUME FiledInv, [Sink!Next]_Sink!vars PROVE FiledInv' OBVIOUS
<1> USE DEF FiledInv
<1>t. MailTypes' BY MailTyped
<1>a. ASSUME mails' = mails, queued' = queued, excused' = excused, listed' = listed, seq' = seq, SenderKnown'
      PROVE  FiledInv'
  BY <1>t, <1>a DEF NamesPast, ListedAsked, Sink!FiledUnderSender, Sink!QueuedKept
<1>1. ASSUME NEW c \in Conns, LineOf(c) PROVE FiledInv'
  <2>1. SenderKnown' BY <1>1, LineKnown DEF SenderKnown
  <2>2. CASE ~Files(c) BY <1>1, <1>a, <2>1, <2>2, QuietLine
  <2>3. CASE Files(c)
    <3>1. PICK whole \in BOOLEAN : /\ Sink!Store(c, whole, None) /\ excused' = excused /\ listed' = listed
                                   /\ queued' = queued \/ queued' = queued \cup {<<Sink!NewName, seq>>}
      BY <2>3 DEF Files, Sink!HangUp, Sink!Dot
    <3>2. /\ NamesPast'
          /\ DOMAIN mails' = DOMAIN mails \cup {Sink!NewName} /\ Sink!NewName \notin DOMAIN mails
          /\ \A n \in DOMAIN mails : mails'[n] = mails[n]
          /\ mails'[Sink!NewName].mailbox = conn[c].mailbox /\ mails'[Sink!NewName].meant = want[c]
          /\ mails'[Sink!NewName].nth = seq
      BY <3>1, StoredNew
    <3>3. Sink!FiledUnderSender' BY <3>2 DEF Sink!FiledUnderSender, SenderKnown
    <3>4. Sink!QueuedKept' BY <3>1, <3>2 DEF Sink!QueuedKept
    <3>5. ListedAsked' BY <3>1 DEF ListedAsked
    <3> QED BY <1>t, <2>1, <3>2, <3>3, <3>4, <3>5
  <2> QED BY <2>2, <2>3
<1>2. ASSUME NEW box \in Sink!Box, Sink!ClearLists(box) PROVE FiledInv'
  BY <1>t, <1>2 DEF Sink!ClearLists, Sink!Selected, Sink!MeantFor, Sink!FiledUnderSender, Sink!QueuedKept,
     NamesPast, SenderKnown, ListedAsked
<1>3. ASSUME NEW n \in listed, Sink!ClearRemoves(n) PROVE FiledInv'
  <2>1. n \in excused /\ excused' = excused /\ queued' = queued /\ seq' = seq BY <1>3 DEF Sink!ClearRemoves,
         ListedAsked
  <2>2. DOMAIN mails' = DOMAIN mails \ {n} /\ \A m \in DOMAIN mails' : mails'[m] = mails[m]
    BY <1>3 DEF Sink!ClearRemoves
  <2>3. NamesPast' BY <2>1, <2>2 DEF NamesPast
  <2>4. Sink!FiledUnderSender' BY <2>2 DEF Sink!FiledUnderSender
  <2>5. Sink!QueuedKept' BY <2>1, <2>2 DEF Sink!QueuedKept
  <2>6. SenderKnown' /\ ListedAsked' BY <1>3 DEF Sink!ClearRemoves, SenderKnown, ListedAsked
  <2> QED BY <1>t, <2>3, <2>4, <2>5, <2>6
<1>4. CASE Sink!Tick BY <1>a, <1>4 DEF Sink!Tick, SenderKnown
<1>5. CASE UNCHANGED Sink!vars BY <1>a, <1>5 DEF Sink!vars, SenderKnown
<1> QED BY <1>1, <1>2, <1>3, <1>4, <1>5 DEF Sink!Next, LineOf

LEMMA EnvelopeNext ==
  ASSUME "again" \notin MailFaults PROVE EnvelopeInv /\ [Sink!Next]_Sink!vars => EnvelopeInv'
<1> SUFFICES ASSUME EnvelopeInv, [Sink!Next]_Sink!vars PROVE EnvelopeInv' OBVIOUS
<1> USE DEF EnvelopeInv
<1>t. MailTypes' BY MailTyped
<1>a. ASSUME mails' = mails, seq' = seq, TransactionHeld' PROVE EnvelopeInv'
  BY <1>t, <1>a DEF NamesPast, EnvelopesMeant
<1>1. ASSUME NEW c \in Conns, LineOf(c) PROVE EnvelopeInv'
  <2>1. TransactionHeld' BY <1>1, LineKnown DEF TransactionHeld
  <2>2. CASE ~Files(c) BY <1>1, <1>a, <2>1, <2>2, QuietLine
  <2>3. CASE Files(c)
    <3>1. PICK whole \in BOOLEAN, header \in Sink!Box : Sink!Store(c, whole, header)
      BY <2>3 DEF Files, Sink!HangUp, Sink!Dot, Sink!Box
    <3>2. conn[c].at = "data" BY <2>3 DEF Files, Sink!HangUp, Sink!Dot
    <3>3. /\ NamesPast'
          /\ DOMAIN mails' = DOMAIN mails \cup {Sink!NewName}
          /\ \A n \in DOMAIN mails : mails'[n] = mails[n]
          /\ mails'[Sink!NewName].from = conn[c].from /\ mails'[Sink!NewName].rcpts = conn[c].rcpts
          /\ mails'[Sink!NewName].meant = want[c]
      BY <3>1, StoredNew
    <3>4. EnvelopesMeant' BY <3>2, <3>3 DEF EnvelopesMeant, TransactionHeld, Held
    <3> QED BY <1>t, <2>1, <3>3, <3>4
  <2> QED BY <2>2, <2>3
<1>2. ASSUME NEW box, Sink!ClearLists(box) PROVE EnvelopeInv'
  BY <1>a, <1>2 DEF Sink!ClearLists, TransactionHeld
<1>3. ASSUME NEW n \in listed, Sink!ClearRemoves(n) PROVE EnvelopeInv'
  <2>1. seq' = seq /\ DOMAIN mails' = DOMAIN mails \ {n} /\ \A m \in DOMAIN mails' : mails'[m] = mails[m]
    BY <1>3 DEF Sink!ClearRemoves
  <2>2. NamesPast' /\ EnvelopesMeant' BY <2>1 DEF NamesPast, EnvelopesMeant
  <2>3. TransactionHeld' BY <1>3 DEF Sink!ClearRemoves, TransactionHeld
  <2> QED BY <1>t, <2>2, <2>3
<1>4. CASE Sink!Tick BY <1>a, <1>4 DEF Sink!Tick, TransactionHeld
<1>5. CASE UNCHANGED Sink!vars BY <1>a, <1>5 DEF Sink!vars, TransactionHeld
<1> QED BY <1>1, <1>2, <1>3, <1>4, <1>5 DEF Sink!Next, LineOf

(* What was answered with "queued" stays until a clear of its own mailbox is *)
(* asked for, and a message is filed under the name its sender has, for any  *)
(* number of connections and messages in one millisecond; when no body       *)
(* carries the mailbox header itself.                                        *)
THEOREM QueuedStays ==
  ASSUME "header" \notin MailFaults PROVE Sink!Spec => [](Sink!QueuedKept /\ Sink!FiledUnderSender)
<1>1. Sink!Init => FiledInv
  BY DEF Sink!Init, Sink!Fresh, Sink!NoWant, Sink!Box, FiledInv, MailTypes, Connection, Meaning, NamesPast,
     SenderKnown, ListedAsked, Sink!FiledUnderSender, Sink!QueuedKept
<1>2. FiledInv => Sink!QueuedKept /\ Sink!FiledUnderSender BY DEF FiledInv
<1> QED BY <1>1, <1>2, FiledNext, PTL DEF Sink!Spec

(* The envelope of a message is that of its own transaction, over as many    *)
(* messages as a connection lasts; when no client sends DATA a second time.  *)
THEOREM EnvelopesOwn ==
  ASSUME "again" \notin MailFaults PROVE Sink!Spec => []Sink!EnvelopeOwn
<1>1. Sink!Init => EnvelopeInv
  BY DEF Sink!Init, Sink!Fresh, Sink!NoWant, Sink!Box, EnvelopeInv, MailTypes, Connection, Meaning, NamesPast,
     TransactionHeld, Held, EnvelopesMeant
<1>2. EnvelopeInv => Sink!EnvelopeOwn BY DEF EnvelopeInv, EnvelopesMeant, Sink!EnvelopeOwn
<1> QED BY <1>1, <1>2, EnvelopeNext, PTL DEF Sink!Spec

(* The next name is new. *)
NamedInv == MailTypes /\ NamesPast

LEMMA NamedNext == NamedInv /\ [Sink!Next]_Sink!vars => NamedInv'
<1> SUFFICES ASSUME NamedInv, [Sink!Next]_Sink!vars PROVE NamedInv' OBVIOUS
<1>t. MailTypes' BY MailTyped DEF NamedInv
<1>a. ASSUME UNCHANGED <<mails, seq>> PROVE NamedInv' BY <1>t, <1>a DEF NamedInv, NamesPast
<1>1. ASSUME NEW c \in Conns, LineOf(c) PROVE NamedInv'
  <2>1. CASE ~Files(c) BY <1>1, <1>a, <2>1, QuietLine
  <2>2. CASE Files(c)
    <3>1. PICK whole \in BOOLEAN, header \in Sink!Box : Sink!Store(c, whole, header)
      BY <2>2 DEF Files, Sink!HangUp, Sink!Dot, Sink!Box
    <3> QED BY <1>t, <3>1, StoredNew DEF NamedInv
  <2> QED BY <2>1, <2>2
<1>2. ASSUME NEW n \in listed, Sink!ClearRemoves(n) PROVE NamedInv'
  <2>1. seq' = seq /\ DOMAIN mails' = DOMAIN mails \ {n} BY <1>2 DEF Sink!ClearRemoves
  <2>2. NamesPast' BY <2>1 DEF NamedInv, NamesPast
  <2> QED BY <1>t, <2>2 DEF NamedInv
<1>3. CASE (\E box \in Sink!Box : Sink!ClearLists(box)) \/ Sink!Tick \/ UNCHANGED Sink!vars
  BY <1>a, <1>3 DEF Sink!ClearLists, Sink!Tick, Sink!vars
<1> QED BY <1>1, <1>2, <1>3 DEF Sink!Next, LineOf

(* Only a body that is not text is lost: whatever else ends it, the lone dot *)
(* or the end of the connection, it becomes a file of its own and replaces   *)
(* none, however many arrive in one millisecond.                             *)
THEOREM BodiesFiled ==
  ASSUME "binary" \notin MailFaults PROVE Sink!Spec => Sink!Captured
<1>1. Sink!Init => NamedInv
  BY DEF Sink!Init, Sink!Fresh, Sink!NoWant, Sink!Box, NamedInv, MailTypes, Connection, Meaning, NamesPast
<1>2. NamedInv /\ [Sink!Next]_Sink!vars => [Sink!Filing]_Sink!vars
  <2> SUFFICES ASSUME NamedInv, Sink!Next, NEW c \in Conns, conn[c].at = "data", conn'[c].at = "command"
               PROVE  \E n \in DOMAIN mails' \ DOMAIN mails : mails'[n].meant = want[c]
    BY DEF Sink!Filing
  <2>1. conn'[c] # conn[c] OBVIOUS
  <2>2. PICK d \in Conns : LineOf(d)
    BY <2>1 DEF Sink!Next, LineOf, Sink!ClearLists, Sink!ClearRemoves, Sink!Tick
  <2>3. d = c BY <2>1, <2>2, LineKnown DEF NamedInv
  <2>4. Files(c)
    <3>1. ~Sink!Binary(c) BY DEF Sink!Binary
    <3>2. ASSUME NEW user, Sink!Auth(c, user) PROVE FALSE BY <3>2 DEF Sink!Auth, Sink!AtCommand
    <3>3. ASSUME NEW addr, Sink!MailFrom(c, addr) \/ Sink!RcptTo(c, addr) PROVE FALSE
      BY <3>3 DEF Sink!MailFrom, Sink!RcptTo, Sink!AtCommand
    <3>4. ~Sink!Rset(c) /\ ~Sink!Data(c) /\ ~Sink!Quit(c)
      BY DEF Sink!Rset, Sink!Data, Sink!Quit, Sink!AtCommand
    <3> QED BY <2>2, <2>3, <3>1, <3>2, <3>3, <3>4 DEF LineOf, Files
  <2>5. PICK whole \in BOOLEAN, header \in Sink!Box : Sink!Store(c, whole, header)
    BY <2>4 DEF Files, Sink!HangUp, Sink!Dot, Sink!Box
  <2> QED BY <2>5, StoredNew DEF NamedInv
<1> QED BY <1>1, <1>2, NamedNext, PTL DEF Sink!Spec, Sink!Captured

-----------------------------------------------------------------------------
(* A request to php-fpm                                                      *)

(* A request is in the pool once at most. *)
InPool(r) == r \in working \cup Range(queue)
OnceInPool ==
  /\ queue \in Seq(Calls) /\ working \subseteq Calls
  /\ \A i, j \in 1 .. Len(queue) : queue[i] = queue[j] => i = j
  /\ working \cap Range(queue) = {}

(* One that the proxy has not sent is not in it, one that is has no end yet. *)
PoolKnows ==
  \A r \in Calls :
    /\ stage[r] \in {"idle", "connect"} => ~InPool(r)
    /\ InPool(r) => flow[r] = "open"
    /\ stage[r] # "done" => answer[r] = None

WholeInv ==
  /\ DOMAIN stage = Calls /\ DOMAIN answer = Calls /\ DOMAIN flow = Calls
  /\ DOMAIN sent = Calls /\ DOMAIN got = Calls
  /\ OnceInPool /\ PoolKnows /\ Fpm!AnswerWhole

-----------------------------------------------------------------------------
LEMMA AppendSet ==
  ASSUME NEW s \in Seq(Calls), NEW r \in Calls, r \notin Range(s),
         \A i, j \in 1 .. Len(s) : s[i] = s[j] => i = j
  PROVE  /\ Append(s, r) \in Seq(Calls)
         /\ Range(Append(s, r)) = Range(s) \cup {r}
         /\ \A i, j \in 1 .. Len(Append(s, r)) : Append(s, r)[i] = Append(s, r)[j] => i = j
<1>1. /\ Append(s, r) \in Seq(Calls) /\ Len(Append(s, r)) = Len(s) + 1 /\ Append(s, r)[Len(s) + 1] = r
      /\ \A i \in 1 .. Len(s) : Append(s, r)[i] = s[i]
      /\ DOMAIN Append(s, r) = 1 .. Len(s) + 1 /\ DOMAIN s = 1 .. Len(s) /\ Len(s) \in Nat
  OBVIOUS
<1>2. \A i \in 1 .. Len(s) : s[i] \in Range(s) BY <1>1 DEF Range
<1>3. Range(Append(s, r)) = Range(s) \cup {r}
  <2>1. ASSUME NEW x \in Range(Append(s, r)) PROVE x \in Range(s) \cup {r}
    <3>1. PICK i \in 1 .. Len(s) + 1 : x = Append(s, r)[i] BY <1>1 DEF Range
    <3>2. i \in 1 .. Len(s) \/ i = Len(s) + 1 BY <1>1
    <3> QED BY <1>1, <1>2, <3>1, <3>2
  <2>2. ASSUME NEW x \in Range(s) PROVE x \in Range(Append(s, r))
    <3>1. PICK i \in 1 .. Len(s) : x = s[i] BY <1>1 DEF Range
    <3>2. i \in DOMAIN Append(s, r) /\ x = Append(s, r)[i] BY <1>1, <3>1
    <3> QED BY <3>2 DEF Range
  <2>3. r \in Range(Append(s, r)) 
    <3>1. Len(s) + 1 \in DOMAIN Append(s, r) BY <1>1
    <3> QED BY <1>1, <3>1 DEF Range
  <2> QED BY <2>1, <2>2, <2>3
<1>4. ASSUME NEW i \in 1 .. Len(Append(s, r)), NEW j \in 1 .. Len(Append(s, r)), Append(s, r)[i] = Append(s, r)[j]
      PROVE  i = j
  <2>1. (i \in 1 .. Len(s) \/ i = Len(s) + 1) /\ (j \in 1 .. Len(s) \/ j = Len(s) + 1) BY <1>1
  <2> QED BY <1>1, <1>2, <1>4, <2>1
<1> QED BY <1>1, <1>3, <1>4

LEMMA HeadTailSet ==
  ASSUME NEW s \in Seq(Calls), s # <<>>, \A i, j \in 1 .. Len(s) : s[i] = s[j] => i = j
  PROVE  /\ Head(s) \in Calls /\ Tail(s) \in Seq(Calls)
         /\ Range(Tail(s)) = Range(s) \ {Head(s)} /\ Head(s) \in Range(s)
         /\ \A i, j \in 1 .. Len(Tail(s)) : Tail(s)[i] = Tail(s)[j] => i = j
<1>1. /\ Len(s) \in Nat /\ Len(s) >= 1 /\ Head(s) = s[1] /\ Tail(s) \in Seq(Calls) /\ Len(Tail(s)) = Len(s) - 1
      /\ \A i \in 1 .. Len(s) - 1 : Tail(s)[i] = s[i + 1]
      /\ DOMAIN Tail(s) = 1 .. Len(s) - 1 /\ DOMAIN s = 1 .. Len(s) /\ Head(s) \in Calls
  OBVIOUS
<1>2. Head(s) \in Range(s)
  <2>1. 1 \in DOMAIN s BY <1>1
  <2> QED BY <1>1, <2>1 DEF Range
<1>3. ASSUME NEW x \in Range(Tail(s)) PROVE x \in Range(s) \ {Head(s)}
  <2>1. PICK i \in 1 .. Len(s) - 1 : x = Tail(s)[i] BY <1>1 DEF Range
  <2>2. i + 1 \in 1 .. Len(s) /\ x = s[i + 1] /\ 1 \in 1 .. Len(s) /\ i + 1 # 1 BY <1>1, <2>1
  <2>3. x # s[1] BY <2>2
  <2>4. x \in Range(s) BY <1>1, <2>2 DEF Range
  <2> QED BY <1>1, <2>3, <2>4
<1>4. ASSUME NEW x \in Range(s) \ {Head(s)} PROVE x \in Range(Tail(s))
  <2>1. PICK i \in 1 .. Len(s) : x = s[i] BY <1>1 DEF Range
  <2>2. i # 1 BY <1>1, <1>4, <2>1
  <2>3. i - 1 \in 1 .. Len(s) - 1 /\ (i - 1) + 1 = i BY <1>1, <2>2
  <2>4. x = Tail(s)[i - 1] BY <1>1, <2>1, <2>3
  <2> QED BY <1>1, <2>3, <2>4 DEF Range
<1>5. ASSUME NEW i \in 1 .. Len(Tail(s)), NEW j \in 1 .. Len(Tail(s)), Tail(s)[i] = Tail(s)[j] PROVE i = j
  <2>1. i + 1 \in 1 .. Len(s) /\ j + 1 \in 1 .. Len(s) /\ s[i + 1] = s[j + 1] BY <1>1, <1>5
  <2>2. i + 1 = j + 1 BY <2>1
  <2> QED BY <1>1, <2>2
<1> QED BY <1>1, <1>2, <1>3, <1>4, <1>5

(* The proxy: an answer that is not an error is given at the end only.       *)
LEMMA ProxyKeeps ==
  ASSUME AnswersNamed, WholeInv, NEW r \in Calls,
         (\E u \in Pages : Fpm!Arrive(r, u)) \/ Fpm!ReadRecord(r) \/ Fpm!ReadEnd(r) \/ Fpm!TimeOut(r) \/ Fpm!Again(r)
  PROVE  WholeInv'
<1> USE DEF WholeInv, AnswersNamed
<1>a. UNCHANGED <<queue, working, flow>>
  BY DEF Fpm!Arrive, Fpm!ReadRecord, Fpm!ReadEnd, Fpm!TimeOut, Fpm!Again, Fpm!pool
<1>b. OnceInPool' /\ \A q \in Calls : InPool(q)' = InPool(q) BY <1>a DEF OnceInPool, InPool
<1>1. CASE \E u \in Pages : Fpm!Arrive(r, u)
  <2>1. PICK u \in Pages : Fpm!Arrive(r, u) BY <1>1
  <2>2. Fpm!resolve_target(u) \in {"php", "static", "404"} BY DEF Fpm!resolve_target
  <2>3. /\ stage[r] = "idle" /\ UNCHANGED <<sent, got>>
        /\ \/ stage' = [stage EXCEPT ![r] = "connect"] /\ answer' = answer
           \/ \E what \in {"static", "404"} :
                stage' = [stage EXCEPT ![r] = "done"] /\ answer' = [answer EXCEPT ![r] = what]
    BY <2>1, <2>2 DEF Fpm!Arrive, Fpm!Reply, Fpm!pool
  <2> QED BY <1>a, <1>b, <2>3 DEF PoolKnows, Fpm!AnswerWhole
<1>2. CASE Fpm!ReadRecord(r)
  <2>1. /\ stage[r] = "waiting" /\ UNCHANGED <<stage, answer, sent>> /\ got' = [got EXCEPT ![r] = @ + 1]
    BY <1>2 DEF Fpm!ReadRecord, Fpm!pool
  <2> QED BY <1>a, <1>b, <2>1 DEF PoolKnows, Fpm!AnswerWhole
<1>3. CASE Fpm!ReadEnd(r)
  <2>1. Fpm!describe_fpm_failure \in {"no free workers", "did not respond"} BY DEF Fpm!describe_fpm_failure
  <2>2. /\ stage[r] = "waiting" /\ got[r] = sent[r] /\ flow[r] # "open"
        /\ UNCHANGED <<sent, got>> /\ stage' = [stage EXCEPT ![r] = "done"]
        /\ \E what \in {"200", "no free workers", "did not respond"} :
             answer' = [answer EXCEPT ![r] = what] /\ (what = "200" => flow[r] = "end")
    BY <1>3, <2>1 DEF Fpm!ReadEnd, Fpm!Reply, Fpm!pool
  <2> QED BY <1>a, <1>b, <2>2 DEF PoolKnows, Fpm!AnswerWhole
<1>4. CASE Fpm!TimeOut(r)
  <2>1. /\ stage[r] = "waiting" /\ UNCHANGED <<sent, got>> /\ stage' = [stage EXCEPT ![r] = "done"]
        /\ answer' = [answer EXCEPT ![r] = "504"]
    BY <1>4 DEF Fpm!TimeOut, Fpm!Reply, Fpm!pool
  <2> QED BY <1>a, <1>b, <2>1 DEF PoolKnows, Fpm!AnswerWhole
<1>5. CASE Fpm!Again(r)
  <2>1. /\ ~InPool(r) /\ stage' = [stage EXCEPT ![r] = "idle"] /\ answer' = [answer EXCEPT ![r] = None]
        /\ sent' = [sent EXCEPT ![r] = 0] /\ got' = [got EXCEPT ![r] = 0]
    BY <1>5 DEF Fpm!Again, InPool, Fpm!Range, Range
  <2> QED BY <1>a, <1>b, <2>1 DEF PoolKnows, Fpm!AnswerWhole
<1> QED BY <1>1, <1>2, <1>3, <1>4, <1>5

LEMMA ConnectKeeps ==
  ASSUME AnswersNamed, WholeInv, NEW r \in Calls, Fpm!Connect(r)
  PROVE  WholeInv'
<1> USE DEF WholeInv, AnswersNamed
<1>0. stage[r] = "connect" /\ working' = working /\ ~InPool(r) BY DEF Fpm!Connect, PoolKnows
<1>1. CASE serving /\ Len(queue) < Backlog
  <2>1. /\ stage' = [stage EXCEPT ![r] = "waiting"] /\ answer' = answer /\ queue' = Append(queue, r)
        /\ sent' = [sent EXCEPT ![r] = 0] /\ got' = [got EXCEPT ![r] = 0]
        /\ flow' = [flow EXCEPT ![r] = "open"]
    BY <1>1 DEF Fpm!Connect
  <2>2. r \notin Range(queue) /\ r \notin working BY <1>0 DEF InPool
  <2>3. OnceInPool' /\ Range(queue') = Range(queue) \cup {r}
    <3>1. /\ Append(queue, r) \in Seq(Calls) /\ Range(Append(queue, r)) = Range(queue) \cup {r}
          /\ \A i, j \in 1 .. Len(Append(queue, r)) : Append(queue, r)[i] = Append(queue, r)[j] => i = j
      BY <2>2, AppendSet DEF OnceInPool
    <3>2. OnceInPool BY DEF WholeInv
    <3> QED BY <1>0, <2>1, <2>2, <3>1, <3>2 DEF OnceInPool
  <2>4. \A q \in Calls : InPool(q)' <=> InPool(q) \/ q = r BY <1>0, <2>3 DEF InPool
  <2> QED BY <1>0, <2>1, <2>3, <2>4 DEF PoolKnows, Fpm!AnswerWhole
<1>2. CASE ~(serving /\ Len(queue) < Backlog)
  <2>1. Fpm!describe_fpm_failure \in {"no free workers", "did not respond"} BY DEF Fpm!describe_fpm_failure
  <2>2. /\ UNCHANGED <<queue, sent, got, flow>> /\ stage' = [stage EXCEPT ![r] = "done"]
        /\ \E what \in {"no free workers", "did not respond"} : answer' = [answer EXCEPT ![r] = what]
    BY <1>2, <2>1 DEF Fpm!Connect, Fpm!Reply
  <2>3. OnceInPool' /\ \A q \in Calls : InPool(q)' = InPool(q) BY <1>0, <2>2 DEF OnceInPool, InPool
  <2> QED BY <1>0, <2>2, <2>3 DEF PoolKnows, Fpm!AnswerWhole
<1> QED BY <1>1, <1>2

(* The pool: only a request that is in it is given an end, and is in it no more. *)
LEMMA PoolKeeps ==
  ASSUME AnswersNamed, WholeInv,
         \/ \E r \in Calls : Fpm!Write(r) \/ Fpm!Finish(r) \/ Fpm!Die(r) \/ Fpm!Terminate(r)
         \/ Fpm!Accept \/ Fpm!Stop \/ Fpm!Restart \/ Fpm!Scrape \/ Fpm!Tick
  PROVE  WholeInv'
<1> USE DEF WholeInv, AnswersNamed
<1>a. UNCHANGED <<stage, answer, got>>
  BY DEF Fpm!Write, Fpm!Finish, Fpm!Die, Fpm!Terminate, Fpm!Accept, Fpm!Stop, Fpm!Restart, Fpm!Scrape, Fpm!Tick
<1>b. ASSUME NEW r \in Calls, r \in working, sent' = sent, queue' = queue, NEW how, Fpm!Leaves(r, how)
      PROVE  WholeInv'
  <2>1. working' = working \ {r} /\ flow' = [flow EXCEPT ![r] = how] BY <1>b DEF Fpm!Leaves
  <2>2. OnceInPool' BY <1>b, <2>1 DEF OnceInPool
  <2>3. \A q \in Calls : InPool(q)' <=> InPool(q) /\ q # r BY <1>b, <2>1 DEF InPool, OnceInPool
  <2>4. flow[r] = "open" BY <1>b DEF PoolKnows, InPool
  <2> QED BY <1>a, <1>b, <2>1, <2>2, <2>3, <2>4 DEF PoolKnows, Fpm!AnswerWhole
<1>1. ASSUME NEW r \in Calls, Fpm!Write(r) PROVE WholeInv'
  <2>1. CASE stage[r] = "waiting"
    <3>1. sent' = [sent EXCEPT ![r] = @ + 1] /\ UNCHANGED <<working, flow, queue>>
      BY <1>1, <2>1 DEF Fpm!Write
    <3>2. OnceInPool' /\ \A q \in Calls : InPool(q)' = InPool(q) BY <3>1 DEF OnceInPool, InPool
    <3>3. answer[r] # "200" BY <2>1 DEF PoolKnows
    <3> QED BY <1>a, <3>1, <3>2, <3>3 DEF PoolKnows, Fpm!AnswerWhole
  <2>2. CASE stage[r] # "waiting" BY <1>b, <1>1, <2>2 DEF Fpm!Write
  <2> QED BY <2>1, <2>2
<1>2. ASSUME NEW r \in Calls, Fpm!Finish(r) \/ Fpm!Die(r) \/ Fpm!Terminate(r) PROVE WholeInv'
  BY <1>b, <1>2 DEF Fpm!Finish, Fpm!Die, Fpm!Terminate
<1>3. CASE Fpm!Accept
  <2>1. /\ queue # <<>> /\ working' = working \cup {Head(queue)} /\ queue' = Tail(queue) /\ UNCHANGED <<sent, flow>>
    BY <1>3 DEF Fpm!Accept
  <2>2. /\ Head(queue) \in Calls /\ Tail(queue) \in Seq(Calls)
        /\ Range(Tail(queue)) = Range(queue) \ {Head(queue)} /\ Head(queue) \in Range(queue)
        /\ \A i, j \in 1 .. Len(Tail(queue)) : Tail(queue)[i] = Tail(queue)[j] => i = j
    BY <2>1, HeadTailSet DEF OnceInPool
  <2>3. OnceInPool' BY <2>1, <2>2 DEF OnceInPool
  <2>4. \A q \in Calls : InPool(q)' <=> InPool(q) BY <2>1, <2>2 DEF InPool
  <2> QED BY <1>a, <2>1, <2>3, <2>4 DEF PoolKnows, Fpm!AnswerWhole
<1>4. CASE Fpm!Stop
  <2>1. /\ flow' = [r \in Calls |-> IF InPool(r) THEN "eof" ELSE flow[r]]
        /\ working' = {} /\ queue' = <<>> /\ sent' = sent
    BY <1>4 DEF Fpm!Stop, InPool, Fpm!Range, Range
  <2>2. OnceInPool' /\ \A q \in Calls : ~InPool(q)' BY <2>1 DEF OnceInPool, InPool, Range
  <2> QED BY <1>a, <2>1, <2>2 DEF PoolKnows, Fpm!AnswerWhole
<1>5. CASE Fpm!Restart \/ Fpm!Scrape \/ Fpm!Tick
  <2>1. UNCHANGED <<working, queue, flow, sent>> BY <1>5 DEF Fpm!Restart, Fpm!Scrape, Fpm!Tick, Fpm!pool
  <2>2. OnceInPool' /\ \A q \in Calls : InPool(q)' = InPool(q) BY <2>1 DEF OnceInPool, InPool
  <2> QED BY <1>a, <2>1, <2>2 DEF PoolKnows, Fpm!AnswerWhole
<1> QED BY <1>1, <1>2, <1>3, <1>4, <1>5

(* An answer is passed on as such only when php-fpm has ended it and every   *)
(* record has been read, for any number of requests and workers, wherever a  *)
(* worker dies, a script is ended or the pool is replaced.                   *)
THEOREM AnswersWhole == ASSUME AnswersNamed PROVE Fpm!Spec => []Fpm!AnswerWhole
<1>1. Fpm!Init => WholeInv
  <2>1. Range(<<>>) = {} BY DEF Range
  <2> QED BY <2>1 DEF Fpm!Init, WholeInv, OnceInPool, PoolKnows, InPool, Fpm!AnswerWhole, AnswersNamed
<1>2. WholeInv /\ [Fpm!Next]_Fpm!vars => WholeInv'
  <2> SUFFICES ASSUME WholeInv, [Fpm!Next]_Fpm!vars PROVE WholeInv' OBVIOUS
  <2>1. CASE UNCHANGED Fpm!vars
    BY <2>1 DEF Fpm!vars, Fpm!pool, WholeInv, OnceInPool, PoolKnows, InPool, Fpm!AnswerWhole
  <2>2. CASE Fpm!Next BY <2>2, ProxyKeeps, ConnectKeeps, PoolKeeps DEF Fpm!Next, Fpm!Proxied
  <2> QED BY <2>1, <2>2
<1>3. WholeInv => Fpm!AnswerWhole BY DEF WholeInv
<1> QED BY <1>1, <1>2, <1>3, PTL DEF Fpm!Spec


-----------------------------------------------------------------------------
(* The accounts                                                              *)

(* What may be saved: each host with its own token, and a default that has one. *)
KeptConfig(content) ==
  /\ content \in Cli!ConfigFile
  /\ \A h \in Hosts : content.hosts[h] \in {h, None}
  /\ IF content.default = None THEN content = Cli!NoHosts ELSE content.hosts[content.default] # None

(* The same of an instance of Keel Cloud. *)
KeptShape(content) ==
  /\ content \in Cli!FileShape
  /\ content.token \in {IF content.url = None THEN DefaultUrl ELSE content.url, None}

Broken == {None, Empty, Half}

FilesHome ==
  /\ DOMAIN files = {"dply", "tmp", "keel"}
  /\ \A f \in {"dply", "tmp"} : files[f] \in Broken \/ KeptConfig(files[f])
  /\ files["keel"] \in Broken \/ KeptShape(files["keel"])

AccountTypes ==
  /\ at \in [Clis -> {"none", "tmp", "dply", "keel", "gone"}]
  /\ tok \in [Clis -> Cli!Token \cup {EnvToken, None}]
  /\ step \in [Clis -> {"idle", "start", "poll", "check", "load", "open", "write", "rename",
                        "auth", "url", "token", "request"}]
  /\ cmd \in [Clis -> {"none", "login", "logout", "use", "keel login", "keel logout", "keel use"}]
  /\ host \in [Clis -> Cli!Token \cup {None}]
  /\ read \in [Clis -> Cli!ConfigFile \cup Cli!FileShape \cup {None}]

(* What a command knows at its step, and which file it has open. *)
CommandKnows(c) ==
  /\ step[c] \in {"start", "poll"} => cmd[c] = "login" /\ host[c] \in Hosts
  /\ step[c] = "check" => cmd[c] = "logout" /\ host[c] \in Hosts
  /\ step[c] = "load" => /\ cmd[c] \in {"login", "logout"} /\ host[c] \in Hosts
                         /\ cmd[c] = "login" => tok[c] = host[c]
  /\ step[c] \in {"open", "write"} => \/ cmd[c] \in {"login", "logout"} /\ KeptConfig(read[c])
                                      \/ cmd[c] \in {"keel login", "keel logout"} /\ KeptShape(read[c])
  /\ step[c] = "rename" => cmd[c] \in {"login", "logout"}
  /\ step[c] = "auth" => cmd[c] = "use" /\ host[c] \in Hosts
  /\ step[c] \in {"url", "token"} => cmd[c] \in {"keel login", "keel use"}
  /\ step[c] = "request" /\ cmd[c] = "use" => tok[c] \in {host[c], EnvToken}
  /\ IF step[c] # "write" THEN at[c] = "none"
     ELSE IF cmd[c] \in {"login", "logout"} THEN at[c] \in {"tmp", "dply", "gone"} ELSE at[c] = "keel"

HomeInv == AccountTypes /\ FilesHome /\ \A c \in Clis : CommandKnows(c)

-----------------------------------------------------------------------------
(* What is read is kept, whatever state the file is in. *)
LEMMA ReadsKept ==
  ASSUME AccountsNamed, FilesHome
  PROVE  KeptConfig(Cli!load) /\ KeptShape(Cli!shape)
<1>1. KeptConfig(Cli!NoHosts)
  BY DEF AccountsNamed, KeptConfig, Cli!NoHosts, Cli!ConfigFile
<1>2. KeptShape(Cli!NoShape)
  BY DEF AccountsNamed, KeptShape, Cli!NoShape, Cli!FileShape
<1> QED BY <1>1, <1>2 DEF FilesHome, Cli!load, Cli!shape, Broken

LEMMA HomeImplies ==
  ASSUME AccountsNamed, HomeInv PROVE Cli!TokensHome
<1>1. KeptConfig(Cli!load) /\ KeptShape(Cli!shape) BY ReadsKept DEF HomeInv
<1> QED BY <1>1 DEF HomeInv, CommandKnows, Cli!TokensHome, KeptConfig, KeptShape, Cli!url

(* A process that leaves the others alone has only its own knowledge to keep. *)
LEMMA OwnStepKeeps ==
  ASSUME HomeInv, NEW c \in Clis, AccountTypes', FilesHome', CommandKnows(c)',
         \A d \in Clis \ {c} : /\ step'[d] = step[d] /\ cmd'[d] = cmd[d] /\ host'[d] = host[d]
                               /\ read'[d] = read[d] /\ tok'[d] = tok[d] /\ at'[d] = at[d]
  PROVE  HomeInv'
<1>1. ASSUME NEW d \in Clis \ {c} PROVE CommandKnows(d)'
  BY <1>1 DEF HomeInv, CommandKnows
<1> QED BY <1>1 DEF HomeInv

(* The command of a process ends. *)
LEMMA EndsKeeps ==
  ASSUME AccountsNamed, HomeInv, NEW c \in Clis, Cli!Ends(c), files' = files,
         (at' = at /\ step[c] # "write") \/ at' = [at EXCEPT ![c] = "none"]
  PROVE  HomeInv'
<1> USE DEF HomeInv, AccountTypes, AccountsNamed
<1>1. at'[c] = "none" /\ at' \in [Clis -> {"none", "tmp", "dply", "keel", "gone"}]
  BY DEF AccountTypes, CommandKnows
<1>2. AccountTypes' BY <1>1 DEF Cli!Ends, Cli!Goes, Cli!Token
<1>3. FilesHome' BY DEF FilesHome
<1>4. CommandKnows(c)' BY <1>1 DEF Cli!Ends, Cli!Goes, CommandKnows
<1>5. \A d \in Clis \ {c} : /\ step'[d] = step[d] /\ cmd'[d] = cmd[d] /\ host'[d] = host[d]
                            /\ read'[d] = read[d] /\ tok'[d] = tok[d] /\ at'[d] = at[d]
  BY DEF Cli!Ends, Cli!Goes
<1> HIDE DEF HomeInv, AccountTypes
<1> QED BY <1>2, <1>3, <1>4, <1>5, OwnStepKeeps

(* A command begins. *)
LEMMA BeginKeeps ==
  ASSUME AccountsNamed, HomeInv, NEW c \in Clis,
         \/ \E what \in {"login", "logout", "use"}, flag \in Hosts \cup {None} : Cli!Begin(c, what, flag)
         \/ \E u \in Urls \cup {None} : Cli!KeelLogin(c, u)
         \/ Cli!KeelLogout(c) \/ Cli!KeelUse(c)
  PROVE  HomeInv'
<1> USE DEF AccountsNamed
<1>a. AccountTypes /\ FilesHome /\ CommandKnows(c) BY DEF HomeInv
<1>b. KeptConfig(Cli!load) /\ KeptShape(Cli!shape) BY <1>a, ReadsKept
<1>1. CASE \E what \in {"login", "logout", "use"}, flag \in Hosts \cup {None} : Cli!Begin(c, what, flag)
  <2>1. PICK what \in {"login", "logout", "use"}, flag \in Hosts \cup {None} : Cli!Begin(c, what, flag)
    BY <1>1
  <2>2. Cli!resolve_host(flag) \in Hosts BY <1>b DEF Cli!resolve_host, KeptConfig, Cli!ConfigFile
  <2>3. AccountTypes' BY <1>a, <2>1, <2>2 DEF AccountTypes, Cli!Begin, Cli!Begins, Cli!Goes, Cli!Token
  <2>4. FilesHome' BY <1>a, <2>1 DEF FilesHome, Cli!Begin
  <2>5. CommandKnows(c)'
    BY <1>a, <2>1, <2>2 DEF AccountTypes, CommandKnows, Cli!Begin, Cli!Begins, Cli!Goes
  <2> QED BY <1>a, <2>1, <2>3, <2>4, <2>5, OwnStepKeeps
         DEF AccountTypes, Cli!Begin, Cli!Begins, Cli!Goes
<1>2. CASE \E u \in Urls \cup {None} : Cli!KeelLogin(c, u)
  <2>1. PICK u \in Urls \cup {None} : Cli!KeelLogin(c, u) BY <1>2
  <2> DEFINE new == Cli!Shape(u, IF u = None THEN DefaultUrl ELSE u)
  <2>2. KeptShape(new) BY DEF Cli!Shape, KeptShape, Cli!FileShape, Cli!Token
  <2>3. AccountTypes'
    BY <1>a, <2>1, <2>2 DEF AccountTypes, Cli!KeelLogin, Cli!Begins, Cli!Goes, KeptShape
  <2>4. FilesHome' BY <1>a, <2>1 DEF FilesHome, Cli!KeelLogin
  <2>5. CommandKnows(c)'
    BY <1>a, <2>1, <2>2 DEF AccountTypes, CommandKnows, Cli!KeelLogin, Cli!Begins, Cli!Goes
  <2> QED BY <1>a, <2>1, <2>3, <2>4, <2>5, OwnStepKeeps
         DEF AccountTypes, Cli!KeelLogin, Cli!Begins, Cli!Goes
<1>3. CASE Cli!KeelLogout(c)
  <2> DEFINE new == [Cli!shape EXCEPT !.token = None]
  <2>2. KeptShape(new) BY <1>b DEF KeptShape, Cli!FileShape
  <2>3. AccountTypes'
    BY <1>a, <1>3, <2>2 DEF AccountTypes, Cli!KeelLogout, Cli!Begins, Cli!Goes, KeptShape
  <2>4. FilesHome' BY <1>a, <1>3 DEF FilesHome, Cli!KeelLogout
  <2>5. CommandKnows(c)'
    BY <1>a, <1>3, <2>2 DEF AccountTypes, CommandKnows, Cli!KeelLogout, Cli!Begins, Cli!Goes
  <2> QED BY <1>a, <1>3, <2>3, <2>4, <2>5, OwnStepKeeps
         DEF AccountTypes, Cli!KeelLogout, Cli!Begins, Cli!Goes
<1>4. CASE Cli!KeelUse(c)
  <2>3. AccountTypes' BY <1>a, <1>4 DEF AccountTypes, Cli!KeelUse, Cli!Begins, Cli!Goes
  <2>4. FilesHome' BY <1>a, <1>4 DEF FilesHome, Cli!KeelUse
  <2>5. CommandKnows(c)'
    BY <1>a, <1>4 DEF AccountTypes, CommandKnows, Cli!KeelUse, Cli!Begins, Cli!Goes
  <2> QED BY <1>a, <1>4, <2>3, <2>4, <2>5, OwnStepKeeps
         DEF AccountTypes, Cli!KeelUse, Cli!Begins, Cli!Goes
<1> QED BY <1>1, <1>2, <1>3, <1>4

(* A command goes on to a server, by a poll, a request or what it read. *)
LEMMA AskKeeps ==
  ASSUME AccountsNamed, HomeInv, NEW c \in Clis,
         Cli!Start(c) \/ Cli!Poll(c) \/ Cli!Fails(c) \/ Cli!Auth(c) \/ Cli!Request(c)
         \/ Cli!ReadUrl(c) \/ Cli!ReadToken(c)
         \/ \E reply \in {"authorized", "denied", "expired"} : Cli!Decide(c, reply)
  PROVE  HomeInv'
<1> USE DEF AccountsNamed
<1>a. AccountTypes /\ FilesHome /\ CommandKnows(c) /\ files' = files /\ at' = at
  BY DEF HomeInv, Cli!Start, Cli!Poll, Cli!Fails, Cli!Auth, Cli!Request, Cli!ReadUrl, Cli!ReadToken, Cli!Decide
<1>b. KeptConfig(Cli!load) /\ KeptShape(Cli!shape) BY <1>a, ReadsKept
<1>c. CASE Cli!Ends(c)
  <2>1. step[c] # "write"
    BY <1>a, <1>c DEF AccountTypes, Cli!Ends, Cli!Goes, Cli!Start, Cli!Poll, Cli!Fails, Cli!Auth, Cli!Request,
       Cli!ReadUrl,
       Cli!ReadToken, Cli!Decide
  <2> QED BY <1>a, <1>c, <2>1, EndsKeeps
<1>d. ASSUME AccountTypes', CommandKnows(c)',
             \A d \in Clis \ {c} : /\ step'[d] = step[d] /\ cmd'[d] = cmd[d] /\ host'[d] = host[d]
                                   /\ read'[d] = read[d] /\ tok'[d] = tok[d]
      PROVE  HomeInv'
  <2>1. FilesHome' BY <1>a DEF FilesHome
  <2> QED BY <1>a, <1>d, <2>1, OwnStepKeeps
<1>1. CASE Cli!Start(c)
  <2>1. AccountTypes' BY <1>a, <1>1 DEF AccountTypes, Cli!Start, Cli!Goes
  <2>2. CommandKnows(c)' BY <1>a, <1>1 DEF AccountTypes, CommandKnows, Cli!Start, Cli!Goes
  <2> QED BY <1>a, <1>d, <1>1, <2>1, <2>2 DEF AccountTypes, Cli!Start, Cli!Goes
<1>2. CASE Cli!Poll(c) /\ ~Cli!Ends(c)
  <2>0. /\ step[c] = "poll" /\ UNCHANGED <<cmd, host, read>>
        /\ \/ step' = [step EXCEPT ![c] = "load"] /\ tok' = [tok EXCEPT ![c] = host[c]]
           \/ UNCHANGED <<step, tok>>
    BY <1>2 DEF Cli!Poll, Cli!Refused, Cli!Approved, Cli!Pending, Cli!Goes
  <2>1. AccountTypes' BY <1>a, <2>0 DEF AccountTypes, CommandKnows, Cli!Token
  <2>2. CommandKnows(c)' BY <1>a, <2>0 DEF AccountTypes, CommandKnows
  <2>3. \A d \in Clis \ {c} : step'[d] = step[d] /\ tok'[d] = tok[d] BY <1>a, <2>0 DEF AccountTypes
  <2> QED BY <1>d, <2>0, <2>1, <2>2, <2>3
<1>3. CASE Cli!Auth(c) /\ ~Cli!Ends(c)
  <2>0. Cli!token_for(c, host[c]) \in {host[c], EnvToken}
    BY <1>a, <1>b, <1>3 DEF CommandKnows, Cli!Auth, Cli!token_for, KeptConfig
  <2>1. AccountTypes'
    BY <1>a, <1>3, <2>0 DEF AccountTypes, CommandKnows, Cli!Auth, Cli!Goes, Cli!Token, Cli!Sends
  <2>2. CommandKnows(c)'
    BY <1>a, <1>3, <2>0 DEF AccountTypes, CommandKnows, Cli!Auth, Cli!Goes
  <2> QED BY <1>a, <1>d, <1>3, <2>1, <2>2 DEF AccountTypes, Cli!Auth, Cli!Goes
<1>4. CASE Cli!Request(c) /\ ~Cli!Ends(c)
  <2>1. AccountTypes' BY <1>a, <1>4 DEF AccountTypes, Cli!Request
  <2>2. CommandKnows(c)' BY <1>a, <1>4 DEF CommandKnows, Cli!Request
  <2> QED BY <1>d, <1>4, <2>1, <2>2 DEF Cli!Request
<1>5. CASE Cli!ReadUrl(c)
  <2>0. Cli!url \in Urls BY <1>b DEF Cli!url, KeptShape, Cli!FileShape
  <2>1. AccountTypes' BY <1>a, <1>5, <2>0 DEF AccountTypes, Cli!ReadUrl, Cli!Goes, Cli!Token
  <2>2. CommandKnows(c)' BY <1>a, <1>5 DEF AccountTypes, CommandKnows, Cli!ReadUrl, Cli!Goes
  <2>3. \A d \in Clis \ {c} : step'[d] = step[d] /\ host'[d] = host[d]
    BY <1>a, <1>5 DEF AccountTypes, Cli!ReadUrl, Cli!Goes
  <2> QED BY <1>d, <1>5, <2>1, <2>2, <2>3 DEF Cli!ReadUrl
<1>6. CASE Cli!ReadToken(c) /\ ~Cli!Ends(c)
  <2>1. AccountTypes'
    BY <1>a, <1>b, <1>6 DEF AccountTypes, CommandKnows, Cli!ReadToken, Cli!Goes, KeptShape, Cli!FileShape
  <2>2. CommandKnows(c)' BY <1>a, <1>6 DEF AccountTypes, CommandKnows, Cli!ReadToken, Cli!Goes
  <2> QED BY <1>a, <1>d, <1>6, <2>1, <2>2 DEF AccountTypes, Cli!ReadToken, Cli!Goes
<1>7. CASE \E reply \in {"authorized", "denied", "expired"} : Cli!Decide(c, reply)
  <2>1. AccountTypes' BY <1>a, <1>7 DEF AccountTypes, Cli!Decide
  <2>2. CommandKnows(c)' BY <1>a, <1>7 DEF CommandKnows, Cli!Decide
  <2> QED BY <1>d, <1>7, <2>1, <2>2 DEF Cli!Decide
<1> QED BY <1>c, <1>1, <1>2, <1>3, <1>4, <1>5, <1>6, <1>7 DEF Cli!Fails

(* What a login or a logout saves is kept as it was, but for its own host. *)
LEMMA ChangeKept ==
  ASSUME AccountsNamed, NEW c \in Clis, NEW content, KeptConfig(content), host[c] \in Hosts
  PROVE  /\ tok[c] = host[c] => KeptConfig(Cli!Stored(c, content))
         /\ content.hosts[host[c]] # None => \A new \in Cli!Forgotten(c, content) : KeptConfig(new)
<1> USE DEF AccountsNamed, KeptConfig
<1>1. ASSUME tok[c] = host[c] PROVE KeptConfig(Cli!Stored(c, content))
  BY <1>1 DEF Cli!Stored, Cli!ConfigFile, Cli!Token
<1>2. ASSUME content.hosts[host[c]] # None, NEW new \in Cli!Forgotten(c, content) PROVE KeptConfig(new)
  <2> DEFINE rest == [content.hosts EXCEPT ![host[c]] = None]
             left_over == {h \in Hosts : rest[h] # None}
  <2>1. /\ rest \in [Hosts -> Cli!Token \cup {None}]
        /\ \A h \in Hosts : rest[h] \in {h, None}
        /\ \A h \in Hosts \ {host[c]} : rest[h] = content.hosts[h]
    BY DEF Cli!ConfigFile
  <2>2. content.default # None /\ content.hosts[content.default] # None /\ content.default \in Hosts
    BY <1>2 DEF Cli!NoHosts, Cli!ConfigFile
  <2>3. PICK d \in IF content.default # host[c] THEN {content.default}
                 ELSE IF left_over = {} THEN {None} ELSE left_over :
               new = [default |-> d, hosts |-> rest]
    BY <1>2 DEF Cli!Forgotten
  <2> HIDE DEF rest
  <2>4. CASE d # None
    <3>1. d \in Hosts /\ rest[d] # None BY <2>1, <2>2, <2>3, <2>4
    <3> QED BY <2>1, <2>3, <3>1 DEF Cli!ConfigFile
  <2>5. CASE d = None
    <3>1. \A h \in Hosts : rest[h] = None BY <2>2, <2>3, <2>5
    <3>2. rest = [h \in Hosts |-> None] BY <2>1, <3>1
    <3> QED BY <2>1, <2>3, <2>5, <3>2 DEF Cli!ConfigFile, Cli!NoHosts
  <2> QED BY <2>4, <2>5
<1> QED BY <1>1, <1>2

(* A save: what it writes was read, or is broken, and it writes it where it is kept. *)
LEMMA SaveKeeps ==
  ASSUME AccountsNamed, HomeInv, NEW c \in Clis,
         Cli!Check(c) \/ Cli!Load(c) \/ Cli!Open(c) \/ Cli!Write(c) \/ Cli!Crash(c)
  PROVE  HomeInv'
<1> USE DEF AccountsNamed
<1>a. AccountTypes /\ FilesHome /\ CommandKnows(c) BY DEF HomeInv
<1>b. KeptConfig(Cli!load) BY <1>a, ReadsKept
<1>1. CASE Cli!Check(c)
  <2>1. CASE Cli!Ends(c) BY <1>1, <2>1, EndsKeeps DEF Cli!Check
  <2>2. CASE Cli!GoesOn(c, "load") /\ UNCHANGED <<files, at>>
    <3>1. AccountTypes' BY <1>a, <2>2 DEF AccountTypes, Cli!GoesOn, Cli!Goes
    <3>2. FilesHome' BY <1>a, <2>2 DEF FilesHome
    <3>3. CommandKnows(c)' BY <1>a, <1>1, <2>2 DEF AccountTypes, CommandKnows, Cli!Check, Cli!GoesOn, Cli!Goes
    <3>4. \A d \in Clis \ {c} : step'[d] = step[d] BY <1>a, <2>2 DEF AccountTypes, Cli!GoesOn, Cli!Goes
    <3> QED BY <2>2, <3>1, <3>2, <3>3, <3>4, OwnStepKeeps DEF Cli!GoesOn
  <2> QED BY <1>1, <2>1, <2>2 DEF Cli!Check
<1>2. CASE Cli!Load(c)
  <2>1. CASE Cli!Ends(c) BY <1>2, <2>1, EndsKeeps DEF Cli!Load
  <2>2. CASE ~Cli!Ends(c)
    <3>1. PICK content \in IF cmd[c] = "login" THEN {Cli!Stored(c, Cli!load)} ELSE Cli!Forgotten(c, Cli!load) :
                    read' = [read EXCEPT ![c] = content]
      BY <1>2, <2>2 DEF Cli!Load
    <3>2. /\ step[c] = "load" /\ step' = [step EXCEPT ![c] = "open"] /\ UNCHANGED <<cmd, host, tok, files, at>>
          /\ ~(cmd[c] = "logout" /\ Cli!load.hosts[host[c]] = None)
      BY <1>2, <2>2 DEF Cli!Load, Cli!Goes
    <3>3. cmd[c] \in {"login", "logout"} /\ host[c] \in Hosts /\ (cmd[c] = "login" => tok[c] = host[c])
      BY <1>a, <3>2 DEF CommandKnows
    <3>4. KeptConfig(content) BY <1>b, <3>1, <3>2, <3>3, ChangeKept
    <3>5. AccountTypes' BY <1>a, <3>1, <3>2, <3>4 DEF AccountTypes, KeptConfig
    <3>6. FilesHome' BY <1>a, <3>2 DEF FilesHome
    <3>7. CommandKnows(c)' BY <1>a, <3>1, <3>2, <3>3, <3>4 DEF AccountTypes, CommandKnows
    <3>8. \A d \in Clis \ {c} : step'[d] = step[d] /\ read'[d] = read[d] BY <1>a, <3>1, <3>2 DEF AccountTypes
    <3> QED BY <3>2, <3>5, <3>6, <3>7, <3>8, OwnStepKeeps
  <2> QED BY <2>1, <2>2
<1>3. CASE Cli!Open(c)
  <2>1. /\ step[c] = "open" /\ step' = [step EXCEPT ![c] = "write"] /\ UNCHANGED <<cmd, host, read, tok>>
        /\ files' = [files EXCEPT ![Cli!Target(c)] = Empty] /\ at' = [at EXCEPT ![c] = Cli!Target(c)]
    BY <1>3 DEF Cli!Open, Cli!GoesOn, Cli!Goes
  <2>2. Cli!Target(c) = IF cmd[c] \in {"keel login", "keel logout"} THEN "keel" ELSE "tmp"
    BY DEF Cli!Target
  <2>3. AccountTypes' BY <1>a, <2>1, <2>2 DEF AccountTypes
  <2>4. FilesHome' BY <1>a, <2>1, <2>2 DEF FilesHome, Broken
  <2>5. CommandKnows(c)' BY <1>a, <2>1, <2>2 DEF AccountTypes, CommandKnows
  <2>6. \A d \in Clis \ {c} : step'[d] = step[d] /\ at'[d] = at[d] BY <1>a, <2>1 DEF AccountTypes
  <2> QED BY <2>1, <2>3, <2>4, <2>5, <2>6, OwnStepKeeps
<1>4. CASE Cli!Write(c)
  <2>1. /\ step[c] = "write" /\ at' = [at EXCEPT ![c] = "none"]
        /\ \/ cmd[c] = "keel login" /\ Cli!GoesOn(c, "url")
           \/ cmd[c] = "keel logout" /\ Cli!Ends(c)
           \/ cmd[c] \notin {"keel login", "keel logout"} /\ Cli!GoesOn(c, "rename")
    BY <1>4 DEF Cli!Write
  <2>2. at[c] # "gone" => \E text \in {read[c], Half} : files' = [files EXCEPT ![at[c]] = text]
    BY <1>4 DEF Cli!Write
  <2>3. at[c] = "gone" => files' = files BY <1>4 DEF Cli!Write
  <2>4. \/ cmd[c] \in {"login", "logout"} /\ KeptConfig(read[c]) /\ at[c] \in {"tmp", "dply", "gone"}
        \/ cmd[c] \in {"keel login", "keel logout"} /\ KeptShape(read[c]) /\ at[c] = "keel"
    BY <1>a, <2>1 DEF CommandKnows
  <2>5. FilesHome' BY <1>a, <2>2, <2>3, <2>4 DEF FilesHome, Broken
  <2>6. CASE \/ Cli!GoesOn(c, "url") /\ cmd[c] = "keel login"
             \/ Cli!GoesOn(c, "rename") /\ cmd[c] \in {"login", "logout"}
    <3>1. AccountTypes' BY <1>a, <2>1, <2>6 DEF AccountTypes, Cli!GoesOn, Cli!Goes
    <3>2. CommandKnows(c)' BY <1>a, <2>1, <2>6 DEF AccountTypes, CommandKnows, Cli!GoesOn, Cli!Goes
    <3>3. \A d \in Clis \ {c} : step'[d] = step[d] /\ at'[d] = at[d]
      BY <1>a, <2>1, <2>6 DEF AccountTypes, Cli!GoesOn, Cli!Goes
    <3>4. UNCHANGED <<cmd, host, read, tok>> BY <2>6 DEF Cli!GoesOn
    <3> QED BY <2>5, <3>1, <3>2, <3>3, <3>4, OwnStepKeeps
  <2>7. CASE Cli!Ends(c)
    <3>1. AccountTypes' BY <1>a, <2>1, <2>7 DEF AccountTypes, Cli!Ends, Cli!Goes
    <3>2. CommandKnows(c)' BY <1>a, <2>1, <2>7 DEF AccountTypes, CommandKnows, Cli!Ends, Cli!Goes
    <3>3. \A d \in Clis \ {c} : /\ step'[d] = step[d] /\ cmd'[d] = cmd[d] /\ host'[d] = host[d]
                               /\ read'[d] = read[d] /\ tok'[d] = tok[d] /\ at'[d] = at[d]
      BY <1>a, <2>1, <2>7 DEF AccountTypes, Cli!Ends, Cli!Goes
    <3> QED BY <2>5, <3>1, <3>2, <3>3, OwnStepKeeps
  <2>8. cmd[c] \notin {"keel login", "keel logout"} => cmd[c] \in {"login", "logout"} BY <2>4
  <2> QED BY <2>1, <2>6, <2>7, <2>8
<1>5. CASE Cli!Crash(c) BY <1>5, EndsKeeps DEF Cli!Crash
<1> QED BY <1>1, <1>2, <1>3, <1>4, <1>5

(* The temporary file becomes the config, and who has it open writes into the config. *)
LEMMA RenameKeeps ==
  ASSUME AccountsNamed, HomeInv, NEW c \in Clis, Cli!Rename(c)
  PROVE  HomeInv'
<1>a. AccountTypes /\ FilesHome /\ CommandKnows(c) /\ Cli!Ends(c) /\ step[c] = "rename"
  BY DEF HomeInv, Cli!Rename
<1>1. CASE UNCHANGED <<files, at>> BY <1>a, <1>1, EndsKeeps
<1>2. CASE ~UNCHANGED <<files, at>>
  <2>1. /\ files' = [files EXCEPT !["dply"] = files["tmp"], !["tmp"] = None]
        /\ at' = [d \in Clis |-> CASE at[d] = "tmp" -> "dply" [] at[d] = "dply" -> "gone" [] OTHER -> at[d]]
    BY <1>2 DEF Cli!Rename
  <2>2. FilesHome' BY <1>a, <2>1 DEF FilesHome, Broken
  <2>3. AccountTypes' BY <1>a, <2>1 DEF AccountTypes, Cli!Ends, Cli!Goes
  <2>4. CommandKnows(c)' BY <1>a, <2>1 DEF AccountTypes, CommandKnows, Cli!Ends, Cli!Goes
  <2>5. ASSUME NEW d \in Clis \ {c} PROVE CommandKnows(d)'
    <3>1. /\ step'[d] = step[d] /\ cmd'[d] = cmd[d] /\ host'[d] = host[d] /\ read'[d] = read[d] /\ tok'[d] = tok[d]
      BY <1>a DEF AccountTypes, Cli!Ends, Cli!Goes
    <3>2. /\ at[d] \in {"none", "keel"} => at'[d] = at[d]
          /\ at[d] \in {"tmp", "dply", "gone"} => at'[d] \in {"tmp", "dply", "gone"}
      BY <2>1
    <3>3. CommandKnows(d) BY DEF HomeInv
    <3> QED BY <3>1, <3>2, <3>3 DEF CommandKnows
  <2> QED BY <2>2, <2>3, <2>4, <2>5 DEF HomeInv
<1> QED BY <1>1, <1>2

(* A token of dply or Keel Cloud is kept for who issued it only, and dply     *)
(* sends a host none but its own or $DPLY_TOKEN, for any number of commands  *)
(* that run at the same time and end anywhere.                               *)
THEOREM TokensStayHome == ASSUME AccountsNamed PROVE Cli!Spec => []Cli!TokensHome
<1>1. Cli!Init => HomeInv
  BY DEF Cli!Init, HomeInv, AccountTypes, FilesHome, CommandKnows, Broken
<1>2. HomeInv /\ [Cli!Next]_Cli!vars => HomeInv'
  <2> SUFFICES ASSUME HomeInv, [Cli!Next]_Cli!vars PROVE HomeInv' OBVIOUS
  <2>1. CASE UNCHANGED Cli!vars
    BY <2>1 DEF Cli!vars, Cli!process, HomeInv, AccountTypes, FilesHome, CommandKnows
  <2>2. CASE Cli!Next BY <2>2, BeginKeeps, AskKeeps, SaveKeeps, RenameKeeps DEF Cli!Next
  <2> QED BY <2>1, <2>2
<1>3. HomeInv => Cli!TokensHome BY HomeImplies
<1> QED BY <1>1, <1>2, <1>3, PTL DEF Cli!Spec


-----------------------------------------------------------------------------
(* Setup and doctor                                                          *)

Fields == {"tlds", "mode", "ca", "trusted", "resolvers", "sudoers", "block", "anchor", "agent", "system",
           "bound", "owner", "foreign", "stale", "names"}

(* In hosts mode the rule is there and the block is that of the configured   *)
(* domains, unless a name was refused; outside it there is no entry.         *)
Kinds == {"none", "fine", "bad"} \cap SiteNames
BlockIs(k, T) ==
  /\ k.names = "none" => T = {}
  /\ k.names = "fine" => T = k.tlds
HostsManaged(k) ==
  /\ DOMAIN k = Fields /\ k.tlds \subseteq Tlds /\ k.names \in Kinds
  /\ \/ k.mode = "hosts" /\ k.sudoers /\ BlockIs(k, k.block)
     \/ k.mode = "resolver" /\ k.block = {}

Does == {"install-resolver", "remove-resolver", "trust-ca", "untrust-ca", "install-sudoers", "remove-sudoers",
         "install-socketd", "remove-socketd", "remove-portmap", "stop-agent", "install", "uninstall", "start",
         "stop", "stop-others", "start-others", "resolution", "reload", "bail"}
Step == {x \in [do : Does, arg : Tlds \cup {None, "hosts", "resolver"}, must : BOOLEAN] :
           x.do = "resolution" => x.arg \in {"hosts", "resolver"}}

StepsIn(s) == {s[i] : i \in 1 .. Len(s)}

Enters(x) == x.do = "resolution" /\ x.arg = "hosts"
Forgets(x) == x.do = "remove-sudoers"
Calm(s) == s \in Seq(Step) /\ \A x \in StepsIn(s) : ~Enters(x) /\ ~Forgets(x)

(* What is left of a command: the rule goes only from a machine that has     *)
(* left hosts mode, and hosts mode is entered only where the rule is.        *)
Leaving(s, k) ==
  /\ \A x \in StepsIn(s) : ~Enters(x)
  /\ k.mode = "resolver" \/ (s # <<>> /\ Head(s) = Mac!Must("resolution", "resolver"))
Entering(s, k) ==
  /\ \A x \in StepsIn(s) : ~Forgets(x)
  /\ k.sudoers \/ (s # <<>> /\ Head(s) = Mac!Must("install-sudoers", None))

TodoKnows(s, k) == s \in Seq(Step) /\ (Calm(s) \/ Leaving(s, k) \/ Entering(s, k))

SetupInv == HostsManaged(mac) /\ TodoKnows(steps, mac)

-----------------------------------------------------------------------------
(* Sequences of steps. *)

LEMMA ConcatSteps ==
  ASSUME NEW s \in Seq(Step), NEW t \in Seq(Step)
  PROVE  /\ s \o t \in Seq(Step) /\ \A x \in StepsIn(s \o t) : x \in StepsIn(s) \cup StepsIn(t)
         /\ s # <<>> => s \o t # <<>> /\ Head(s \o t) = Head(s)
<1>1. /\ s \o t \in Seq(Step) /\ Len(s \o t) = Len(s) + Len(t) /\ Len(s) \in Nat /\ Len(t) \in Nat
      /\ \A i \in 1 .. Len(s) + Len(t) : (s \o t)[i] = IF i <= Len(s) THEN s[i] ELSE t[i - Len(s)]
  OBVIOUS
<1>2. ASSUME NEW i \in 1 .. Len(s) + Len(t) PROVE (s \o t)[i] \in StepsIn(s) \cup StepsIn(t)
  <2>1. CASE i <= Len(s) BY <1>1, <2>1 DEF StepsIn
  <2>2. CASE ~(i <= Len(s))
    <3>1. i - Len(s) \in 1 .. Len(t) BY <1>1, <2>2
    <3> QED BY <1>1, <2>2, <3>1 DEF StepsIn
  <2> QED BY <2>1, <2>2
<1>3. \A x \in StepsIn(s \o t) : x \in StepsIn(s) \cup StepsIn(t) BY <1>1, <1>2 DEF StepsIn
<1>4. ASSUME s # <<>> PROVE s \o t # <<>> /\ Head(s \o t) = Head(s)
  <2>1. Len(s) >= 1 /\ Len(s \o t) >= 1 BY <1>1, <1>4
  <2>2. (s \o t)[1] = s[1] BY <1>1, <2>1
  <2> QED BY <1>1, <1>4, <2>1, <2>2
<1> QED BY <1>1, <1>3, <1>4

LEMMA TailSteps ==
  ASSUME NEW s \in Seq(Step), s # <<>>
  PROVE  /\ Head(s) \in StepsIn(s) /\ Head(s) \in Step /\ Tail(s) \in Seq(Step)
         /\ \A x \in StepsIn(Tail(s)) : x \in StepsIn(s)
<1>1. /\ Len(s) \in Nat /\ Len(s) >= 1 /\ Head(s) = s[1] /\ Tail(s) \in Seq(Step) /\ Len(Tail(s)) = Len(s) - 1
      /\ \A i \in 1 .. Len(s) - 1 : Tail(s)[i] = s[i + 1] /\ i + 1 \in 1 .. Len(s)
      /\ Head(s) \in Step
  OBVIOUS
<1>2. 1 \in 1 .. Len(s) BY <1>1
<1>3. \A i \in 1 .. Len(Tail(s)) : Tail(s)[i] \in StepsIn(s) BY <1>1 DEF StepsIn
<1>4. \A x \in StepsIn(Tail(s)) : x \in StepsIn(s) BY <1>3 DEF StepsIn
<1> QED BY <1>1, <1>2, <1>4 DEF StepsIn

LEMMA OneStep ==
  ASSUME NEW a \in Step
  PROVE  <<a>> \in Seq(Step) /\ StepsIn(<<a>>) = {a} /\ <<a>> # <<>> /\ Head(<<a>>) = a
<1>1. <<a>> \in Seq(Step) /\ Len(<<a>>) = 1 /\ <<a>>[1] = a OBVIOUS
<1>2. 1 .. 1 = {1} OBVIOUS
<1> QED BY <1>1, <1>2 DEF StepsIn

LEMMA TwoSteps ==
  ASSUME NEW a \in Step, NEW b \in Step
  PROVE  /\ <<a, b>> \in Seq(Step) /\ StepsIn(<<a, b>>) = {a, b} /\ <<a, b>> # <<>> /\ Head(<<a, b>>) = a
         /\ Tail(<<a, b>>) = <<b>>
<1>1. <<a, b>> \in Seq(Step) /\ Len(<<a, b>>) = 2 /\ <<a, b>>[1] = a /\ <<a, b>>[2] = b OBVIOUS
<1>2. 1 .. 2 = {1, 2} OBVIOUS
<1>3. Tail(<<a, b>>) = <<b>> OBVIOUS
<1> QED BY <1>1, <1>2, <1>3 DEF StepsIn

LEMMA CalmConcat ==
  ASSUME NEW s, Calm(s), NEW t, Calm(t) PROVE Calm(s \o t)
BY ConcatSteps DEF Calm

LEMMA CalmOne ==
  ASSUME NEW x \in Step, ~Enters(x), ~Forgets(x) PROVE Calm(<<x>>)
<1>1. <<x>> \in Seq(Step) /\ Len(<<x>>) = 1 /\ <<x>>[1] = x OBVIOUS
<1> QED BY <1>1 DEF Calm, StepsIn

LEMMA CalmNone == Calm(<<>>)
BY DEF Calm, StepsIn

(* A step for each domain. *)
LEMMA DomainSeq ==
  ASSUME SetupNamed, NEW T \in SUBSET Tlds
  PROVE  /\ Mac!Cardinality(T) \in Nat
         /\ \A i \in 1 .. Mac!Cardinality(T) : Mac!Order(T)[i] \in Tlds
<1>1. IsFiniteSet(T) BY FS_Subset DEF SetupNamed
<1>2. Cardinality(T) \in Nat /\ ExistsBijection(1 .. Cardinality(T), T) BY <1>1, FS_CardinalityType
<1>3. \E f \in [1 .. Cardinality(T) -> T] : Mac!IsInjective(f)
  BY <1>2 DEF ExistsBijection, Bijection, Injection, IsInjective, Mac!IsInjective
<1>c. Mac!Cardinality(T) = Cardinality(T) BY DEF Mac!Cardinality, Cardinality
<1>4. Mac!Order(T) \in [1 .. Cardinality(T) -> T] BY <1>3, <1>c DEF Mac!Order
<1> QED BY <1>2, <1>4, <1>c

LEMMA CalmForEach ==
  ASSUME NEW n \in Nat, NEW f, \A i \in 1 .. n : f[i] \in Step /\ ~Enters(f[i]) /\ ~Forgets(f[i]),
         f = [i \in 1 .. n |-> f[i]]
  PROVE  Calm(f)
<1>1. f \in Seq(Step) /\ Len(f) = n OBVIOUS
<1> QED BY <1>1 DEF Calm, StepsIn

(* ForEach with each of the steps it is used with. *)
LEMMA CalmDomains ==
  ASSUME SetupNamed, NEW T \in SUBSET Tlds
  PROVE  /\ Calm(Mac!ForEach(T, LAMBDA t : Mac!Must("install-resolver", t)))
         /\ Calm(Mac!ForEach(T, LAMBDA t : Mac!Must("remove-resolver", t)))
         /\ Calm(Mac!ForEach(T, LAMBDA t : Mac!May("remove-resolver", t)))
<1> DEFINE list == Mac!Order(T)  size == Mac!Cardinality(T)
<1>1. size \in Nat /\ \A i \in 1 .. size : list[i] \in Tlds BY DomainSeq
<1> HIDE DEF list, size
<1>2. Calm([i \in 1 .. size |-> Mac!Must("install-resolver", list[i])])
  <2> DEFINE f == [i \in 1 .. size |-> Mac!Must("install-resolver", list[i])]
  <2>1. \A i \in 1 .. size : f[i] \in Step /\ ~Enters(f[i]) /\ ~Forgets(f[i])
    BY <1>1 DEF Mac!Must, Step, Does, Enters, Forgets
  <2>2. f = [i \in 1 .. size |-> f[i]] OBVIOUS
  <2> HIDE DEF f
  <2>3. Calm(f) BY <1>1, <2>1, <2>2, CalmForEach
  <2> QED BY <2>3 DEF f
<1>3. Calm([i \in 1 .. size |-> Mac!Must("remove-resolver", list[i])])
  <2> DEFINE f == [i \in 1 .. size |-> Mac!Must("remove-resolver", list[i])]
  <2>1. \A i \in 1 .. size : f[i] \in Step /\ ~Enters(f[i]) /\ ~Forgets(f[i])
    BY <1>1 DEF Mac!Must, Step, Does, Enters, Forgets
  <2>2. f = [i \in 1 .. size |-> f[i]] OBVIOUS
  <2> HIDE DEF f
  <2>3. Calm(f) BY <1>1, <2>1, <2>2, CalmForEach
  <2> QED BY <2>3 DEF f
<1>4. Calm([i \in 1 .. size |-> Mac!May("remove-resolver", list[i])])
  <2> DEFINE f == [i \in 1 .. size |-> Mac!May("remove-resolver", list[i])]
  <2>1. \A i \in 1 .. size : f[i] \in Step /\ ~Enters(f[i]) /\ ~Forgets(f[i])
    BY <1>1 DEF Mac!May, Step, Does, Enters, Forgets
  <2>2. f = [i \in 1 .. size |-> f[i]] OBVIOUS
  <2> HIDE DEF f
  <2>3. Calm(f) BY <1>1, <2>1, <2>2, CalmForEach
  <2> QED BY <2>3 DEF f
<1> QED BY <1>2, <1>3, <1>4 DEF Mac!ForEach, list, size

(* Every step that neither leaves hosts mode nor enters it. *)
LEMMA CalmSteps ==
  /\ \A x \in {"trust-ca", "untrust-ca", "install-sudoers", "remove-portmap", "install", "uninstall", "start", "stop",
               "reload", "bail", "install-socketd"} :
       Calm(<<Mac!Must(x, None)>>)
  /\ \A x \in {"stop-others", "start-others", "start", "stop", "remove-socketd", "stop-agent"} :
       Calm(<<Mac!May(x, None)>>)
<1>1. ASSUME NEW x \in {"trust-ca", "untrust-ca", "install-sudoers", "remove-portmap", "install", "uninstall", "start",
                        "stop", "reload", "bail", "install-socketd"}
      PROVE  Calm(<<Mac!Must(x, None)>>)
  <2>1. Mac!Must(x, None) \in Step /\ ~Enters(Mac!Must(x, None)) /\ ~Forgets(Mac!Must(x, None))
    BY DEF Mac!Must, Step, Does, Enters, Forgets
  <2> QED BY <2>1, CalmOne
<1>2. ASSUME NEW x \in {"stop-others", "start-others", "start", "stop", "remove-socketd", "stop-agent"}
      PROVE  Calm(<<Mac!May(x, None)>>)
  <2>1. Mac!May(x, None) \in Step /\ ~Enters(Mac!May(x, None)) /\ ~Forgets(Mac!May(x, None))
    BY DEF Mac!May, Step, Does, Enters, Forgets
  <2> QED BY <2>1, CalmOne
<1> QED BY <1>1, <1>2

LEMMA SetupCalm ==
  ASSUME SetupNamed, NEW k, k.tlds \subseteq Tlds
  PROVE  Calm(Mac!setup(k, TRUE)) /\ Calm(Mac!setup(k, FALSE)) /\ Calm(Mac!unsetup(k))
<1>1. Calm(Mac!InstallResolvers(k)) BY CalmDomains DEF Mac!InstallResolvers
<1>2. Calm(Mac!install_privileged_ports)
  <2>1. Calm(<<Mac!May("remove-socketd", None)>> \o <<Mac!May("stop-agent", None)>>) BY CalmSteps, CalmConcat
  <2>2. Calm((<<Mac!May("remove-socketd", None)>> \o <<Mac!May("stop-agent", None)>>)
             \o <<Mac!Must("install-socketd", None)>>)
    BY <2>1, CalmSteps, CalmConcat
  <2>3. Mac!install_privileged_ports =
          (<<Mac!May("remove-socketd", None)>> \o <<Mac!May("stop-agent", None)>>)
          \o <<Mac!Must("install-socketd", None)>>
    BY DEF Mac!install_privileged_ports
  <2> QED BY <2>2, <2>3
<1>3. Calm(<<Mac!Must("bail", None)>>) /\ Calm(<<Mac!Must("trust-ca", None)>>)
  BY CalmSteps
<1>4. Calm(Mac!InstallResolvers(k) \o <<Mac!Must("trust-ca", None)>>) BY <1>1, <1>3, CalmConcat
<1>5. /\ Calm((Mac!InstallResolvers(k) \o <<Mac!Must("trust-ca", None)>>) \o Mac!install_privileged_ports)
      /\ Calm((Mac!InstallResolvers(k) \o <<Mac!Must("trust-ca", None)>>) \o <<>>)
  BY <1>2, <1>4, CalmConcat, CalmNone
<1>6. Calm(Mac!setup(k, TRUE)) /\ Calm(Mac!setup(k, FALSE)) BY <1>3, <1>5 DEF Mac!setup
<1>7. Calm(Mac!unsetup(k))
  <2> DEFINE each == Mac!ForEach(k.tlds, LAMBDA t : Mac!Must("remove-resolver", t))
  <2>1. Calm(each) /\ Calm(<<Mac!Must("remove-portmap", None)>>) /\ Calm(<<Mac!Must("untrust-ca", None)>>)
    BY CalmDomains, CalmSteps
  <2>2. Calm(<<Mac!Must("remove-portmap", None)>> \o each) BY <2>1, CalmConcat
  <2>3. /\ Calm((<<Mac!Must("remove-portmap", None)>> \o each) \o <<Mac!Must("untrust-ca", None)>>)
        /\ Calm((<<Mac!Must("remove-portmap", None)>> \o each) \o <<>>)
    BY <2>1, <2>2, CalmConcat, CalmNone
  <2> QED BY <2>3 DEF Mac!unsetup
<1> QED BY <1>6, <1>7

LEMMA ProgramKnows ==
  ASSUME SetupNamed, NEW c \in KnownCommands, HostsManaged(mac)
  PROVE  TodoKnows(Mac!Program(c, mac), mac)
<1>0. mac.tlds \in SUBSET Tlds BY DEF HostsManaged
<1>1. CASE c = "resolution hosts"
  <2> DEFINE first == <<Mac!Must("install-sudoers", None)>>
             each == Mac!ForEach(mac.tlds, LAMBDA t : Mac!May("remove-resolver", t))
             last == <<Mac!Must("resolution", "hosts")>>
  <2>1. Calm(first) /\ Calm(each) BY <1>0, CalmSteps, CalmDomains
  <2>0. Mac!Must("resolution", "hosts") \in Step BY DEF Mac!Must, Step, Does
  <2>2. last \in Seq(Step) /\ StepsIn(last) = {Mac!Must("resolution", "hosts")} BY <2>0, OneStep
  <2>3. Calm(first \o each) /\ first \o each \in Seq(Step) /\ first \o each # <<>> /\ Head(first \o each) = Head(first)
    BY <2>1, CalmConcat, ConcatSteps DEF Calm
  <2> HIDE DEF each
  <2>4. /\ (first \o each) \o last \in Seq(Step)
        /\ \A x \in StepsIn((first \o each) \o last) : x \in StepsIn(first \o each) \cup StepsIn(last)
        /\ (first \o each) \o last # <<>> /\ Head((first \o each) \o last) = Head(first)
    BY <2>2, <2>3, ConcatSteps
  <2>5. Head(first) = Mac!Must("install-sudoers", None) OBVIOUS
  <2>6. ~Forgets(Mac!Must("resolution", "hosts")) BY DEF Forgets, Mac!Must
  <2>7. Entering((first \o each) \o last, mac) BY <2>2, <2>3, <2>4, <2>5, <2>6 DEF Entering, Calm
  <2>8. Mac!Program(c, mac) = (first \o each) \o last BY <1>1 DEF Mac!Program, Mac!to_hosts, each
  <2> QED BY <2>4, <2>7, <2>8 DEF TodoKnows
<1>2. CASE c = "resolution resolver"
  <2> DEFINE first == <<Mac!Must("resolution", "resolver"), Mac!May("remove-sudoers", None)>>
             each == Mac!InstallResolvers(mac)
  <2>1. Calm(each) BY <1>0, CalmDomains DEF Mac!InstallResolvers
  <2>0. Mac!Must("resolution", "resolver") \in Step /\ Mac!May("remove-sudoers", None) \in Step
    BY DEF Mac!Must, Mac!May, Step, Does
  <2>2. /\ first \in Seq(Step) /\ first # <<>> /\ Head(first) = Mac!Must("resolution", "resolver")
        /\ StepsIn(first) = {Mac!Must("resolution", "resolver"), Mac!May("remove-sudoers", None)}
    BY <2>0, TwoSteps
  <2>3. \A x \in StepsIn(first) : ~Enters(x) BY <2>2 DEF Mac!Must, Mac!May, Enters
  <2> HIDE DEF each, first
  <2>4. /\ first \o each \in Seq(Step) /\ \A x \in StepsIn(first \o each) : x \in StepsIn(first) \cup StepsIn(each)
        /\ first \o each # <<>> /\ Head(first \o each) = Head(first)
    BY <2>1, <2>2, ConcatSteps DEF Calm
  <2>5. Leaving(first \o each, mac) BY <2>1, <2>2, <2>3, <2>4 DEF Leaving, Calm
  <2>6. Mac!Program(c, mac) = first \o each BY <1>2 DEF Mac!Program, Mac!to_resolver, first, each
  <2> QED BY <2>4, <2>5, <2>6 DEF TodoKnows
<1>3. CASE c \in {"setup", "setup --no-ports", "unsetup"}
  <2>1. Calm(Mac!Program(c, mac)) BY <1>0, <1>3, SetupCalm DEF Mac!Program
  <2> QED BY <2>1 DEF TodoKnows, Calm
<1>4. CASE c = "takeover"
  <2>1. Calm(<<Mac!May("stop-others", None)>>) /\ Calm(Mac!setup(mac, TRUE)) BY <1>0, SetupCalm, CalmSteps
  <2>2. /\ Mac!May("stop", None) \in Step /\ ~Enters(Mac!May("stop", None)) /\ ~Forgets(Mac!May("stop", None))
        /\ Mac!May("start", None) \in Step /\ ~Enters(Mac!May("start", None)) /\ ~Forgets(Mac!May("start", None))
    BY DEF Mac!May, Step, Does, Enters, Forgets
  <2>3. Calm(<<Mac!May("stop", None), Mac!May("start", None)>>) BY <2>2, TwoSteps DEF Calm
  <2>4. Calm((<<Mac!May("stop-others", None)>> \o Mac!setup(mac, TRUE))
             \o <<Mac!May("stop", None), Mac!May("start", None)>>)
    BY <2>1, <2>3, CalmConcat
  <2>5. Calm(Mac!Program(c, mac)) BY <1>4, <2>4 DEF Mac!Program
  <2> QED BY <2>5 DEF TodoKnows, Calm
<1>5. CASE c = "untakeover"
  <2>1. Calm(Mac!unsetup(mac) \o <<Mac!May("start-others", None)>>) BY <1>0, SetupCalm, CalmSteps, CalmConcat
  <2>2. Calm(Mac!Program(c, mac)) BY <1>5, <2>1 DEF Mac!Program
  <2> QED BY <2>2 DEF TodoKnows, Calm
<1>6. CASE c \in {"untrust", "trust", "daemon install", "daemon uninstall", "start", "stop", "reload", "restart"}
  <2>1. \E x \in {"untrust-ca", "bail", "trust-ca", "install", "uninstall", "start", "stop", "reload"} :
          Mac!Program(c, mac) = <<Mac!Must(x, None)>>
    BY <1>6 DEF Mac!Program
  <2>2. Calm(Mac!Program(c, mac)) BY <2>1, CalmSteps
  <2> QED BY <2>2 DEF TodoKnows, Calm
<1> QED BY <1>1, <1>2, <1>3, <1>4, <1>5, <1>6 DEF KnownCommands

-----------------------------------------------------------------------------
(* Steps of a command. *)

Same(j, k) ==
  /\ DOMAIN j = DOMAIN k /\ j.tlds = k.tlds /\ j.names = k.names
  /\ j.mode = k.mode /\ j.sudoers = k.sudoers /\ j.block = k.block

LEMMA SameKnows ==
  ASSUME NEW k, HostsManaged(k), NEW j, Same(j, k), NEW s, TodoKnows(s, k)
  PROVE  HostsManaged(j) /\ TodoKnows(s, j)
BY DEF Same, HostsManaged, BlockIs, TodoKnows, Leaving, Entering

(* What the helper writes. *)
LEMMA HelperWrites ==
  ASSUME NEW k, k.names \in Kinds PROVE BlockIs(k, Mac!sync_hosts(k))
BY DEF Kinds, BlockIs, Mac!sync_hosts

LEMMA SyncedSame ==
  ASSUME NEW k, HostsManaged(k) PROVE Same(Mac!Synced(k), k)
<1>1. CASE k.mode = "hosts" /\ k.sudoers
  <2>1. "block" \in DOMAIN k /\ BlockIs(k, k.block) /\ k.names \in Kinds BY <1>1 DEF HostsManaged, Fields
  <2>3. Mac!sync_hosts(k) = k.block BY <2>1 DEF BlockIs, Kinds, Mac!sync_hosts
  <2>2. Mac!Synced(k) = [k EXCEPT !.block = k.block] BY <1>1, <2>3 DEF Mac!Synced
  <2> QED BY <2>1, <2>2 DEF Same
<1>2. CASE ~(k.mode = "hosts" /\ k.sudoers) BY <1>2 DEF Mac!Synced, Same
<1> QED BY <1>1, <1>2

Others == Does \ {"resolution", "reload", "install-sudoers", "remove-sudoers", "bail"}

LEMMA WithoutSame ==
  ASSUME NEW k, DOMAIN k = Fields, NEW owners PROVE Same(Mac!Without(k, owners), k)
BY DEF Mac!Without, Same, Fields

LEMMA OthersSame ==
  ASSUME NEW k, DOMAIN k = Fields, NEW x, x.do \in Others PROVE Same(Mac!Effect(x, k), k)
<1>1. CASE x.do \in {"install-resolver", "remove-resolver", "trust-ca", "untrust-ca"}
  BY <1>1 DEF Mac!Effect, Mac!install_resolver, Mac!remove_resolver, Same, Fields
<1>2. CASE x.do \in {"install-socketd", "remove-socketd", "remove-portmap"}
  <2>1. \A owners : Same(Mac!Without(k, owners), k) BY WithoutSame
  <2>2. x.do = "install-socketd" => Mac!Effect(x, k) = Mac!install_socketd(k)
    BY DEF Mac!Effect
  <2>3. x.do = "remove-socketd" => Mac!Effect(x, k) = Mac!remove_socketd(k)
    BY DEF Mac!Effect
  <2>4. x.do = "remove-portmap" => Mac!Effect(x, k) = Mac!remove_portmap(k)
    BY DEF Mac!Effect
  <2>5. Same(Mac!install_socketd(k), k) BY <2>1 DEF Mac!install_socketd, Same, Fields
  <2>6. Same(Mac!remove_socketd(k), k) BY <2>1 DEF Mac!remove_socketd, Same, Fields
  <2>7. Same(Mac!remove_portmap(k), k) BY <2>6 DEF Mac!remove_portmap, Same, Fields
  <2> QED BY <1>2, <2>2, <2>3, <2>4, <2>5, <2>6, <2>7
<1>3. CASE x.do \in {"stop-agent", "stop-others", "start-others"}
  BY <1>3 DEF Mac!Effect, Mac!stop_launch_agent, Mac!stop_others, Mac!start_others, Same, Fields
<1>4. CASE x.do \in {"install", "uninstall"}
  <2>1. \A owners : Same(Mac!Without(k, owners), k) BY WithoutSame
  <2> QED BY <1>4, <2>1 DEF Mac!Effect, Mac!install_agent, Mac!uninstall_agent, Same, Fields
<1>5. CASE x.do = "start"
  BY <1>5 DEF Mac!Effect, Mac!start, Same, Fields
<1>6. CASE x.do = "stop"
  <2>1. \A owners : Same(Mac!Without(k, owners), k) BY WithoutSame
  <2> QED BY <1>6, <2>1 DEF Mac!Effect, Mac!stop, Same, Fields
<1> QED BY <1>1, <1>2, <1>3, <1>4, <1>5, <1>6 DEF Others, Does

(* The rest of a command after its first step, when that was not the one     *)
(* its beginning waits for.                                                  *)
LEMMA RestKnows ==
  ASSUME NEW k, NEW s, TodoKnows(s, k), s # <<>>,
         Head(s) # Mac!Must("resolution", "resolver"), Head(s) # Mac!Must("install-sudoers", None)
  PROVE  TodoKnows(Tail(s), k)
<1>1. s \in Seq(Step) BY DEF TodoKnows
<1>2. Tail(s) \in Seq(Step) /\ \A x \in StepsIn(Tail(s)) : x \in StepsIn(s) BY <1>1, TailSteps
<1> QED BY <1>2 DEF TodoKnows, Calm, Leaving, Entering

LEMMA DoneKnows ==
  ASSUME HostsManaged(mac), TodoKnows(steps, mac), steps # <<>>, Head(steps).do # "bail"
  PROVE  HostsManaged(Mac!Effect(Head(steps), mac)) /\ TodoKnows(Tail(steps), Mac!Effect(Head(steps), mac))
<1> DEFINE x == Head(steps)
           k == Mac!Effect(x, mac)
<1>1. steps \in Seq(Step) BY DEF TodoKnows
<1>2. /\ x \in StepsIn(steps) /\ x \in Step /\ Tail(steps) \in Seq(Step)
      /\ \A y \in StepsIn(Tail(steps)) : y \in StepsIn(steps)
  BY <1>1, TailSteps
<1>3. DOMAIN mac = Fields BY DEF HostsManaged
<1>4. CASE x.do \in Others \cup {"reload"}
  <2>1. Same(k, mac)
    <3>1. CASE x.do \in Others BY <1>3, <3>1, OthersSame
    <3>2. CASE x.do = "reload"
      <4>1. k = Mac!Synced(mac) BY <3>2 DEF Mac!Effect
      <4> QED BY <4>1, SyncedSame
    <3> QED BY <1>4, <3>1, <3>2
  <2>2. x # Mac!Must("resolution", "resolver") /\ x # Mac!Must("install-sudoers", None)
    BY <1>4 DEF Others, Mac!Must
  <2>3. TodoKnows(Tail(steps), mac) BY <2>2, RestKnows
  <2> HIDE DEF k
  <2> QED BY <2>1, <2>3, SameKnows DEF k
<1>5. CASE x.do = "resolution" /\ x.arg = "resolver"
  <2>1. k = [mac EXCEPT !.mode = "resolver", !.block = IF mac.sudoers THEN {} ELSE @]
    BY <1>5 DEF Mac!Effect, Mac!set_resolution
  <2>2. /\ DOMAIN k = Fields /\ k.mode = "resolver" /\ k.sudoers = mac.sudoers /\ k.tlds = mac.tlds
        /\ k.names = mac.names /\ k.block = IF mac.sudoers THEN {} ELSE mac.block
    BY <1>3, <2>1 DEF Fields
  <2> HIDE DEF k
  <2>3. HostsManaged(k) BY <2>2 DEF HostsManaged
  <2>4. x # Mac!Must("install-sudoers", None) BY <1>5 DEF Mac!Must
  <2>5. TodoKnows(Tail(steps), k) BY <1>2, <2>2, <2>4 DEF TodoKnows, Calm, Leaving, Entering
  <2> QED BY <2>3, <2>5 DEF k
<1>6. CASE x.do = "resolution" /\ x.arg = "hosts"
  <2>1. Enters(x) BY <1>6 DEF Enters
  <2>2. x # Mac!Must("install-sudoers", None) BY <1>6 DEF Mac!Must
  <2>3. Entering(steps, mac) /\ mac.sudoers BY <1>2, <2>1, <2>2 DEF TodoKnows, Calm, Leaving, Entering
  <2>4. k = Mac!Synced([mac EXCEPT !.mode = "hosts"]) BY <1>6 DEF Mac!Effect, Mac!set_resolution
  <2> DEFINE j == [mac EXCEPT !.mode = "hosts"]
  <2>5. /\ DOMAIN j = Fields /\ j.mode = "hosts" /\ j.sudoers = mac.sudoers /\ j.tlds = mac.tlds
        /\ j.names = mac.names
    BY <1>3 DEF Fields
  <2> HIDE DEF j
  <2>6. k = [j EXCEPT !.block = Mac!sync_hosts(j)] BY <2>3, <2>4, <2>5 DEF Mac!Synced, j
  <2>n. j.names \in Kinds BY <2>5 DEF HostsManaged
  <2>w. BlockIs(j, Mac!sync_hosts(j)) BY <2>n, HelperWrites
  <2>m. /\ DOMAIN k = Fields /\ k.mode = "hosts" /\ k.sudoers = mac.sudoers /\ k.tlds = mac.tlds
        /\ k.names = j.names /\ k.tlds = j.tlds /\ k.block = Mac!sync_hosts(j)
    BY <2>5, <2>6 DEF Fields
  <2> HIDE DEF k
  <2>7. /\ DOMAIN k = Fields /\ k.mode = "hosts" /\ k.sudoers = mac.sudoers /\ k.tlds = mac.tlds
        /\ k.names \in Kinds /\ BlockIs(k, k.block)
    BY <2>n, <2>w, <2>m DEF BlockIs
  <2>8. HostsManaged(k) BY <2>3, <2>7 DEF HostsManaged
  <2>9. TodoKnows(Tail(steps), k) BY <1>2, <2>3, <2>7 DEF TodoKnows, Entering
  <2> QED BY <2>8, <2>9 DEF k
<1>7. CASE x.do = "install-sudoers"
  <2>1. k = [mac EXCEPT !.sudoers = TRUE] BY <1>7 DEF Mac!Effect
  <2>2. /\ DOMAIN k = Fields /\ k.mode = mac.mode /\ k.sudoers /\ k.tlds = mac.tlds /\ k.block = mac.block
        /\ k.names = mac.names
    BY <1>3, <2>1 DEF Fields
  <2>3. x # Mac!Must("resolution", "resolver") BY <1>7 DEF Mac!Must
  <2> HIDE DEF k
  <2>4. HostsManaged(k) BY <2>2 DEF HostsManaged, BlockIs
  <2>5. TodoKnows(Tail(steps), k) BY <1>2, <2>2, <2>3 DEF TodoKnows, Calm, Leaving, Entering
  <2> QED BY <2>4, <2>5 DEF k
<1>8. CASE x.do = "remove-sudoers"
  <2>1. k = [mac EXCEPT !.sudoers = FALSE] BY <1>8 DEF Mac!Effect
  <2>2. /\ DOMAIN k = Fields /\ k.mode = mac.mode /\ k.tlds = mac.tlds /\ k.block = mac.block
        /\ k.names = mac.names
    BY <1>3, <2>1 DEF Fields
  <2>3. Forgets(x) /\ x # Mac!Must("resolution", "resolver") BY <1>8 DEF Mac!Must, Forgets
  <2>4. Leaving(steps, mac) /\ mac.mode = "resolver" BY <1>2, <2>3 DEF TodoKnows, Calm, Leaving, Entering
  <2> HIDE DEF k
  <2>5. HostsManaged(k) BY <2>2, <2>4 DEF HostsManaged
  <2>6. TodoKnows(Tail(steps), k) BY <1>2, <2>2, <2>4 DEF TodoKnows, Leaving
  <2> QED BY <2>5, <2>6 DEF k
<1>9. x.do = "resolution" => x.arg \in {"hosts", "resolver"} BY <1>2 DEF Step
<1>10. x.do \in Does BY <1>2 DEF Step
<1> QED BY <1>4, <1>5, <1>6, <1>7, <1>8, <1>9, <1>10 DEF Others, Does

LEMMA FailedKnows ==
  ASSUME HostsManaged(mac), TodoKnows(steps, mac), steps # <<>>
  PROVE  TodoKnows(Mac!AfterFailure(Head(steps), Tail(steps)), mac)
<1> DEFINE rest == Tail(steps)
<1>1. steps \in Seq(Step) BY DEF TodoKnows
<1>2. Head(steps) \in Step /\ rest \in Seq(Step) BY <1>1, TailSteps
<1>3. Head(steps).must \in BOOLEAN BY <1>2 DEF Step
<1>4. CASE ~Head(steps).must
  <2>1. Head(steps) # Mac!Must("resolution", "resolver") /\ Head(steps) # Mac!Must("install-sudoers", None)
    BY <1>4 DEF Mac!Must
  <2>2. Mac!AfterFailure(Head(steps), rest) = rest BY <1>4 DEF Mac!AfterFailure
  <2> QED BY <2>1, <2>2, RestKnows
<1>5. CASE Head(steps).must /\ rest # <<>> /\ rest[Len(rest)].do = "start-others"
  <2>1. Mac!AfterFailure(Head(steps), rest) = <<rest[Len(rest)]>> BY <1>5 DEF Mac!AfterFailure
  <2>2. rest[Len(rest)] \in Step
    <3>1. Len(rest) \in Nat /\ Len(rest) >= 1 /\ \A i \in 1 .. Len(rest) : rest[i] \in Step BY <1>2, <1>5
    <3>2. Len(rest) \in 1 .. Len(rest) BY <3>1
    <3> QED BY <3>1, <3>2
  <2>3. ~Enters(rest[Len(rest)]) /\ ~Forgets(rest[Len(rest)]) BY <1>5 DEF Enters, Forgets
  <2>4. Calm(<<rest[Len(rest)]>>) BY <2>2, <2>3, CalmOne
  <2> QED BY <2>1, <2>4 DEF TodoKnows, Calm
<1>6. CASE Head(steps).must /\ ~(rest # <<>> /\ rest[Len(rest)].do = "start-others")
  <2>1. Mac!AfterFailure(Head(steps), rest) = <<>> BY <1>6 DEF Mac!AfterFailure
  <2> QED BY <2>1, CalmNone DEF TodoKnows, Calm
<1> QED BY <1>4, <1>5, <1>6
LEMMA FixesKnown ==
  ASSUME NEW k PROVE \A c \in Mac!Problems(k) : c.fix \in KnownCommands
<1>0. \A i : \A f \in KnownCommands : Mac!Check(i, f).fix \in KnownCommands BY DEF Mac!Check
<1>k. /\ "start" \in KnownCommands /\ "restart" \in KnownCommands /\ "daemon install" \in KnownCommands
      /\ "takeover" \in KnownCommands /\ "setup" \in KnownCommands /\ "reload" \in KnownCommands
      /\ "resolution hosts" \in KnownCommands /\ "trust" \in KnownCommands
  BY DEF KnownCommands
<1>1. \A c \in Mac!check_daemon(k) : c.fix \in KnownCommands BY <1>0, <1>k DEF Mac!check_daemon
<1>2. \A c \in Mac!check_ports(k) : c.fix \in KnownCommands BY <1>0, <1>k DEF Mac!check_ports
<1>3. \A c \in Mac!check_resolution(k) : c.fix \in KnownCommands
  BY <1>0, <1>k DEF Mac!check_resolution
<1>4. Mac!Check("proxy", "start").fix \in KnownCommands BY DEF Mac!Check, KnownCommands
<1>5. \A c \in Mac!check_networking(k) : c.fix \in KnownCommands
  BY <1>2, <1>3, <1>4 DEF Mac!check_networking
<1>6. \A c \in Mac!check_tls(k) : c.fix \in KnownCommands BY <1>0, <1>k DEF Mac!check_tls
<1> QED BY <1>1, <1>5, <1>6 DEF Mac!Problems

-----------------------------------------------------------------------------
(* The invariant. *)

LEMMA SetupInit ==
  ASSUME SetupNamed, Mac!Init PROVE SetupInv
<1>1. PICK t : t = (CHOOSE u \in Tlds : u \notin Native) OBVIOUS
<1>2. t \in Tlds BY <1>1 DEF SetupNamed
<1>3. /\ DOMAIN mac = Fields /\ mac.tlds = {t} /\ mac.mode = "resolver" /\ mac.block = {}
      /\ mac.names \in SiteNames
  BY <1>1 DEF Mac!Init, Fields
<1>4. HostsManaged(mac) BY <1>2, <1>3 DEF HostsManaged, Kinds, SetupNamed
<1>5. steps = <<>> BY DEF Mac!Init
<1> QED BY <1>4, <1>5, CalmNone DEF SetupInv, TodoKnows, Calm

(* What happens to the machine beside the commands. *)
LEMMA EventsKnow ==
  ASSUME NEW k, HostsManaged(k)
  PROVE  /\ \A owner : Same(Mac!Started(k, owner), k)
         /\ Same([k EXCEPT !.stale = Mac!Up(k)], k)
         /\ Same([k EXCEPT !.owner = "none"], k)
         /\ \A bound : Same([k EXCEPT !.owner = "none", !.stale = FALSE, !.agent = Mac!Loaded(@),
                                      !.system = Mac!Loaded(@), !.bound = bound], k)
<1>1. DOMAIN k = Fields BY DEF HostsManaged
<1>2. ASSUME NEW owner PROVE Same(Mac!Started(k, owner), k)
  <2> DEFINE j == [k EXCEPT !.owner = owner, !.ca = TRUE, !.stale = FALSE]
  <2>1. Same(j, k) BY <1>1 DEF Same, Fields
  <2>2. HostsManaged(j) BY <2>1 DEF Same, HostsManaged, BlockIs
  <2> HIDE DEF j
  <2>3. Same(Mac!Synced(j), j) BY <2>2, SyncedSame
  <2>4. Mac!Started(k, owner) = Mac!Synced(j) BY DEF Mac!Started, j
  <2> QED BY <2>1, <2>3, <2>4 DEF Same
<1>3. Same([k EXCEPT !.stale = Mac!Up(k)], k) /\ Same([k EXCEPT !.owner = "none"], k) BY <1>1 DEF Same, Fields
<1>4. \A bound : Same([k EXCEPT !.owner = "none", !.stale = FALSE, !.agent = Mac!Loaded(@),
                                !.system = Mac!Loaded(@), !.bound = bound], k)
  BY <1>1 DEF Same, Fields
<1> QED BY <1>2, <1>3, <1>4

(* A reconcile after other domains or other sites. *)
LEMMA ConfigureKnows ==
  ASSUME NEW k, HostsManaged(k), NEW s, TodoKnows(s, k),
         NEW j, DOMAIN j = Fields, j.tlds \subseteq Tlds, j.names \in Kinds,
         j.mode = k.mode, j.sudoers = k.sudoers, j.block = k.block
  PROVE  HostsManaged(Mac!Synced(j)) /\ TodoKnows(s, Mac!Synced(j))
<1> DEFINE m == Mac!Synced(j)
<1>2. CASE k.mode = "hosts" /\ k.sudoers
  <2>1. m = [j EXCEPT !.block = Mac!sync_hosts(j)] BY <1>2 DEF Mac!Synced
  <2>2. BlockIs(j, Mac!sync_hosts(j)) BY HelperWrites
  <2>3. /\ DOMAIN m = Fields /\ m.tlds = j.tlds /\ m.names = j.names /\ m.mode = k.mode
        /\ m.sudoers = k.sudoers /\ m.block = Mac!sync_hosts(j)
    BY <2>1 DEF Fields
  <2> HIDE DEF m
  <2>4. BlockIs(m, m.block) BY <2>2, <2>3 DEF BlockIs
  <2>5. HostsManaged(m) BY <1>2, <2>3, <2>4 DEF HostsManaged
  <2>6. TodoKnows(s, m) BY <2>3 DEF TodoKnows, Leaving, Entering
  <2> QED BY <2>5, <2>6 DEF m
<1>3. CASE ~(k.mode = "hosts" /\ k.sudoers)
  <2>1. m = j BY <1>3 DEF Mac!Synced
  <2> HIDE DEF m
  <2>2. HostsManaged(j) BY <1>3 DEF HostsManaged
  <2>3. TodoKnows(s, j) BY DEF TodoKnows, Leaving, Entering
  <2> QED BY <2>1, <2>2, <2>3 DEF m
<1> QED BY <1>2, <1>3

LEMMA SetupStep ==
  ASSUME SetupNamed, SetupInv, [Mac!Next]_Mac!vars PROVE SetupInv'
<1> USE DEF SetupInv
<1>1. ASSUME NEW c \in SetupCommands, Mac!Begin(c) PROVE SetupInv'
  <2>1. steps' = Mac!Program(c, mac) /\ mac' = mac BY <1>1 DEF Mac!Begin
  <2>2. TodoKnows(Mac!Program(c, mac), mac) BY ProgramKnows DEF SetupNamed
  <2> QED BY <2>1, <2>2
<1>2. ASSUME NEW c \in Mac!Problems(mac), Mac!Fix(c) PROVE SetupInv'
  <2>1. steps' = Mac!Program(c.fix, mac) /\ mac' = mac BY <1>2 DEF Mac!Fix
  <2>2. TodoKnows(Mac!Program(c.fix, mac), mac) BY FixesKnown, ProgramKnows
  <2> QED BY <2>1, <2>2
<1>3. ASSUME Mac!Done PROVE SetupInv'
  <2>1. /\ steps # <<>> /\ Head(steps).do # "bail" /\ mac' = Mac!Effect(Head(steps), mac) /\ steps' = Tail(steps)
    BY <1>3 DEF Mac!Done, Mac!Idle, Mac!Able
  <2> QED BY <2>1, DoneKnows
<1>4. ASSUME Mac!Failed PROVE SetupInv'
  <2>1. steps # <<>> /\ mac' = mac /\ steps' = Mac!AfterFailure(Head(steps), Tail(steps))
    BY <1>4 DEF Mac!Failed, Mac!Idle
  <2> QED BY <2>1, FailedKnows
<1>5. ASSUME NEW daemon \in {"agent", "system"}, Mac!Respawn(daemon) PROVE SetupInv'
  <2>1. mac' = Mac!Started(mac, daemon) /\ steps' = steps BY <1>5 DEF Mac!Respawn
  <2>2. Same(mac', mac) BY <2>1, EventsKnow
  <2> QED BY <2>1, <2>2, SameKnows
<1>6. ASSUME Mac!RunByHand PROVE SetupInv'
  <2>1. (\E owner : mac' = Mac!Started(mac, owner)) /\ steps' = steps BY <1>6 DEF Mac!RunByHand, Mac!Happens
  <2>2. Same(mac', mac) BY <2>1, EventsKnow
  <2> QED BY <2>1, <2>2, SameKnows
<1>7. ASSUME Mac!Upgrade \/ Mac!Quit PROVE SetupInv'
  <2>1. /\ mac' = [mac EXCEPT !.stale = Mac!Up(mac)] \/ mac' = [mac EXCEPT !.owner = "none"]
        /\ steps' = steps
    BY <1>7 DEF Mac!Upgrade, Mac!Quit, Mac!Happens
  <2>2. Same(mac', mac) BY <2>1, EventsKnow
  <2> QED BY <2>1, <2>2, SameKnows
<1>8. ASSUME Mac!Reboot PROVE SetupInv'
  <2>1. Same(mac', mac) BY <1>8, EventsKnow DEF Mac!Reboot, Mac!Happens
  <2>2. steps' = <<>> BY <1>8 DEF Mac!Reboot
  <2>3. HostsManaged(mac') BY <2>1, SameKnows
  <2> QED BY <2>2, <2>3, CalmNone DEF TodoKnows, Calm
<1>9. ASSUME NEW T \in SUBSET Tlds, Mac!Configure(T) PROVE SetupInv'
  <2> DEFINE j == [mac EXCEPT !.tlds = T]
  <2>1. mac' = Mac!Synced(j) /\ steps' = steps BY <1>9 DEF Mac!Configure, Mac!Happens
  <2>2. /\ DOMAIN j = Fields /\ j.tlds \subseteq Tlds /\ j.names \in Kinds
        /\ j.mode = mac.mode /\ j.sudoers = mac.sudoers /\ j.block = mac.block
    BY DEF HostsManaged, Fields
  <2> HIDE DEF j
  <2> QED BY <2>1, <2>2, ConfigureKnows
<1>10. ASSUME NEW names \in SiteNames, Mac!Serve(names) PROVE SetupInv'
  <2> DEFINE j == [mac EXCEPT !.names = names]
  <2>1. mac' = Mac!Synced(j) /\ steps' = steps BY <1>10 DEF Mac!Serve, Mac!Happens
  <2>2. names \in Kinds BY DEF SetupNamed, Kinds
  <2>3. /\ DOMAIN j = Fields /\ j.tlds \subseteq Tlds /\ j.names \in Kinds
        /\ j.mode = mac.mode /\ j.sudoers = mac.sudoers /\ j.block = mac.block
    BY <2>2 DEF HostsManaged, Fields
  <2> HIDE DEF j
  <2> QED BY <2>1, <2>3, ConfigureKnows
<1>11. CASE UNCHANGED Mac!vars BY <1>11 DEF Mac!vars
<1> QED BY <1>1, <1>2, <1>3, <1>4, <1>5, <1>6, <1>7, <1>8, <1>9, <1>10, <1>11 DEF Mac!Next

(* The rule and the block are what the mode says, and what is left of a      *)
(* command keeps it so: the rule goes last and comes first.                  *)
THEOREM SetupInvariant ==
  ASSUME SetupNamed PROVE Mac!Spec => []SetupInv
<1>1. Mac!Init => SetupInv BY SetupInit
<1>2. SetupInv /\ [Mac!Next]_Mac!vars => SetupInv' BY SetupStep
<1> QED BY <1>1, <1>2, PTL DEF Mac!Spec

(* Whatever commands, refusals, restarts and events led here, outside hosts  *)
(* mode no entry of dpl's is left in /etc/hosts.                             *)
THEOREM NoEntryOutlives ==
  ASSUME SetupNamed PROVE Mac!Spec => []Mac!BlockGone
<1>1. SetupInv => Mac!BlockGone BY DEF SetupInv, HostsManaged, Mac!BlockGone
<1> QED BY <1>1, SetupInvariant, PTL

(* The helper refuses no site's name. *)
Listable == "bad" \notin SiteNames

LEMMA CleanState ==
  ASSUME Listable, SetupInv PROVE Mac!CleanIsReachable
<1> SUFFICES ASSUME \A c \in Mac!Problems(mac) : c.id = "autostart"
             PROVE  Mac!http_port(mac) = 80 /\ \A t \in mac.tlds : Mac!Resolves(t)
  BY DEF Mac!CleanIsReachable
<1>1. /\ \A c \in Mac!check_daemon(mac) : c.id = "autostart"
      /\ \A c \in Mac!check_networking(mac) : c.id = "autostart"
  BY DEF Mac!Problems
<1>2. Mac!Up(mac)
  <2>1. SUFFICES ASSUME ~Mac!Up(mac) PROVE FALSE OBVIOUS
  <2>2. Mac!Check("running", "start") \in Mac!check_daemon(mac) BY <2>1 DEF Mac!check_daemon
  <2> QED BY <1>1, <2>2 DEF Mac!Check
<1>3. /\ \A c \in Mac!check_ports(mac) : c.id = "autostart"
      /\ \A c \in Mac!check_resolution(mac) : c.id = "autostart"
  BY <1>1, <1>2 DEF Mac!check_networking
<1>4. Mac!http_port(mac) = 80
  <2>1. SUFFICES ASSUME Mac!http_port(mac) # 80 PROVE FALSE OBVIOUS
  <2>2. Mac!Check("privports", "setup") \in Mac!check_ports(mac) BY <2>1 DEF Mac!check_ports
  <2> QED BY <1>3, <2>2 DEF Mac!Check
<1>5. ASSUME NEW t \in mac.tlds PROVE Mac!Resolves(t)
  <2>1. CASE mac.mode = "hosts"
    <3>0. mac.block # {}
      <4>1. SUFFICES ASSUME mac.block = {} PROVE FALSE OBVIOUS
      <4>2. Mac!Check("hosts", "reload") \in Mac!check_resolution(mac) BY <2>1, <4>1 DEF Mac!check_resolution
      <4> QED BY <1>3, <4>2 DEF Mac!Check
    <3>1. mac.block = mac.tlds BY <2>1, <3>0 DEF SetupInv, HostsManaged, BlockIs, Kinds, Listable
    <3> QED BY <3>1, <1>5 DEF Mac!Resolves
  <2>2. CASE mac.mode # "hosts"
    <3>1. Mac!Unresolved(mac) = {}
      <4>1. SUFFICES ASSUME Mac!Unresolved(mac) # {} PROVE FALSE OBVIOUS
      <4>2. Mac!Check("resolver", "setup") \in Mac!check_resolution(mac) BY <2>2, <4>1 DEF Mac!check_resolution
      <4> QED BY <1>3, <4>2 DEF Mac!Check
    <3> QED BY <1>2, <1>5, <3>1 DEF Mac!Unresolved, Mac!Resolves
  <2> QED BY <2>1, <2>2
<1> QED BY <1>4, <1>5

(* A doctor's report with no problem is true: every configured domain        *)
(* resolves to this machine and port 80 leads to dpl, where the helper       *)
(* refuses no site's name.                                                   *)
THEOREM CleanReportIsTrue ==
  ASSUME SetupNamed, Listable PROVE Mac!Spec => []Mac!CleanIsReachable
BY CleanState, SetupInvariant, PTL

-----------------------------------------------------------------------------
(* The Node tools                                                            *)

(* What a fan-out does is what it decided when it made its plan. *)
PlanKnown ==
  \A c \in Fans : fans[c] = "running" =>
    /\ seen[c] \in [Sites -> Node!Project] /\ DOMAIN plan[c] \subseteq Sites
    /\ jobs[c].agent \in Node!Agents \cup {None}
    /\ \A s \in DOMAIN plan[c] : plan[c][s] = Node!Choice(seen[c][s], jobs[c].agent)

PlanInv ==
  /\ projects \in [Sites -> Node!Project]
  /\ DOMAIN fans = Fans /\ DOMAIN plan = Fans /\ DOMAIN jobs = Fans /\ DOMAIN seen = Fans
  /\ PlanKnown

-----------------------------------------------------------------------------
(* The lockfile that is found first is one that is there. *)
LEMMA LockFound ==
  ASSUME NEW f \in Node!Project
  PROVE  Node!FromLock(f) \in Node!Agents /\ (f.locks # {} => Node!FromLock(f) \in f.locks)
<1> DEFINE known == Node!LOCKFILES
           found == {i \in 1 .. Len(known) : known[i] \in f.locks}
           first == CHOOSE i \in found : \A j \in found : i <= j
<1>1. Len(known) = 4 /\ known[1] = "pnpm" /\ known[2] = "bun" /\ known[3] = "yarn" /\ known[4] = "npm"
  BY DEF Node!LOCKFILES
<1>2. 1 .. 4 = {1, 2, 3, 4} OBVIOUS
<1> HIDE DEF known
<1>3. f.locks \subseteq Node!Agents BY DEF Node!Project
<1>4. f.locks # {} => found # {} BY <1>1, <1>2, <1>3 DEF Node!Agents
<1>5. CASE found # {}
  <2>2. \E m \in found : \A n \in found : m <= n
    <3>1. found \subseteq {1, 2, 3, 4} BY <1>1, <1>2
    <3>2. 1 \in found \/ 2 \in found \/ 3 \in found \/ 4 \in found BY <1>5, <3>1
    <3> HIDE DEF found
    <3>3. CASE 1 \in found BY <3>1, <3>3
    <3>4. CASE 1 \notin found /\ 2 \in found BY <3>1, <3>4
    <3>5. CASE 1 \notin found /\ 2 \notin found /\ 3 \in found BY <3>1, <3>5
    <3>6. CASE 1 \notin found /\ 2 \notin found /\ 3 \notin found BY <3>1, <3>2, <3>6
    <3> QED BY <3>3, <3>4, <3>5, <3>6
  <2>3. first \in found BY <2>2
  <2>4. first \in {1, 2, 3, 4} /\ known[first] \in f.locks BY <1>1, <1>2, <2>3
  <2>5. Node!FromLock(f) = known[first] BY <1>1, <1>5 DEF Node!FromLock, known
  <2> QED BY <1>3, <2>4, <2>5
<1>6. CASE found = {}
  <2>2. Node!FromLock(f) = "npm" BY <1>1, <1>6 DEF Node!FromLock, known
  <2> QED BY <1>4, <1>6, <2>2 DEF Node!Agents
<1> QED BY <1>5, <1>6

LEMMA ChoiceKnown ==
  ASSUME NEW f \in Node!Project, NEW agent \in Node!Agents \cup {None}
  PROVE  /\ Node!Choice(f, agent).agent \in Node!Agents
         /\ agent = None /\ f.declared = None => Node!Choice(f, agent).agent = Node!FromLock(f)
<1>1. f.declared \in Node!Agents \cup {None} BY DEF Node!Project
<1>2. Node!FromLock(f) \in Node!Agents BY LockFound
<1>3. /\ Node!detect_agent(f).agent \in Node!Agents
      /\ f.declared = None => Node!detect_agent(f).agent = Node!FromLock(f)
  BY <1>1, <1>2 DEF Node!detect_agent
<1> QED BY <1>3 DEF Node!Choice

(* What a step of a plan may do to its project. *)
LEMMA RunLeaves ==
  ASSUME PlanInv, NEW c \in Fans, NEW s \in Sites, Node!RunIn(c, s)
  PROVE  /\ projects' \in [Sites -> Node!Project]
         /\ projects'[s].locks \in {projects[s].locks, projects[s].locks \cup {plan[c][s].agent}}
<1>1. fans[c] = "running" /\ s \in DOMAIN plan[c] BY DEF Node!RunIn
<1>2. plan[c][s].agent \in Node!Agents BY <1>1, ChoiceKnown DEF PlanInv, PlanKnown
<1> DEFINE agent == plan[c][s].agent
           args == Node!install_args(plan[c][s], jobs[c].what)
           kept == Node!Left(projects[s], agent, args)
<1>3. projects[s] \in Node!Project BY DEF PlanInv
<1>4. kept \in Node!Project /\ kept.locks \in {projects[s].locks, projects[s].locks \cup {agent}}
  BY <1>2, <1>3 DEF Node!Left, Node!Project
<1>5. projects' = [projects EXCEPT ![s] = kept] \/ projects' = [projects EXCEPT ![s] = projects[s]]
  BY DEF Node!RunIn
<1> HIDE DEF kept, agent
<1>6. projects'[s] \in {kept, projects[s]} /\ projects' \in [Sites -> Node!Project]
  BY <1>3, <1>4, <1>5 DEF PlanInv
<1> QED BY <1>4, <1>6 DEF agent

LEMMA PlanStep ==
  ASSUME ToolsNamed, PlanInv, [Node!Next]_Node!vars PROVE PlanInv'
<1> USE DEF PlanInv
<1>1. ASSUME NEW c \in Fans, NEW what, NEW agent \in Forced, NEW failFast, Node!FanOut(c, what, agent, failFast)
      PROVE  PlanInv'
  <2>1. PICK targets \in SUBSET Node!npm_targets \ {{}} :
          plan' = [plan EXCEPT ![c] = [s \in targets |-> Node!Choice(projects[s], agent)]]
    BY <1>1 DEF Node!FanOut
  <2>2. targets \subseteq Sites BY <2>1 DEF Node!npm_targets
  <2>3. /\ fans' = [fans EXCEPT ![c] = "running"] /\ jobs' = [jobs EXCEPT ![c] = [what |-> what, agent |-> agent]]
        /\ seen' = [seen EXCEPT ![c] = projects] /\ projects' = projects
    BY <1>1 DEF Node!FanOut
  <2>4. agent \in Node!Agents \cup {None} BY DEF ToolsNamed
  <2>5. /\ DOMAIN plan'[c] = targets /\ jobs'[c].agent = agent /\ seen'[c] = projects
        /\ \A s \in targets : plan'[c][s] = Node!Choice(projects[s], agent)
    BY <2>1, <2>3
  <2>6. \A d \in Fans \ {c} : plan'[d] = plan[d] /\ jobs'[d] = jobs[d] /\ seen'[d] = seen[d] /\ fans'[d] = fans[d]
    BY <2>1, <2>3
  <2>7. PlanKnown' BY <2>2, <2>4, <2>5, <2>6 DEF PlanKnown
  <2> QED BY <2>1, <2>3, <2>7
<1>2. ASSUME NEW c \in Fans, NEW s \in Sites, Node!RunIn(c, s) PROVE PlanInv'
  <2>1. projects' \in [Sites -> Node!Project] BY <1>2, RunLeaves
  <2>2. fans' = fans /\ jobs' = jobs /\ seen' = seen /\ fans[c] = "running" BY <1>2 DEF Node!RunIn
  <2>3. plan' = [plan EXCEPT ![c] = <<>>] \/ plan' = [plan EXCEPT ![c] = Node!Without(c, s)]
    BY <1>2 DEF Node!RunIn
  <2>4. /\ DOMAIN plan'[c] \subseteq DOMAIN plan[c] /\ \A t \in DOMAIN plan'[c] : plan'[c][t] = plan[c][t]
        /\ \A d \in Fans \ {c} : plan'[d] = plan[d]
    BY <2>3 DEF Node!Without
  <2>5. PlanKnown' BY <2>2, <2>4 DEF PlanKnown
  <2> QED BY <2>1, <2>2, <2>3, <2>5
<1>3. ASSUME NEW c \in Fans, Node!End(c) PROVE PlanInv'
  <2>1. /\ fans' = [fans EXCEPT ![c] = "idle"] /\ plan' = [plan EXCEPT ![c] = <<>>]
        /\ jobs' = [jobs EXCEPT ![c] = None] /\ seen' = [seen EXCEPT ![c] = None] /\ projects' = projects
    BY <1>3 DEF Node!End
  <2>2. fans'[c] = "idle" BY <2>1
  <2>3. \A d \in Fans \ {c} : plan'[d] = plan[d] /\ jobs'[d] = jobs[d] /\ seen'[d] = seen[d] /\ fans'[d] = fans[d]
    BY <2>1
  <2>4. PlanKnown' BY <2>2, <2>3 DEF PlanKnown
  <2> QED BY <2>1, <2>4
<1>4. ASSUME NEW s \in Sites, NEW v \in NodeVersions, projects' = [projects EXCEPT ![s].nvmrc = v], UNCHANGED Node!fan
      PROVE  PlanInv'
  <2>1. [projects[s] EXCEPT !.nvmrc = v] \in Node!Project
    <3>1. projects[s] \in Node!Project OBVIOUS
    <3> QED BY <3>1 DEF Node!Project
  <2>2. projects' \in [Sites -> Node!Project] BY <1>4, <2>1
  <2>3. PlanKnown' BY <1>4 DEF PlanKnown, Node!fan
  <2> QED BY <1>4, <2>2, <2>3 DEF Node!fan
<1>5. ASSUME NEW s \in Sites, Node!Detect(s) PROVE PlanInv'
  <2>1. projects[s].engines \in Ranges
    <3>1. projects[s].engines \in Ranges \cup {None} BY DEF Node!Project
    <3>2. Node!read_pin(projects[s]).source = "package.json" /\ Node!read_pin(projects[s]) # None
      BY <1>5 DEF Node!Detect
    <3> QED BY <3>1, <3>2 DEF Node!read_pin, Node!Pin
  <2>2. FirstOf[projects[s].engines] \in NodeVersions BY <1>5, <2>1 DEF Node!Detect, ToolsNamed
  <2>3. projects' = [projects EXCEPT ![s].nvmrc = FirstOf[projects[s].engines]] /\ UNCHANGED Node!fan
    BY <1>5 DEF Node!Detect, Node!write_nvmrc
  <2> QED BY <1>4, <2>2, <2>3
<1>6. ASSUME NEW s \in Sites, NEW v \in NodeVersions, Node!Use(s, v) PROVE PlanInv'
  BY <1>4, <1>6 DEF Node!Use, Node!write_nvmrc
<1>7. ASSUME NEW s \in Sites, Node!Switch(s) PROVE PlanInv'
  <2>1. projects' \in [Sites -> Node!Project] BY <1>7 DEF Node!Switch, ToolsNamed
  <2>2. UNCHANGED Node!fan BY <1>7 DEF Node!Switch
  <2>3. PlanKnown' BY <2>2 DEF PlanKnown, Node!fan
  <2> QED BY <2>1, <2>2, <2>3 DEF Node!fan
<1>8. CASE UNCHANGED Node!vars
  <2>1. PlanKnown' BY <1>8 DEF PlanKnown, Node!vars, Node!fan
  <2> QED BY <1>8, <2>1 DEF Node!vars, Node!fan
<1> QED BY <1>1, <1>2, <1>3, <1>5, <1>6, <1>7, <1>8 DEF Node!Next

LEMMA PlanInit ==
  ASSUME ToolsNamed, Node!Init PROVE PlanInv
BY DEF Node!Init, PlanInv, PlanKnown, ToolsNamed

-----------------------------------------------------------------------------
(* Pinning what package.json asks for changes no job. *)
LEMMA PinKeepsNode ==
  ASSUME ToolsNamed, PlanInv, NEW s \in Sites PROVE Node!SameNode(s)
<1> SUFFICES ASSUME Node!Detect(s) PROVE Node!NodeOf(projects'[s]) = Node!NodeOf(projects[s])
  BY DEF Node!SameNode
<1> DEFINE f == projects[s]
           v == FirstOf[f.engines]
<1>1. f \in Node!Project BY DEF PlanInv
<1>2. /\ Node!read_pin(f) # None /\ Node!read_pin(f).source = "package.json" /\ v # None
      /\ projects' = [projects EXCEPT ![s].nvmrc = v] /\ manager' = manager
  BY DEF Node!Detect, Node!write_nvmrc
<1>3. f.nvmrc = None /\ f.nodeVersion = None /\ f.engines # None /\ f.engines \in Ranges
  <2>1. f.nvmrc = None /\ f.nodeVersion = None /\ f.engines # None BY <1>2 DEF Node!read_pin, Node!Pin
  <2> QED BY <1>1, <2>1 DEF Node!Project
<1>4. Node!read_pin(f) = Node!Pin(f.engines, "package.json") BY <1>3 DEF Node!read_pin
<1>5. v \in NodeVersions BY <1>2, <1>3 DEF ToolsNamed
<1>6. projects'[s] = [f EXCEPT !.nvmrc = v] /\ projects'[s].nvmrc = v
  BY <1>1, <1>2 DEF PlanInv, Node!Project
<1>a. v # None /\ manager' = manager BY <1>2
<1> HIDE DEF f, v
<1>7. Node!read_pin(projects'[s]) = Node!Pin(v, ".nvmrc") /\ Node!Pin(v, ".nvmrc") # None
  <2>1. \A g : g.nvmrc = v => Node!read_pin(g) = Node!Pin(v, ".nvmrc") BY <1>a DEF Node!read_pin
  <2>2. Node!Pin(v, ".nvmrc") # None BY <1>5 DEF ToolsNamed
  <2> QED BY <1>6, <2>1, <2>2
<1>8. CASE manager = None
  <2>1. Node!pinned_invocation(Node!read_pin(f)) = PathNode /\ PathNode # "file"
    BY <1>8 DEF Node!pinned_invocation, ToolsNamed
  <2>2. Node!pinned_invocation(Node!read_pin(projects'[s])) = PathNode
    BY <1>8 DEF Node!pinned_invocation
  <2> QED BY <2>1, <2>2 DEF Node!NodeOf, f
<1>9. CASE manager # None
  <2>1. Node!pinned_invocation(Node!Pin(f.engines, "package.json")) = v
    BY <1>2, <1>4, <1>9 DEF Node!pinned_invocation, Node!Pin, v
  <2>2. Node!NodeOf(f) = v BY <1>4, <1>5, <2>1 DEF Node!NodeOf, ToolsNamed
  <2>3. Node!pinned_invocation(Node!Pin(v, ".nvmrc")) = "file"
    BY <1>7, <1>9 DEF Node!pinned_invocation, Node!Pin
  <2>4. Node!OwnFile(projects'[s]) = v BY <1>2, <1>6 DEF Node!OwnFile
  <2> QED BY <1>7, <2>2, <2>3, <2>4 DEF Node!NodeOf, f
<1> QED BY <1>8, <1>9

(* An install with the manager whose lockfile is there brings no other. *)
LEMMA InstallKeepsLock ==
  ASSUME PlanInv, NEW c \in Fans, NEW s \in Sites PROVE Node!NoSecondLock(c, s)
<1> SUFFICES ASSUME Node!RunIn(c, s), jobs[c].agent = None, projects[s] = seen[c][s], projects[s].declared = None,
                    projects[s].locks # {}
             PROVE  projects'[s].locks = projects[s].locks
  BY DEF Node!NoSecondLock
<1>1. fans[c] = "running" /\ s \in DOMAIN plan[c] BY DEF Node!RunIn
<1>2. plan[c][s] = Node!Choice(projects[s], None) BY <1>1 DEF PlanInv, PlanKnown
<1>3. projects[s] \in Node!Project BY DEF PlanInv
<1>4. plan[c][s].agent = Node!FromLock(projects[s]) BY <1>2, <1>3, ChoiceKnown
<1>5. plan[c][s].agent \in projects[s].locks BY <1>3, <1>4, LockFound
<1>6. projects'[s].locks \in {projects[s].locks, projects[s].locks \cup {plan[c][s].agent}}
  BY RunLeaves
<1> QED BY <1>5, <1>6

(* Pinning what package.json asks for changes no job, and an install whose   *)
(* manager nobody forced or declared brings no second lockfile to a project  *)
(* that is as the plan found it.                                             *)
THEOREM ToolsFollowProject ==
  ASSUME ToolsNamed PROVE Node!Spec => Node!ToolsMatch
<1>1. Node!Init => PlanInv BY PlanInit
<1>2. PlanInv /\ [Node!Next]_Node!vars => PlanInv' BY PlanStep
<1>3. PlanInv => Node!Matching BY PinKeepsNode, InstallKeepsLock DEF Node!Matching
<1> QED BY <1>1, <1>2, <1>3, PTL DEF Node!Spec, Node!ToolsMatch

-----------------------------------------------------------------------------
(* The PHP tools                                                             *)

LEMMA PhpStart == ASSUME PhpNamed PROVE Php!Init => Php!TypeOK
<1> SUFFICES ASSUME Php!Init PROVE Php!TypeOK OBVIOUS
<1>1. keg \in [PhpLines -> {"none", "partial", "ok"}] BY DEF Php!Init
<1>2. conf \in [PhpLines -> [Exts -> {"none", "live", "spaced", "off", "dead"}]]
  <2>1. conf \in [PhpLines -> [Exts -> {"none", "off"} \cup Lines]] BY DEF Php!Init
  <2>2. {"none", "off"} \cup Lines \subseteq {"none", "live", "spaced", "off", "dead"} BY DEF PhpNamed
  <2> DEFINE few == {"none", "off"} \cup Lines
             all5 == {"none", "live", "spaced", "off", "dead"}
  <2>3. conf \in [PhpLines -> [Exts -> few]] /\ few \subseteq all5 BY <2>1, <2>2
  <2> HIDE DEF few, all5
  <2>4. conf \in [PhpLines -> [Exts -> all5]] BY <2>3
  <2> QED BY <2>4 DEF all5
<1>3. libs \in [PhpLines -> SUBSET Exts] BY DEF Php!Init
<1> QED BY <1>1, <1>2, <1>3 DEF Php!Init, Php!TypeOK, PhpNamed

(* A command that goes on to another step. *)
LEMMA BecomeKeeps ==
  ASSUME Php!TypeOK, NEW c \in PhpClis, NEW p \in {"idle", "brew", "fix"}, NEW es \in SUBSET Exts,
         NEW t \in {None} \cup Php!Job, p # "idle" => t \in Php!Job, Php!Become(c, p, t, es)
  PROVE  /\ phase' \in [PhpClis -> {"idle", "brew", "fix"}] /\ inis' \in [PhpClis -> SUBSET Exts]
         /\ task' \in [PhpClis -> {None} \cup Php!Job]
         /\ \A d \in PhpClis : phase'[d] # "idle" => task'[d] \in Php!Job
BY DEF Php!TypeOK, Php!Become

(* What brew takes apart. *)
LEMMA UnlinkedKeeps ==
  ASSUME Php!TypeOK, NEW v \in PhpLines, Php!Unlinked(v)
  PROVE  /\ keg' \in [PhpLines -> {"none", "partial", "ok"}]
         /\ libs' \in [PhpLines -> SUBSET Exts] /\ aside' \in [PhpLines -> SUBSET Exts]
         /\ conf' = conf /\ moved' = moved
BY DEF Php!TypeOK, Php!Unlinked

LEMMA PhpKeeps == ASSUME PhpNamed PROVE Php!TypeOK /\ [Php!Next]_Php!vars => Php!TypeOK'
<1> SUFFICES ASSUME Php!TypeOK, [Php!Next]_Php!vars PROVE Php!TypeOK' OBVIOUS
<1>1. ASSUME NEW c \in PhpClis, NEW v \in PhpLines, NEW what \in PhpCommands, Php!Brew(c, what, v)
      PROVE  Php!TypeOK'
  <2>1. Php!Become(c, "brew", Php!Task(what, v, None), {}) /\ Php!Unlinked(v) /\ brews' = brews + 1
        /\ brews < MaxBrews /\ UNCHANGED <<legacy, loader>>
    BY <1>1 DEF Php!Brew
  <2>2. Php!Task(what, v, None) \in Php!Job BY DEF Php!Task, Php!Job
  <2>3. brews' \in 0..MaxBrews BY <2>1 DEF Php!TypeOK, PhpNamed
  <2> QED BY <2>1, <2>2, <2>3, BecomeKeeps, UnlinkedKeeps DEF Php!TypeOK
<1>2. ASSUME NEW c \in PhpClis, NEW v \in PhpLines, Php!Repair(c, v) \/ Php!php_fix(c, v)
      PROVE  Php!TypeOK'
  <2>1. Php!Task("repair", v, None) \in Php!Job /\ Php!Task("fix", v, None) \in Php!Job
    BY DEF Php!Task, Php!Job
  <2>2. Php!Files(v) \in SUBSET Exts BY DEF Php!Files
  <2>3. CASE Php!Unlinked(v) /\ Php!Become(c, "brew", Php!Task("repair", v, None), {})
             /\ UNCHANGED <<legacy, loader, brews>>
    BY <2>1, <2>3, BecomeKeeps, UnlinkedKeeps DEF Php!TypeOK
  <2>4. CASE /\ \E t \in Php!Job : Php!Become(c, "fix", t, Php!Files(v))
             /\ UNCHANGED <<keg, libs, moved, conf, aside, legacy, loader, brews>>
    <3>1. PICK t \in Php!Job : Php!Become(c, "fix", t, Php!Files(v)) BY <2>4
    <3> QED BY <3>1, <2>2, <2>4, BecomeKeeps DEF Php!TypeOK
  <2> QED BY <1>2, <2>1, <2>3, <2>4 DEF Php!Repair, Php!php_fix, Php!machine
<1>3. ASSUME NEW c \in PhpClis, Php!Linked(c) PROVE Php!TypeOK'
  <2> DEFINE v == task[c].version
  <2>1. task[c] \in Php!Job BY <1>3 DEF Php!Linked, Php!TypeOK
  <2>2. v \in PhpLines BY <2>1 DEF Php!Job
  <2>3. /\ libs' \in [PhpLines -> SUBSET Exts] /\ aside' \in [PhpLines -> SUBSET Exts]
        /\ moved' \in [PhpLines -> SUBSET Linking]
    BY <1>3, <2>2 DEF Php!Linked, Php!TypeOK
  <2>4. keg' \in [PhpLines -> {"none", "partial", "ok"}] BY <1>3 DEF Php!Linked, Php!TypeOK
  <2>5. \/ \E es \in SUBSET Exts : Php!Become(c, "fix", task[c], es)
        \/ Php!Become(c, "idle", None, {})
    BY <1>3 DEF Php!Linked
  <2>6. UNCHANGED <<conf, legacy, loader, brews>> BY <1>3 DEF Php!Linked
  <2> HIDE DEF v
  <2> QED BY <2>1, <2>3, <2>4, <2>5, <2>6, BecomeKeeps DEF Php!TypeOK
<1>4. ASSUME NEW c \in PhpClis, NEW e \in Exts, Php!FixFile(c, e) PROVE Php!TypeOK'
  <2> DEFINE v == task[c].version
  <2>1. v \in PhpLines BY <1>4 DEF Php!FixFile, Php!TypeOK, Php!Job
  <2>2. \E line \in {"dead", conf[v][e]} : conf' = [conf EXCEPT ![v][e] = line] BY <1>4 DEF Php!FixFile
  <2> HIDE DEF v
  <2>3. conf' \in [PhpLines -> [Exts -> {"none", "live", "spaced", "off", "dead"}]]
    BY <2>1, <2>2 DEF Php!TypeOK
  <2>4. inis' \in [PhpClis -> SUBSET Exts] BY <1>4 DEF Php!FixFile, Php!TypeOK
  <2> QED BY <1>4, <2>3, <2>4 DEF Php!FixFile, Php!TypeOK
<1>5. ASSUME NEW c \in PhpClis, Php!FixEnd(c) PROVE Php!TypeOK'
  <2>1. Php!Become(c, "idle", None, {}) /\ UNCHANGED <<keg, libs, moved, conf, aside, loader, brews>>
        /\ legacy' \subseteq legacy
    BY <1>5 DEF Php!FixEnd, Php!machine
  <2> QED BY <2>1, BecomeKeeps DEF Php!TypeOK
<1>6. ASSUME NEW v \in PhpLines, NEW e \in Exts, Php!ExtInstall(v, e) \/ Php!ExtUninstall(v, e) PROVE Php!TypeOK'
  <2>1. /\ UNCHANGED <<keg, aside, legacy, loader, phase, task, inis>>
        /\ brews' = brews + 1 /\ brews < MaxBrews
        /\ \E s \in SUBSET Exts : libs' = [libs EXCEPT ![v] = s]
        /\ moved' = [moved EXCEPT ![v] = @ \ {e}]
        /\ \E line \in {"none", conf[v][e]} \cup Lines : conf' = [conf EXCEPT ![v][e] = line]
    BY <1>6 DEF Php!ExtInstall, Php!ExtUninstall, Php!cli, Php!TypeOK
  <2>2. brews' \in 0..MaxBrews BY <2>1 DEF Php!TypeOK, PhpNamed
  <2>3. conf' \in [PhpLines -> [Exts -> {"none", "live", "spaced", "off", "dead"}]]
    <3>1. PICK line \in {"none", conf[v][e]} \cup Lines : conf' = [conf EXCEPT ![v][e] = line] BY <2>1
    <3>2. conf \in [PhpLines -> [Exts -> {"none", "live", "spaced", "off", "dead"}]] BY DEF Php!TypeOK
    <3>3. line \in {"none", "live", "spaced", "off", "dead"} BY <3>2 DEF PhpNamed
    <3> QED BY <3>1, <3>2, <3>3
  <2>4. libs' \in [PhpLines -> SUBSET Exts] BY <2>1 DEF Php!TypeOK
  <2>5. moved' \in [PhpLines -> SUBSET Linking] BY <2>1 DEF Php!TypeOK
  <2> QED BY <2>1, <2>2, <2>3, <2>4, <2>5 DEF Php!TypeOK
<1>7. ASSUME NEW v \in PhpLines, NEW es \in SUBSET Php!Own, Php!StartMaster(v, es) PROVE Php!TypeOK'
  BY <1>7 DEF Php!StartMaster, Php!write_loader, Php!machine, Php!cli, Php!TypeOK
<1>8. CASE UNCHANGED Php!vars BY <1>8 DEF Php!vars, Php!machine, Php!cli, Php!TypeOK
<1>9. ASSUME NEW v \in PhpLines, NEW e \in Exts, Php!LibraryMoves(v, e) PROVE Php!TypeOK'
  <2>1. /\ UNCHANGED <<keg, libs, conf, aside, legacy, loader, phase, task, inis>>
        /\ brews' = brews + 1 /\ brews < MaxBrews
        /\ e \in Linking /\ moved' = [moved EXCEPT ![v] = @ \cup {e}]
    BY <1>9 DEF Php!LibraryMoves, Php!cli
  <2>2. brews' \in 0..MaxBrews BY <2>1 DEF Php!TypeOK, PhpNamed
  <2>3. moved' \in [PhpLines -> SUBSET Linking] BY <2>1 DEF Php!TypeOK
  <2> QED BY <2>1, <2>2, <2>3 DEF Php!TypeOK
<1> QED BY <1>1, <1>2, <1>3, <1>4, <1>5, <1>6, <1>7, <1>8, <1>9 DEF Php!Next

(* The types hold whatever Homebrew and the commands do.                     *)
THEOREM PhpTyping == ASSUME PhpNamed PROVE Php!Spec => []Php!TypeOK
BY PhpStart, PhpKeeps, PTL DEF Php!Spec

(* What dpl's own scan directory loads has its library when the master       *)
(* starts: the loader is written by that very start.                         *)
THEOREM LoadersLoad == ASSUME PhpNamed PROVE Php!Spec => Php!LoaderLoads
<1>1. Php!TypeOK => [Php!Loading]_Php!vars
  <2> SUFFICES ASSUME Php!TypeOK, NEW v \in PhpLines, NEW es \in SUBSET Php!Own, Php!StartMaster(v, es)
               PROVE  Php!Dangling(v, es)' \subseteq Php!Asked(v)
    BY DEF Php!Loading
  <2>1. conf' = conf /\ libs' = libs BY DEF Php!StartMaster, Php!machine
  <2>2. loader' = [loader EXCEPT ![v] = (@ \ es) \cup {e \in es : Php!SoPath(v, e)}]
    BY DEF Php!StartMaster, Php!write_loader
  <2>3. \A e \in es : e \in loader'[v] => Php!SoPath(v, e) BY <2>2 DEF Php!TypeOK
  <2>4. Php!SoPath(v, "xdebug") => "xdebug" \in libs[v] BY DEF Php!SoPath
  <2>5. Php!Asked(v)' = Php!Asked(v) BY <2>1 DEF Php!Asked
  <2>6. Php!Dangling(v, es)' = (Php!Asked(v)' \cup (es \cap {"xdebug"} \cap loader'[v])) \ libs'[v]
    BY DEF Php!Dangling
  <2> QED BY <2>1, <2>3, <2>4, <2>5, <2>6
<1> QED BY <1>1, PhpTyping, PTL DEF Php!LoaderLoads

(* Homebrew is left alone, but for the extensions a user installs and the    *)
(* reinstallation of a line without a binary that a repair begins with.      *)
BrewRests == PhpCommands \subseteq {"ext-install", "fix"}

(* The line a command is about.                                              *)
LineFor(c) == task[c].version

(* brew works on a line that has no binary, one command at a time; a fix     *)
(* runs for a line that has one, and no brew will touch it.                  *)
BrewKnows ==
  /\ \A c \in PhpClis : phase[c] = "brew" => keg[LineFor(c)] # "ok" /\ LineFor(c) \notin PathPhp
  /\ \A c, d \in PhpClis : phase[c] = "brew" /\ phase[d] = "brew" /\ LineFor(c) = LineFor(d) => c = d
  /\ \A c \in PhpClis : phase[c] = "fix" => keg[LineFor(c)] = "ok" \/ LineFor(c) \in PathPhp

(* What a fix has still to read has every extension without a library.       *)
FixKnows ==
  /\ \A v \in PhpLines, e \in Exts : conf[v][e] # "spaced"
  /\ \A c \in PhpClis : phase[c] = "fix" /\ keg[LineFor(c)] = "ok" =>
       Php!Asked(LineFor(c)) \ libs[LineFor(c)] \subseteq inis[c]

(* A command under way has its task.                                         *)
LEMMA CommandIs ==
  ASSUME Php!TypeOK, NEW c \in PhpClis, phase[c] # "idle"
  PROVE  task[c] \in Php!Job /\ LineFor(c) \in PhpLines
BY DEF Php!TypeOK, LineFor, Php!Job

(* The steps there are while Homebrew rests.                                 *)
LEMMA RestingSteps ==
  ASSUME BrewRests, Php!TypeOK, Php!Next
  PROVE  \/ \E c \in PhpClis, v \in PhpLines :
              /\ Php!resolve(v) = None /\ ~Php!Busy(v) /\ Php!Unlinked(v)
              /\ Php!Become(c, "brew", Php!Task("repair", v, None), {}) /\ phase[c] = "idle"
         \/ \E c \in PhpClis, v \in PhpLines, what \in {"repair", "fix"} :
              /\ Php!resolve(v) # None /\ UNCHANGED <<keg, libs, conf, aside>>
              /\ Php!Become(c, "fix", Php!Task(what, v, None), Php!Files(v)) /\ phase[c] = "idle"
         \/ \E c \in PhpClis : Php!Linked(c)
         \/ \E c \in PhpClis, e \in Exts : Php!FixFile(c, e)
         \/ \E c \in PhpClis : Php!FixEnd(c)
         \/ \E v \in PhpLines, e \in Exts : Php!ExtInstall(v, e)
         \/ UNCHANGED <<keg, libs, conf, aside, phase, task, inis>>
<1>1. \A c \in PhpClis, v \in PhpLines, what \in PhpCommands : ~Php!Brew(c, what, v) BY DEF BrewRests, Php!Brew
<1>2. \A v \in PhpLines, e \in Exts : ~Php!ExtUninstall(v, e) BY DEF BrewRests, Php!ExtUninstall
<1>3. ASSUME NEW c \in PhpClis, NEW v \in PhpLines, Php!Repair(c, v), Php!resolve(v) # None
      PROVE  /\ UNCHANGED <<keg, libs, conf, aside>> /\ phase[c] = "idle"
             /\ Php!Become(c, "fix", Php!Task("repair", v, None), Php!Files(v))
  BY <1>3 DEF Php!Repair, Php!machine
<1>4. ASSUME NEW c \in PhpClis, NEW v \in PhpLines, Php!Repair(c, v), Php!resolve(v) = None
      PROVE  /\ ~Php!Busy(v) /\ Php!Unlinked(v) /\ phase[c] = "idle"
             /\ Php!Become(c, "brew", Php!Task("repair", v, None), {})
  BY <1>4 DEF Php!Repair
<1>5. ASSUME NEW c \in PhpClis, NEW v \in PhpLines, Php!php_fix(c, v)
      PROVE  /\ Php!resolve(v) # None /\ UNCHANGED <<keg, libs, conf, aside>> /\ phase[c] = "idle"
             /\ Php!Become(c, "fix", Php!Task("fix", v, None), Php!Files(v))
  BY <1>5 DEF Php!php_fix, Php!machine
<1>6. ASSUME NEW v \in PhpLines, NEW es, Php!StartMaster(v, es)
      PROVE  UNCHANGED <<keg, libs, conf, aside, phase, task, inis>>
  BY <1>6 DEF Php!StartMaster, Php!machine, Php!cli
<1>7. ASSUME NEW v \in PhpLines, NEW e \in Exts, Php!LibraryMoves(v, e)
      PROVE  UNCHANGED <<keg, libs, conf, aside, phase, task, inis>>
  BY <1>7 DEF Php!LibraryMoves, Php!cli
<1> QED BY <1>1, <1>2, <1>3, <1>4, <1>5, <1>6, <1>7 DEF Php!Next

(* A line resolves to a PHP when Homebrew or the path has one.               *)
LEMMA ResolvedIs ==
  ASSUME PhpNamed, NEW v \in PhpLines
  PROVE  Php!resolve(v) = None <=> keg[v] # "ok" /\ v \notin PathPhp
BY DEF Php!resolve, PhpNamed

(* A command that moves on leaves the others where they are.                 *)
LEMMA BecomeIs ==
  ASSUME Php!TypeOK, NEW c \in PhpClis, NEW p, NEW t, NEW es, Php!Become(c, p, t, es)
  PROVE  \A d \in PhpClis : /\ d # c => phase'[d] = phase[d] /\ task'[d] = task[d] /\ inis'[d] = inis[d]
                            /\ d = c => phase'[d] = p /\ task'[d] = t /\ inis'[d] = es
BY DEF Php!TypeOK, Php!Become

(* The end of a brew: the line is whole, and its fix begins, or as before.   *)
LEMMA LinkedIs ==
  ASSUME BrewRests, Php!TypeOK, NEW c \in PhpClis, Php!Linked(c)
  PROVE  /\ phase[c] = "brew" /\ conf' = conf
         /\ \A v \in PhpLines : libs[v] \subseteq libs'[v]
         /\ \A v \in PhpLines : v # LineFor(c) => keg'[v] = keg[v] /\ libs'[v] = libs[v]
         /\ \/ keg'[LineFor(c)] = "ok" /\ Php!Become(c, "fix", task[c], {e \in Exts : conf[LineFor(c)][e] # "none"})
            \/ keg'[LineFor(c)] \in {keg[LineFor(c)], "ok"} /\ Php!Become(c, "idle", None, {})
<1>1. task[c] \in Php!Job /\ LineFor(c) \in PhpLines BY CommandIs DEF Php!Linked
<1>2. task[c].what # "uninstall" BY <1>1 DEF BrewRests, Php!Job
<1>3. \E back \in SUBSET Exts : libs' = [libs EXCEPT ![LineFor(c)] = @ \cup back]
  BY <1>1 DEF Php!Linked, LineFor, Php!TypeOK
<1>4. keg' = [keg EXCEPT ![LineFor(c)] = "ok"] \/ keg' = keg BY <1>2 DEF Php!Linked, LineFor
<1>5. \/ keg' = [keg EXCEPT ![LineFor(c)] = "ok"] /\ Php!Become(c, "fix", task[c], {e \in Exts : conf[LineFor(c)][e] # "none"})
      \/ Php!Become(c, "idle", None, {})
  BY <1>2 DEF Php!Linked, LineFor
<1> QED BY <1>1, <1>3, <1>4, <1>5 DEF Php!Linked, Php!TypeOK

(* A repair begins with brew only where there is no binary and no other brew.*)
LEMMA BrewKeeps ==
  ASSUME PhpNamed, BrewRests, Php!TypeOK, BrewKnows, [Php!Next]_Php!vars
  PROVE  BrewKnows'
<1>1. ASSUME NEW c \in PhpClis, NEW v \in PhpLines, Php!resolve(v) = None, ~Php!Busy(v), Php!Unlinked(v),
             Php!Become(c, "brew", Php!Task("repair", v, None), {}), phase[c] = "idle"
      PROVE  BrewKnows'
  <2>1. keg'[v] # "ok" /\ v \notin PathPhp /\ \A w \in PhpLines : w # v => keg'[w] = keg[w]
    BY <1>1, ResolvedIs DEF Php!Unlinked, Php!TypeOK
  <2>2. \A d \in PhpClis : /\ d # c => phase'[d] = phase[d] /\ task'[d] = task[d]
                           /\ d = c => phase'[d] = "brew" /\ task'[d] = Php!Task("repair", v, None)
    BY <1>1, BecomeIs
  <2>3. \A d \in PhpClis : IF d = c THEN LineFor(d)' = v ELSE LineFor(d)' = LineFor(d)
    BY <2>2 DEF LineFor, Php!Task
  <2>4. \A d \in PhpClis : phase[d] = "brew" => LineFor(d) # v BY <1>1 DEF Php!Busy, LineFor
  <2>5. \A d \in PhpClis : phase[d] = "fix" => LineFor(d) # v BY <1>1, ResolvedIs DEF BrewKnows
  <2>6. \A d \in PhpClis : phase[d] # "idle" => LineFor(d) \in PhpLines BY CommandIs
  <2> QED BY <2>1, <2>2, <2>3, <2>4, <2>5, <2>6 DEF BrewKnows
<1>2. ASSUME NEW c \in PhpClis, NEW v \in PhpLines, NEW what, NEW es,
             Php!resolve(v) # None, keg' = keg, Php!Become(c, "fix", Php!Task(what, v, None), es)
      PROVE  BrewKnows'
  <2>1. \A d \in PhpClis : /\ d # c => phase'[d] = phase[d] /\ task'[d] = task[d]
                           /\ d = c => phase'[d] = "fix" /\ task'[d] = Php!Task(what, v, None)
    BY <1>2, BecomeIs
  <2>2. \A d \in PhpClis : IF d = c THEN LineFor(d)' = v ELSE LineFor(d)' = LineFor(d)
    BY <2>1 DEF LineFor, Php!Task
  <2> QED BY <1>2, <2>1, <2>2, ResolvedIs DEF BrewKnows
<1>3. ASSUME NEW c \in PhpClis, Php!Linked(c) PROVE BrewKnows'
  <2>1. /\ phase[c] = "brew"
        /\ \A v \in PhpLines : v # LineFor(c) => keg'[v] = keg[v]
        /\ \/ keg'[LineFor(c)] = "ok" /\ \E es : Php!Become(c, "fix", task[c], es)
           \/ keg'[LineFor(c)] \in {keg[LineFor(c)], "ok"} /\ Php!Become(c, "idle", None, {})
    BY <1>3, LinkedIs
  <2>2. \A d \in PhpClis : d # c => phase'[d] = phase[d] /\ LineFor(d)' = LineFor(d)
    BY <2>1, BecomeIs DEF LineFor
  <2>3. \/ phase'[c] = "idle"
        \/ phase'[c] = "fix" /\ LineFor(c)' = LineFor(c) /\ keg'[LineFor(c)] = "ok"
    BY <2>1, BecomeIs DEF LineFor
  <2>4. \A d \in PhpClis : phase[d] # "idle" => LineFor(d) \in PhpLines BY CommandIs
  <2>5. \A d \in PhpClis : d # c /\ phase[d] = "brew" => LineFor(d) # LineFor(c) BY <2>1 DEF BrewKnows
  <2>6. \A d \in PhpClis : d # c /\ phase[d] = "fix" /\ LineFor(d) = LineFor(c) =>
          LineFor(c) \in PathPhp \/ keg[LineFor(c)] = "ok"
    BY DEF BrewKnows
  <2>7. LineFor(c) \notin PathPhp /\ keg[LineFor(c)] # "ok" BY <2>1 DEF BrewKnows
  <2> QED BY <2>1, <2>2, <2>3, <2>4, <2>5, <2>6, <2>7 DEF BrewKnows
<1>4. ASSUME NEW c \in PhpClis, Php!FixEnd(c) PROVE BrewKnows'
  <2>1. keg' = keg /\ Php!Become(c, "idle", None, {}) BY <1>4 DEF Php!FixEnd, Php!machine
  <2>2. \A d \in PhpClis : /\ d # c => phase'[d] = phase[d] /\ LineFor(d)' = LineFor(d)
                           /\ d = c => phase'[d] = "idle"
    BY <2>1, BecomeIs DEF LineFor
  <2> QED BY <2>1, <2>2 DEF BrewKnows
<1>5. ASSUME UNCHANGED <<keg, phase, task>> PROVE BrewKnows' BY <1>5 DEF BrewKnows, LineFor
<1>6. ASSUME NEW c \in PhpClis, NEW e \in Exts, Php!FixFile(c, e) PROVE UNCHANGED <<keg, phase, task>>
  BY <1>6 DEF Php!FixFile
<1>7. ASSUME NEW v \in PhpLines, NEW e \in Exts, Php!ExtInstall(v, e) PROVE UNCHANGED <<keg, phase, task>>
  BY <1>7 DEF Php!ExtInstall, Php!cli
<1>8. CASE UNCHANGED Php!vars BY <1>5, <1>8 DEF Php!vars, Php!machine, Php!cli
<1>9. CASE Php!Next BY <1>1, <1>2, <1>3, <1>4, <1>5, <1>6, <1>7, <1>9, RestingSteps
<1> QED BY <1>8, <1>9

(* An install adds the library before its directive, a fix takes directives  *)
(* away: neither adds one without a library.                                 *)
LEMMA FixKeeps ==
  ASSUME PhpNamed, BrewRests, Lines \subseteq {"live"}, Php!TypeOK, BrewKnows, FixKnows, [Php!Next]_Php!vars
  PROVE  FixKnows'
<1>1. ASSUME NEW c \in PhpClis, NEW v \in PhpLines, Php!resolve(v) = None, Php!Unlinked(v),
             Php!Become(c, "brew", Php!Task("repair", v, None), {})
      PROVE  FixKnows'
  <2>1. conf' = conf /\ keg'[v] # "ok"
        /\ \A w \in PhpLines : w # v => keg'[w] = keg[w] /\ libs'[w] = libs[w]
    BY <1>1, ResolvedIs DEF Php!Unlinked, Php!TypeOK
  <2>2. \A d \in PhpClis : /\ d # c => phase'[d] = phase[d] /\ LineFor(d)' = LineFor(d) /\ inis'[d] = inis[d]
                           /\ d = c => phase'[d] = "brew"
    BY <1>1, BecomeIs DEF LineFor
  <2>3. \A d \in PhpClis : phase[d] # "idle" => LineFor(d) \in PhpLines BY CommandIs
  <2> QED BY <2>1, <2>2, <2>3 DEF FixKnows, Php!Asked
<1>2. ASSUME NEW c \in PhpClis, NEW v \in PhpLines, NEW what, UNCHANGED <<keg, libs, conf>>,
             Php!Become(c, "fix", Php!Task(what, v, None), Php!Files(v))
      PROVE  FixKnows'
  <2>1. \A d \in PhpClis : /\ d # c => phase'[d] = phase[d] /\ task'[d] = task[d] /\ inis'[d] = inis[d]
                           /\ d = c => task'[d] = Php!Task(what, v, None) /\ inis'[d] = Php!Files(v)
    BY <1>2, BecomeIs
  <2>2. \A d \in PhpClis : IF d = c THEN LineFor(d)' = v ELSE LineFor(d)' = LineFor(d)
    BY <2>1 DEF LineFor, Php!Task
  <2>3. keg[v] = "ok" => Php!Asked(v) \subseteq Php!Files(v)
    BY DEF Php!Files, Php!Asked, Php!resolve
  <2> QED BY <1>2, <2>1, <2>2, <2>3 DEF FixKnows, Php!Asked
<1>3. ASSUME NEW c \in PhpClis, Php!Linked(c) PROVE FixKnows'
  <2> DEFINE files1 == {e \in Exts : conf[LineFor(c)][e] # "none"}
  <2>1. /\ phase[c] = "brew" /\ conf' = conf
        /\ \A v \in PhpLines : v # LineFor(c) => keg'[v] = keg[v] /\ libs'[v] = libs[v]
        /\ Php!Become(c, "fix", task[c], files1) \/ Php!Become(c, "idle", None, {})
    BY <1>3, LinkedIs
  <2>2. Php!Asked(LineFor(c)) \subseteq files1 BY DEF Php!Asked
  <2> HIDE DEF files1
  <2>3. \A d \in PhpClis : d # c => phase'[d] = phase[d] /\ LineFor(d)' = LineFor(d) /\ inis'[d] = inis[d]
    BY <2>1, BecomeIs DEF LineFor
  <2>4. phase'[c] # "idle" => LineFor(c)' = LineFor(c) /\ inis'[c] = files1
    BY <2>1, BecomeIs DEF LineFor
  <2>5. \A d \in PhpClis : d # c /\ phase[d] = "fix" => LineFor(d) # LineFor(c)
    BY <2>1 DEF BrewKnows
  <2>6. \A d \in PhpClis : phase[d] # "idle" => LineFor(d) \in PhpLines BY CommandIs
  <2>7. \A v : Php!Asked(v)' = Php!Asked(v) BY <2>1 DEF Php!Asked
  <2> QED BY <2>1, <2>2, <2>3, <2>4, <2>5, <2>6, <2>7 DEF FixKnows
<1>4. ASSUME NEW c \in PhpClis, Php!FixEnd(c) PROVE FixKnows'
  <2>1. UNCHANGED <<keg, libs, conf>> /\ Php!Become(c, "idle", None, {}) BY <1>4 DEF Php!FixEnd, Php!machine
  <2>2. \A d \in PhpClis : /\ d # c => phase'[d] = phase[d] /\ LineFor(d)' = LineFor(d) /\ inis'[d] = inis[d]
                           /\ d = c => phase'[d] = "idle"
    BY <2>1, BecomeIs DEF LineFor
  <2> QED BY <2>1, <2>2 DEF FixKnows, Php!Asked
<1>5. ASSUME NEW c \in PhpClis, NEW e \in Exts, Php!FixFile(c, e) PROVE FixKnows'
  <2>1. task[c] \in Php!Job /\ LineFor(c) \in PhpLines BY <1>5, CommandIs DEF Php!FixFile
  <2>2. UNCHANGED <<keg, libs, phase, task>> /\ inis' = [inis EXCEPT ![c] = @ \ {e}]
        /\ conf' = [conf EXCEPT ![LineFor(c)][e] =
                      IF @ = "live" /\ e \notin libs[LineFor(c)] THEN "dead" ELSE @]
    BY <1>5 DEF Php!FixFile, LineFor
  <2>3. \A v \in PhpLines, x \in Exts :
          /\ conf'[v][x] \in {conf[v][x], "dead"}
          /\ v = LineFor(c) /\ x = e =>
               conf'[v][x] = IF conf[v][x] = "live" /\ x \notin libs[v] THEN "dead" ELSE conf[v][x]
    BY <2>1, <2>2 DEF Php!TypeOK
  <2>4. \A d \in PhpClis : inis'[d] = IF d = c THEN inis[c] \ {e} ELSE inis[d] BY <2>2 DEF Php!TypeOK
  <2>5. \A v \in PhpLines, x \in Exts : conf'[v][x] # "spaced" BY <2>3 DEF FixKnows
  <2>6. \A v \in PhpLines : Php!Asked(v)' \subseteq Php!Asked(v) BY <2>3 DEF Php!Asked
  <2>7. \A v \in PhpLines : v = LineFor(c) => e \notin Php!Asked(v)' \ libs[v]
    <3> SUFFICES ASSUME NEW v \in PhpLines, v = LineFor(c), e \notin libs[v], e \in Php!Asked(v)' PROVE FALSE
      OBVIOUS
    <3>1. conf'[v][e] \in {"live", "spaced"} BY DEF Php!Asked
    <3>2. conf'[v][e] = IF conf[v][e] = "live" THEN "dead" ELSE conf[v][e] BY <2>3
    <3>3. conf[v][e] # "spaced" BY DEF FixKnows
    <3> QED BY <3>1, <3>2, <3>3
  <2>8. \A d \in PhpClis : LineFor(d)' = LineFor(d) BY <2>2 DEF LineFor
  <2>9. \A d \in PhpClis : phase[d] # "idle" => LineFor(d) \in PhpLines BY CommandIs
  <2> QED BY <2>2, <2>4, <2>5, <2>6, <2>7, <2>8, <2>9 DEF FixKnows
<1>6. ASSUME Lines \subseteq {"live"}, NEW v \in PhpLines, NEW e \in Exts, Php!ExtInstall(v, e) PROVE FixKnows'
  <2>1. /\ UNCHANGED <<keg, phase, task, inis>> /\ libs' = [libs EXCEPT ![v] = @ \cup {e}]
        /\ \E line \in {"live", conf[v][e]} : conf' = [conf EXCEPT ![v][e] = line]
    BY <1>6 DEF Php!ExtInstall, Php!cli
  <2>2. \A w \in PhpLines, x \in Exts : \/ conf'[w][x] = conf[w][x]
                                        \/ conf'[w][x] = "live" /\ w = v /\ x = e
    <3>1. PICK line \in {"live", conf[v][e]} : conf' = [conf EXCEPT ![v][e] = line] BY <2>1
    <3>2. \A w \in PhpLines, x \in Exts : conf'[w][x] = IF w = v /\ x = e THEN line ELSE conf[w][x]
      BY <3>1 DEF Php!TypeOK
    <3> QED BY <3>2
  <2>3. \A w \in PhpLines : libs'[w] = IF w = v THEN libs[w] \cup {e} ELSE libs[w] BY <2>1 DEF Php!TypeOK
  <2>4. \A w \in PhpLines, x \in Exts : conf'[w][x] # "spaced" BY <2>2 DEF FixKnows
  <2>5. \A w \in PhpLines : Php!Asked(w)' \ libs'[w] \subseteq Php!Asked(w) \ libs[w]
    BY <2>2, <2>3 DEF Php!Asked
  <2>6. \A d \in PhpClis : LineFor(d)' = LineFor(d) BY <2>1 DEF LineFor
  <2>7. \A d \in PhpClis : phase[d] # "idle" => LineFor(d) \in PhpLines BY CommandIs
  <2> QED BY <2>1, <2>4, <2>5, <2>6, <2>7 DEF FixKnows
<1>7. ASSUME UNCHANGED <<keg, libs, conf, phase, task, inis>> PROVE FixKnows'
  BY <1>7 DEF FixKnows, LineFor, Php!Asked
<1>8. CASE UNCHANGED Php!vars BY <1>7, <1>8 DEF Php!vars, Php!machine, Php!cli
<1>9. CASE Php!Next BY <1>1, <1>2, <1>3, <1>4, <1>5, <1>6, <1>7, <1>9, RestingSteps
<1> QED BY <1>8, <1>9

(* A repair or a fix that ends leaves a line in which what does not load has *)
(* its library: no directive points at one that is missing. Homebrew is left *)
(* alone meanwhile and directives are written as `fix` reads them; other     *)
(* repairs, fixes and installs run, and other formulae move libraries.       *)
THEOREM FixesClean ==
  ASSUME PhpNamed, BrewRests, Lines \subseteq {"live"} PROVE Php!Spec => Php!MissingCleaned
<1>1. Php!Init => BrewKnows /\ FixKnows
  <2> SUFFICES ASSUME Php!Init PROVE BrewKnows /\ FixKnows OBVIOUS
  <2>1. \A c \in PhpClis : phase[c] = "idle" BY DEF Php!Init
  <2>2. conf \in [PhpLines -> [Exts -> {"none", "off"} \cup Lines]] BY DEF Php!Init
  <2>3. \A v \in PhpLines, e \in Exts : conf[v][e] \in {"none", "off"} \cup Lines BY <2>2
  <2> QED BY <2>1, <2>3 DEF BrewKnows, FixKnows
<1>2. Php!TypeOK /\ FixKnows => [Php!Cleaning]_Php!vars
  <2> SUFFICES ASSUME Php!TypeOK, FixKnows, NEW c \in PhpClis, NEW v \in PhpLines,
                      Php!FixEnd(c), task[c].version = v
               PROVE  Php!startup_load_errors(v)' \subseteq libs'[v]
    BY DEF Php!Cleaning
  <2>1. phase[c] = "fix" /\ inis[c] = {} /\ UNCHANGED <<keg, libs, conf>> BY DEF Php!FixEnd, Php!machine
  <2>2. keg[v] = "ok" => Php!Asked(v) \ libs[v] = {} BY <2>1 DEF FixKnows, LineFor
  <2>3. Php!Asked(v)' = Php!Asked(v) BY <2>1 DEF Php!Asked
  <2>4. \/ Php!startup_load_errors(v)' = {}
        \/ keg[v] = "ok" /\ Php!startup_load_errors(v)' \subseteq Php!Asked(v)'
    BY <2>1 DEF Php!startup_load_errors
  <2> QED BY <2>1, <2>2, <2>3, <2>4
<1> QED BY <1>1, <1>2, BrewKeeps, FixKeeps, PhpTyping, PTL DEF Php!Spec, Php!MissingCleaned

(* Where no extension links against another formula's library, such a line   *)
(* loads all it is asked to.                                                 *)
THEOREM FixesStart ==
  ASSUME PhpNamed, BrewRests, Lines \subseteq {"live"}, Linking = {} PROVE Php!Spec => Php!StartsCleanly
<1>1. Php!TypeOK' /\ [Php!Cleaning]_Php!vars => [Php!Starting]_Php!vars
  <2> SUFFICES ASSUME Php!TypeOK', Php!Cleaning, NEW c \in PhpClis, NEW v \in PhpLines,
                      Php!FixEnd(c), task[c].version = v
               PROVE  Php!startup_load_errors(v)' = {}
    BY DEF Php!Starting
  <2>1. Php!startup_load_errors(v)' \subseteq libs'[v] BY DEF Php!Cleaning
  <2>2. moved'[v] = {} BY DEF Php!TypeOK
  <2> QED BY <2>1, <2>2 DEF Php!startup_load_errors
<1> QED BY <1>1, FixesClean, PhpTyping, PTL DEF Php!MissingCleaned, Php!StartsCleanly

(* And it disables nothing of a line that Homebrew has under its hands.      *)
THEOREM FixesSpare == ASSUME PhpNamed, BrewRests PROVE Php!Spec => Php!FixSpares
<1>1. Php!Init => BrewKnows BY DEF Php!Init, BrewKnows
<1>2. Php!TypeOK /\ BrewKnows /\ [Php!Next]_Php!vars => [Php!Sparing]_Php!vars
  <2> SUFFICES ASSUME Php!TypeOK, BrewKnows, Php!Next, NEW v \in PhpLines, NEW e \in Exts,
                      conf[v][e] = "live", conf'[v][e] = "dead"
               PROVE  ~Php!Busy(v)
    BY DEF Php!Sparing
  <2>1. PICK c \in PhpClis, x \in Exts : Php!FixFile(c, x)
    <3>1. conf' # conf OBVIOUS
    <3>2. ASSUME NEW w \in PhpLines, NEW x \in Exts, Php!ExtInstall(w, x) PROVE FALSE
      <4>1. PICK line \in {conf[w][x]} \cup Lines : conf' = [conf EXCEPT ![w][x] = line]
        BY <3>2 DEF Php!ExtInstall
      <4>2. conf'[v][e] = IF v = w /\ e = x THEN line ELSE conf[v][e] BY <4>1 DEF Php!TypeOK
      <4> QED BY <4>1, <4>2 DEF PhpNamed
    <3>3. \A c \in PhpClis : ~Php!Linked(c) /\ ~Php!FixEnd(c)
      BY <3>1 DEF Php!Linked, Php!FixEnd, Php!machine
    <3>4. \A w \in PhpLines : ~Php!Unlinked(w) BY <3>1 DEF Php!Unlinked
    <3> QED BY <3>1, <3>2, <3>3, <3>4, RestingSteps
  <2>2. phase[c] = "fix" /\ LineFor(c) \in PhpLines BY <2>1, CommandIs DEF Php!FixFile
  <2>3. LineFor(c) = v
    <3>1. \E line : conf' = [conf EXCEPT ![LineFor(c)][x] = line] BY <2>1 DEF Php!FixFile, LineFor
    <3> QED BY <2>2, <3>1 DEF Php!TypeOK
  <2>4. keg[v] = "ok" \/ v \in PathPhp BY <2>2, <2>3 DEF BrewKnows
  <2> QED BY <2>4 DEF BrewKnows, Php!Busy, LineFor
<1>3. Php!TypeOK /\ BrewKnows /\ [Php!Next]_Php!vars => BrewKnows' BY BrewKeeps
<1> QED BY <1>1, <1>2, <1>3, PhpTyping, PTL DEF Php!Spec, Php!FixSpares

-----------------------------------------------------------------------------
(* The parts side by side. A behaviour of PartsSpec that moves a part is one *)
(* of that part's own specification, and what its own theorems say of it     *)
(* holds in every state the parts are in together.                           *)

LEMMA PartFixed == [PartsNext]_all => part' = part
BY DEF PartsNext, all

LEMMA ServicesMoves ==
  ASSUME part = "services", [PartsNext]_all PROVE [Srv!Next]_Srv!vars
BY DEF PartsNext, all, slots, Srv!vars, config, saved, running, servers, data, foreign, made, gone

LEMMA ServicesAlone == PartsSpec => Srv!Spec \/ []~(part = "services")
<1>1. PartsInit /\ part = "services" => Srv!Init BY DEF PartsInit
<1>2. part = "services" /\ [PartsNext]_all => (part = "services")' /\ [Srv!Next]_Srv!vars
  BY ServicesMoves, PartFixed
<1>3. ~(part = "services") /\ [PartsNext]_all => ~(part = "services")' BY PartFixed
<1> QED BY <1>1, <1>2, <1>3, PTL DEF PartsSpec, Srv!Spec

LEMMA MailMoves ==
  ASSUME part = "mail", [PartsNext]_all PROVE [Sink!Next]_Sink!vars
BY DEF PartsNext, all, slots, Sink!vars, conn, mails, seq, clock, listed, want, queued, excused

LEMMA MailAlone == PartsSpec => Sink!Spec \/ []~(part = "mail")
<1>1. PartsInit /\ part = "mail" => Sink!Init BY DEF PartsInit
<1>2. part = "mail" /\ [PartsNext]_all => (part = "mail")' /\ [Sink!Next]_Sink!vars
  BY MailMoves, PartFixed
<1>3. ~(part = "mail") /\ [PartsNext]_all => ~(part = "mail")' BY PartFixed
<1> QED BY <1>1, <1>2, <1>3, PTL DEF PartsSpec, Sink!Spec

LEMMA DumpsMoves ==
  ASSUME part = "dumps", [PartsNext]_all PROVE [Receiver!Next]_Receiver!vars
BY DEF PartsNext, all, slots, Receiver!vars, pending, pauses, posts, next_id, ring, viewers, cleared

LEMMA DumpsAlone == PartsSpec => Receiver!Spec \/ []~(part = "dumps")
<1>1. PartsInit /\ part = "dumps" => Receiver!Init BY DEF PartsInit
<1>2. part = "dumps" /\ [PartsNext]_all => (part = "dumps")' /\ [Receiver!Next]_Receiver!vars
  BY DumpsMoves, PartFixed
<1>3. ~(part = "dumps") /\ [PartsNext]_all => ~(part = "dumps")' BY PartFixed
<1> QED BY <1>1, <1>2, <1>3, PTL DEF PartsSpec, Receiver!Spec

LEMMA GatewayMoves ==
  ASSUME part = "fpm", [PartsNext]_all PROVE [Fpm!Next]_Fpm!vars
BY DEF PartsNext, all, slots, Fpm!vars, Fpm!pool, root, stage, age, answer, serving, queue, working, ran, sent,
       got, flow, stats

LEMMA GatewayAlone == PartsSpec => Fpm!Spec \/ []~(part = "fpm")
<1>1. PartsInit /\ part = "fpm" => Fpm!Init BY DEF PartsInit
<1>2. part = "fpm" /\ [PartsNext]_all => (part = "fpm")' /\ [Fpm!Next]_Fpm!vars
  BY GatewayMoves, PartFixed
<1>3. ~(part = "fpm") /\ [PartsNext]_all => ~(part = "fpm")' BY PartFixed
<1> QED BY <1>1, <1>2, <1>3, PTL DEF PartsSpec, Fpm!Spec

LEMMA AccountMoves ==
  ASSUME part = "account", [PartsNext]_all PROVE [Cli!Next]_Cli!vars
BY DEF PartsNext, all, slots, Cli!vars, Cli!process, files, at, step, cmd, host, read, tok, left, code

LEMMA AccountAlone == PartsSpec => Cli!Spec \/ []~(part = "account")
<1>1. PartsInit /\ part = "account" => Cli!Init BY DEF PartsInit
<1>2. part = "account" /\ [PartsNext]_all => (part = "account")' /\ [Cli!Next]_Cli!vars
  BY AccountMoves, PartFixed
<1>3. ~(part = "account") /\ [PartsNext]_all => ~(part = "account")' BY PartFixed
<1> QED BY <1>1, <1>2, <1>3, PTL DEF PartsSpec, Cli!Spec

LEMMA SetupMoves ==
  ASSUME part = "setup", [PartsNext]_all PROVE [Mac!Next]_Mac!vars
BY DEF PartsNext, all, slots, Mac!vars, mac, steps, fixing, fixed, count

LEMMA SetupAlone == PartsSpec => Mac!Spec \/ []~(part = "setup")
<1>1. PartsInit /\ part = "setup" => Mac!Init BY DEF PartsInit
<1>2. part = "setup" /\ [PartsNext]_all => (part = "setup")' /\ [Mac!Next]_Mac!vars
  BY SetupMoves, PartFixed
<1>3. ~(part = "setup") /\ [PartsNext]_all => ~(part = "setup")' BY PartFixed
<1> QED BY <1>1, <1>2, <1>3, PTL DEF PartsSpec, Mac!Spec

LEMMA NodeToolsMoves ==
  ASSUME part = "node", [PartsNext]_all PROVE [Node!Next]_Node!vars
BY DEF PartsNext, all, slots, Node!vars, Node!fan, manager, projects, fans, jobs, fast, plan, failures, seen

LEMMA NodeToolsAlone == PartsSpec => Node!Spec \/ []~(part = "node")
<1>1. PartsInit /\ part = "node" => Node!Init BY DEF PartsInit
<1>2. part = "node" /\ [PartsNext]_all => (part = "node")' /\ [Node!Next]_Node!vars
  BY NodeToolsMoves, PartFixed
<1>3. ~(part = "node") /\ [PartsNext]_all => ~(part = "node")' BY PartFixed
<1> QED BY <1>1, <1>2, <1>3, PTL DEF PartsSpec, Node!Spec
(* The switch has the variables of BranchDb: the other parts leave them as   *)
(* they are at the start.                                                    *)
LEMMA SwitchAlone == PartsSpec => Spec
<1>1. PartsInit => Init BY DEF PartsInit
<1>2. [PartsNext]_all => [Next]_vars BY DEF PartsNext, all
<1> QED BY <1>1, <1>2, PTL DEF PartsSpec, Spec

(* Wherever a switch stops, the live data of an attached site can be found,  *)
(* whatever other part moves instead.                                        *)
THEOREM LiveDataInParts == ASSUME SwitchingOnly PROVE PartsSpec => []LiveDataFindable
BY SwitchAlone, LiveDataFound, PTL

(* What a request to the database servers was answered with success for      *)
(* stays, as long as their file can be read.                                 *)
THEOREM DurableInParts == ASSUME "unreadable" \notin ServicesFaults PROVE PartsSpec => []Durable
<1>1. ~(part = "services") \/ Srv!Durable => Durable BY DEF Durable
<1> QED BY <1>1, ServicesAlone, PromisesKept, PTL

(* A message answered with "queued" stays until its own mailbox is cleared,  *)
(* when no body carries the mailbox header itself.                           *)
THEOREM QueuedInParts == ASSUME "header" \notin MailFaults PROVE PartsSpec => []QueuedKept
<1>1. ~(part = "mail") \/ Sink!QueuedKept => QueuedKept BY DEF QueuedKept
<1> QED BY <1>1, MailAlone, QueuedStays, PTL

(* No resume, timeout or hang-up frees a site that waits at a breakpoint of  *)
(* another, when every site has a token of its own.                          *)
THEOREM HeldInParts == ASSUME "reuse" \notin DumpsFaults PROVE PartsSpec => []HeldUntilResumed
<1>1. ~(part = "dumps") \/ Receiver!HeldUntilResumed => HeldUntilResumed BY DEF HeldUntilResumed
<1>2. Named BY PartsAssumption
<1> QED BY <1>1, <1>2, DumpsAlone, HeldByOwn, PTL

(* The map of pending pauses holds only those who wait, when tokens are not  *)
(* shared and nobody hangs up at a breakpoint.                               *)
THEOREM NoLeakInParts ==
  ASSUME "reuse" \notin DumpsFaults, "disconnect" \notin DumpsFaults PROVE PartsSpec => []NoLeak
<1>1. ~(part = "dumps") \/ Receiver!NoLeak => NoLeak BY DEF NoLeak
<1>2. Named BY PartsAssumption
<1> QED BY <1>1, <1>2, DumpsAlone, NothingLeaks, PTL

(* A viewer that has caught up, and that the channel never outruns, has seen *)
(* every payload that is kept.                                               *)
THEOREM AllSeenInParts ==
  ASSUME RingCap \in Nat \ {0}, "slow" \notin DumpsFaults PROVE PartsSpec => []SeesAll
<1>1. ~(part = "dumps") \/ Receiver!SeesAll => SeesAll BY DEF SeesAll
<1> QED BY <1>1, DumpsAlone, NoneFallsBetween, PTL

(* A report of the doctor with no problem is true.                           *)
THEOREM CleanInParts ==
  ASSUME Listable PROVE PartsSpec => []CleanIsReachable
<1>1. ~(part = "setup") \/ Mac!CleanIsReachable => CleanIsReachable BY DEF CleanIsReachable
<1>2. SetupNamed BY PartsAssumption
<1> QED BY <1>1, <1>2, SetupAlone, CleanReportIsTrue, PTL

(* Outside hosts mode no entry of dpl's is left in /etc/hosts.               *)
THEOREM BlockGoneInParts == PartsSpec => []BlockGone
<1>1. ~(part = "setup") \/ Mac!BlockGone => BlockGone BY DEF BlockGone
<1>2. SetupNamed BY PartsAssumption
<1> QED BY <1>1, <1>2, SetupAlone, NoEntryOutlives, PTL

(* An answer of php-fpm is whole, or it is an error.                         *)
THEOREM WholeInParts == PartsSpec => []AnswerWhole
<1>1. ~(part = "fpm") \/ Fpm!AnswerWhole => AnswerWhole BY DEF AnswerWhole
<1>2. AnswersNamed BY PartsAssumption
<1> QED BY <1>1, <1>2, GatewayAlone, AnswersWhole, PTL

(* A token is kept for who issued it, and dply sends a host its own only,    *)
(* with commands of dply and of Keel Cloud at the same time.                 *)
THEOREM TokensInParts == PartsSpec => []TokensHome
<1>1. ~(part = "account") \/ Cli!TokensHome => TokensHome BY DEF TokensHome
<1>2. AccountsNamed BY PartsAssumption
<1> QED BY <1>1, <1>2, AccountAlone, TokensStayHome, PTL

(* A pin keeps the Node of a site, and an install keeps its lockfile.        *)
THEOREM ToolsInParts == PartsSpec => ToolsMatch
<1>1. ASSUME part = "node", PartsNext, UNCHANGED Node!vars PROVE UNCHANGED all
  <2>1. UNCHANGED <<vars, part, rest9>> BY <1>1 DEF PartsNext
  <2>2. UNCHANGED slots
    BY <1>1, <2>1 DEF Node!vars, Node!fan, manager, projects, fans, jobs, fast, plan, failures, seen,
                      slots, rest9, rest10
  <2> QED BY <2>1, <2>2 DEF all
<1>2. [PartsNext]_all /\ [Node!Matching]_Node!vars => [part = "node" => Node!Matching]_all BY <1>1
<1>3. [PartsNext]_all /\ ~(part = "node") => [part = "node" => Node!Matching]_all OBVIOUS
<1>4. ToolsNamed BY PartsAssumption
<1> QED BY <1>2, <1>3, <1>4, NodeToolsAlone, ToolsFollowProject, PTL DEF PartsSpec, Node!ToolsMatch, ToolsMatch
================================================================================
