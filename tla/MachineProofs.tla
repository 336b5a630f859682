----------------------------- MODULE MachineProofs -----------------------------
(***************************************************************************)
(* What the theorems about Startup say of the daemons of MCMachine: those  *)
(* that start one at a time beside the other parts, and those that race.   *)
(* The race has the slots for its variables; its theorems are those of     *)
(* StartupProofs, instantiated the same way.                               *)
(***************************************************************************)
EXTENDS MCMachine, StartupProofs, TLAPS

Racing == INSTANCE StartupProofs WITH
  pc <- x1, sock <- x2, target <- x3, pools <- x4, crashes <- x5,
  MaxCrashes <- 0, Stops <- {}, Overlap <- TRUE

(* The instance of MCMachine and this one are the same specification.        *)
LEMMA SameRace == /\ Race!Init <=> Racing!Init
                  /\ Race!Next <=> Racing!Next
                  /\ Race!OneOwner <=> Racing!OneOwner
<1>1. Race!Init <=> Racing!Init BY DEF Race!Init, Racing!Init
<1>2. Race!OneOwner <=> Racing!OneOwner
  BY DEF Race!OneOwner, Racing!OneOwner, Race!Serving, Racing!Serving
<1>3. ASSUME NEW d \in Daemons
      PROVE  /\ Race!Start(d) <=> Racing!Start(d)
             /\ Race!Run(d) <=> Racing!Run(d)
             /\ Race!Respawn(d) <=> Racing!Respawn(d)
             /\ Race!Shutdown(d) <=> Racing!Shutdown(d)
             /\ Race!Terminate(d) <=> Racing!Terminate(d)
             /\ Race!Crash(d) <=> Racing!Crash(d)
  <2> USE DEF Race!Goto, Racing!Goto, Race!Ends, Racing!Ends, Race!Bail, Racing!Bail, Race!Serving, Racing!Serving,
              Race!Gone, Racing!Gone
  <2>1. Race!Start(d) <=> Racing!Start(d)
    BY DEF Race!Start, Racing!Start, Race!StartSteps, Racing!StartSteps
  <2>2. Race!Probe(d) <=> Racing!Probe(d)
    BY DEF Race!Probe, Racing!Probe, Race!Connect, Racing!Connect, Race!Listening, Racing!Listening,
           Race!Proceed, Racing!Proceed, Race!Answered, Racing!Answered, Race!Refused, Racing!Refused
  <2>3. Race!Check(d) <=> Racing!Check(d)
    BY DEF Race!Check, Racing!Check, Race!Connect, Racing!Connect, Race!Listening, Racing!Listening,
           Race!Proceed, Racing!Proceed, Race!Answered, Racing!Answered, Race!Refused, Racing!Refused
  <2>4. Race!BindHttp(d) <=> Racing!BindHttp(d)
    BY DEF Race!BindHttp, Racing!BindHttp, Race!HttpPorts, Racing!HttpPorts,
           Race!Cardinality, Racing!Cardinality
  <2>5. /\ Race!KillOrphans(d) <=> Racing!KillOrphans(d)
        /\ Race!StartBackends(d) <=> Racing!StartBackends(d)
        /\ Race!Unlink(d) <=> Racing!Unlink(d)
        /\ Race!Bind(d) <=> Racing!Bind(d)
        /\ Race!RemoveSocket(d) <=> Racing!RemoveSocket(d)
        /\ Race!Exit(d) <=> Racing!Exit(d)
    BY DEF Race!KillOrphans, Racing!KillOrphans, Race!StartBackends, Racing!StartBackends, Race!Unlink, Racing!Unlink,
           Race!Bind, Racing!Bind, Race!RemoveSocket, Racing!RemoveSocket, Race!Exit, Racing!Exit
  <2>6. Race!Run(d) <=> Racing!Run(d) BY <2>2, <2>3, <2>4, <2>5 DEF Race!Run, Racing!Run
  <2>7. Race!Respawn(d) <=> Racing!Respawn(d) BY DEF Race!Respawn, Racing!Respawn
  <2>8. /\ Race!Shutdown(d) <=> Racing!Shutdown(d)
        /\ Race!Terminate(d) <=> Racing!Terminate(d)
        /\ Race!Crash(d) <=> Racing!Crash(d)
    BY DEF Race!Shutdown, Racing!Shutdown, Race!Terminate, Racing!Terminate, Race!Crash, Racing!Crash
  <2> QED BY <2>1, <2>6, <2>7, <2>8
<1>4. Race!Next <=> Racing!Next BY <1>3 DEF Race!Next, Racing!Next
<1> QED BY <1>1, <1>2, <1>4

-------------------------------------------------------------------------------
(* A behaviour of MachineSpec that moves the race is one of the race.        *)
LEMMA RaceMoves ==
  ASSUME part = "race", [MachineNext]_all PROVE [Racing!Next]_Racing!vars
BY SameRace DEF MachineNext, StartupMoves, HelpedMoves, FpmMoves, DumpsMoves, PhpMoves, all, slots, Racing!vars

LEMMA PartFixed == [MachineNext]_all => part' = part
BY DEF MachineNext, StartupMoves, HelpedMoves, FpmMoves, DumpsMoves, PhpMoves, all

LEMMA RaceAlone == MachineSpec => Racing!Spec \/ []~(part = "race")
<1>1. MachineInit /\ part = "race" => Racing!Init BY SameRace DEF MachineInit
<1>2. part = "race" /\ [MachineNext]_all => (part = "race")' /\ [Racing!Next]_Racing!vars
  BY RaceMoves, PartFixed
<1>3. ~(part = "race") /\ [MachineNext]_all => ~(part = "race")' BY PartFixed
<1> QED BY <1>1, <1>2, <1>3, PTL DEF MachineSpec, Racing!Spec

(* Startup has variables of its own: the other parts leave them as they are  *)
(* at the start.                                                             *)
LEMMA StartupAlone == MachineSpec => Spec
<1>1. MachineInit => Init BY DEF MachineInit
<1>2. [MachineNext]_all => [Next]_vars
  BY DEF MachineNext, StartupMoves, HelpedMoves, FpmMoves, DumpsMoves, PhpMoves, all
<1> QED BY <1>1, <1>2, PTL DEF MachineSpec, Spec

-------------------------------------------------------------------------------
(* Of daemons started at any moment, none of which stops, at most one        *)
(* serves, and the socket file leads to it.                                  *)
THEOREM RaceInMachine == MachineSpec => []RaceOneOwner
<1>1. Racing!NoneStops BY DEF Racing!NoneStops
<1>2. Racing!StartupAssumption BY StartupAssumption DEF Racing!StartupAssumption, Racing!Gone, Gone
<1>3. Racing!Spec => []Racing!OneOwner BY <1>1, <1>2, Racing!OneOwnerOfRace
<1>4. ~(part = "race") \/ Racing!OneOwner => RaceOneOwner BY SameRace DEF RaceOneOwner
<1> QED BY <1>3, <1>4, RaceAlone, PTL

(* Of daemons started one at a time, that crash and stop in any order, at    *)
(* most one serves, and the socket file leads to it.                         *)
THEOREM OwnerInMachine == ASSUME ~Overlap PROVE MachineSpec => []OneOwner
BY StartupAlone, SingleOwner, PTL

(* None of them kills the pools of another one that runs: a second instance  *)
(* bails first.                                                              *)
THEOREM OrphansInMachine == ASSUME ~Overlap PROVE MachineSpec => BailsBeforeKilling
BY StartupAlone, KillsOrphansOnly, PTL
===============================================================================
