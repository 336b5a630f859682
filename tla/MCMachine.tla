-------------------------------- MODULE MCMachine --------------------------------
(***************************************************************************)
(* What has to happen in the parts that have a machine or a daemon to      *)
(* themselves: daemons that start, a user who follows the doctor, requests *)
(* to php-fpm, pauses and PHP repairs. They share no state: one of them    *)
(* moves in a behaviour. Startup has its own variables; the others use     *)
(* x1 .. x12, each in its own sense.                                       *)
(***************************************************************************)
EXTENDS Startup

VARIABLES x1, x2, x3, x4, x5, x6, x7, x8, x9, x10, x11, x12, part

slots == <<x1, x2, x3, x4, x5, x6, x7, x8, x9, x10, x11, x12>>
all == <<vars, slots, part>>

(* Startup: daemons that overlap and do not end. *)
Race == INSTANCE Startup WITH
  pc <- x1, sock <- x2, target <- x3, pools <- x4, crashes <- x5,
  MaxCrashes <- 0, Stops <- {}, Overlap <- TRUE

-----------------------------------------------------------------------------
(* Setup: nothing is refused and the user follows the doctor. *)
Helped == INSTANCE Setup WITH
  mac <- x1, todo <- x2, fixing <- x3, fixed <- x4, count <- x5,
  Tlds <- {"test", "dev", "localhost"}, Native <- {"localhost"}, Servers <- {"known"},
  Commands <- {"resolution hosts", "resolution resolver", "stop", "setup --no-ports"},
  Agents <- {"loaded"}, SiteNames <- {"fine"}, Events <- {"hand", "tld", "quit"},
  Faults <- {}, MaxCommands <- 2

(* Gateway: one worker. *)
Fpm == INSTANCE Gateway WITH
  root <- x1, pc <- x2, age <- x3, answer <- x4, up <- x5, queue <- x6, working <- x7, ran <- x8,
  sent <- x9, got <- x10, flow <- x11, stats <- x12,
  Requests <- {"r1", "r2"},
  Urls <- {[is |-> "none", index |-> {}, slash |-> FALSE, static |-> FALSE]}, Roots <- {{"php"}},
  Workers <- 1, Backlog <- 1, MaxChunks <- 1, Faults <- {"die", "restart"}

(* PhpTools: a repair, and Homebrew at work meanwhile. *)
Php == INSTANCE PhpTools WITH
  keg <- x1, libs <- x2, conf <- x3, legacy <- x4, loader <- x5, pc <- x6, task <- x7, todo <- x8,
  aside <- x9, brews <- x10, moved <- x11,
  Versions <- {"8.4"}, PathPhp <- {}, Exts <- {"xdebug"}, Zend <- {"xdebug"}, Linking <- {"xdebug"},
  Lines <- {"live"}, Clis <- {"c1", "c2"}, MaxBrews <- 2,
  Commands <- {"upgrade", "uninstall", "ext-install", "fix"}

(* Dumps: two requests that pause. *)
Receiver == INSTANCE Dumps WITH
  pending <- x1, pauses <- x2, posts <- x3, next_id <- x4, ring <- x5, viewers <- x6, cleared <- x7,
  Pauses <- {"p1", "p2"}, Tokens <- {"t1", "t2"}, Posts <- {}, Viewers <- {}, RingCap <- 1, ChannelCap <- 1,
  Faults <- {"resume", "disconnect", "reuse"}

-----------------------------------------------------------------------------
(* The slots a part leaves alone. *)
rest10 == <<x10, x11, x12>>
rest8 == <<x8, x9, rest10>>
rest6 == <<x6, x7, rest8>>

Idle10 == x10 = None /\ x11 = None /\ x12 = None
Idle8 == x8 = None /\ x9 = None /\ Idle10
Idle6 == x6 = None /\ x7 = None /\ Idle8
Idle1 == x1 = None /\ x2 = None /\ x3 = None /\ x4 = None /\ x5 = None /\ Idle6

StartupMoves(A) == part = "startup" /\ A /\ UNCHANGED <<slots, part>>
HelpedMoves(A) == part = "helped" /\ A /\ UNCHANGED <<vars, rest6, part>>
FpmMoves(A) == part = "fpm" /\ A /\ UNCHANGED <<vars, part>>
DumpsMoves(A) == part = "dumps" /\ A /\ UNCHANGED <<vars, rest8, part>>
PhpMoves(A) == part = "php" /\ A /\ UNCHANGED <<vars, x12, part>>

MachineInit ==
  \/ part = "startup" /\ Init /\ Idle1
  \/ /\ Init
     /\ \/ part = "race" /\ Race!Init /\ Idle6
        \/ part = "helped" /\ Helped!Init /\ Idle6
        \/ part = "fpm" /\ Fpm!Init
        \/ part = "dumps" /\ Receiver!Init /\ Idle8
        \/ part = "php" /\ Php!Init /\ x12 = None

MachineNext ==
  \/ StartupMoves(Next)
  \/ part = "race" /\ Race!Next /\ UNCHANGED <<vars, rest6, part>>
  \/ HelpedMoves(Helped!Next)
  \/ FpmMoves(Fpm!Next)
  \/ DumpsMoves(Receiver!Next)
  \/ PhpMoves(Php!Next)

(* The fairness of each part, as its module states it. *)
MachineFairness ==
  /\ \A d \in Daemons : WF_all(StartupMoves(Run(d))) /\ WF_all(StartupMoves(Start(d)))
  /\ \A job \in {"agent", "system"} : WF_all(HelpedMoves(Helped!Respawn(job)))
  /\ WF_all(HelpedMoves(Helped!Done \/ Helped!Failed))
  /\ WF_all(HelpedMoves(\E c \in Helped!Problems(x1) : Helped!Fix(c)))
  /\ SF_all(HelpedMoves(\E c \in Helped!Problems(x1) : c.fix = "takeover" /\ Helped!Fix(c)))
  /\ \A r \in {"r1", "r2"} : WF_all(FpmMoves(Fpm!Proxied(r))) /\ WF_all(FpmMoves(Fpm!Terminate(r)))
  /\ WF_all(FpmMoves(Fpm!Tick)) /\ WF_all(FpmMoves(Fpm!Accept))
  /\ \A c \in {"c1", "c2"} : WF_all(PhpMoves(Php!GoesOn(c)))
  /\ \A p \in {"p1", "p2"} : /\ WF_all(DumpsMoves(Receiver!Answered(p)))
                            /\ WF_all(DumpsMoves(Receiver!GivesUp(p)))
                            /\ WF_all(DumpsMoves(Receiver!GoesOn(p)))
  /\ SF_all(PhpMoves(Php!RepairAsked("8.4")))

MachineSpec == MachineInit /\ [][MachineNext]_all /\ MachineFairness

-----------------------------------------------------------------------------
(* Startup: whatever crashes and stops leave behind, a daemon comes back.  *)
DaemonComesBack == []<>(part = "startup" => \E d \in Daemons : Serving(d) /\ sock = d)

(* Startup: of daemons started at once, one serves, behind the socket.     *)
RaceOneOwner == part = "race" => Race!OneOwner

(* Setup: whoever keeps following the doctor gets a clean report.          *)
FixesConverge == []<>(part = "helped" => Helped!Problems(x1) = {})

(* Gateway: every worker is given back.                                    *)
WorkersFreed == \A r \in {"r1", "r2"} : (part = "fpm" /\ r \in x7) ~> (part = "fpm" /\ r \notin x7)

(* Dumps: every pause ends.                                                *)
PauseEnds ==
  \A p \in {"p1", "p2"} :
    (part = "dumps" /\ x2[p].at = "waiting") ~> (part = "dumps" /\ x2[p].at = "done")

(* PhpTools: whoever runs the repair the doctor asks for gets rid of it,   *)
(* except for extensions whose library is there and does not load.         *)
RepairsConverge == <>[](part = "php" => \A v \in Php!check_php : Php!Repaired(v))
================================================================================
