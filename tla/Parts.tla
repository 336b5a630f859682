---------------------------------- MODULE Parts ----------------------------------
(***************************************************************************)
(* The parts that have a machine or a daemon to themselves, side by side:  *)
(* a branch switch, the database servers, the mail sink, the dumps         *)
(* receiver, a request to php-fpm, the accounts, the machine's setup, the  *)
(* Node tools and the PHP tools. They share no state: one of them moves in *)
(* a behaviour. The switch has BranchDb's own variables; the others use    *)
(* x1 .. x12, each in its own sense and under names of its own.            *)
(***************************************************************************)
EXTENDS BranchDb, FiniteSets

CONSTANTS
  Names, Engines, MaxPort, Partial, ServicesFaults,                       \* see Services, Engines are its Versions
  Conns, Users, Addrs, MaxMail, MaxClock, MailFaults,                     \* see Mail
  Pauses, Tokens, Posts, Viewers, RingCap, ChannelCap, DumpsFaults,       \* see Dumps
  Calls, Pages, Roots, Workers, Backlog, MaxChunks, GatewayFaults,        \* see Gateway: its Requests and Urls
  Clis, Hosts, DefaultHost, Urls, DefaultUrl, WithToken, EnvToken,        \* see Account
  CliCommands, MaxPolls, MaxKeys, CliFaults, Empty, Half,
  Tlds, Native, Servers, SiteNames, SetupCommands, JobStates, SetupEvents, SetupFaults, MaxCommands,  \* see Setup
  Projects, Fans, NodeVersions, Ranges, FirstOf, Managers, Forced, PathNode,  \* see NodeTools: Fans are its Clis
  PhpLines, PathPhp, Exts, Zend, Linking, Lines, PhpClis, MaxBrews, PhpCommands    \* see PhpTools: PhpLines are its Versions

VARIABLES x1, x2, x3, x4, x5, x6, x7, x8, x9, x10, x11, x12, part

slots == <<x1, x2, x3, x4, x5, x6, x7, x8, x9, x10, x11, x12>>
all == <<vars, slots, part>>

(* Services. *)
config == x1
saved == x2
running == x3
servers == x4
data == x5
foreign == x6
made == x7
gone == x8
Srv == INSTANCE Services WITH disk <- saved, Versions <- Engines, Faults <- ServicesFaults

(* Mail. *)
conn == x1
mails == x2
seq == x3
clock == x4
listed == x5
want == x6
queued == x7
excused == x8
Sink == INSTANCE Mail WITH files <- mails, Faults <- MailFaults

(* Dumps. *)
pending == x1
pauses == x2
posts == x3
next_id == x4
ring == x5
viewers == x6
cleared == x7
Receiver == INSTANCE Dumps WITH Faults <- DumpsFaults

(* Gateway. *)
root == x1
stage == x2
age == x3
answer == x4
serving == x5
queue == x6
working == x7
ran == x8
sent == x9
got == x10
flow == x11
stats == x12
Fpm == INSTANCE Gateway WITH
  Requests <- Calls, Urls <- Pages, pc <- stage, up <- serving, Faults <- GatewayFaults

(* Account. *)
files == x1
at == x2
step == x3
cmd == x4
host == x5
read == x6
tok == x7
left == x8
code == x9
Cli == INSTANCE Account WITH pc <- step, Commands <- CliCommands, Faults <- CliFaults

(* Setup. *)
mac == x1
steps == x2
fixing == x3
fixed == x4
count == x5
Mac == INSTANCE Setup WITH
  todo <- steps, Commands <- SetupCommands, Agents <- JobStates, Events <- SetupEvents, Faults <- SetupFaults

(* NodeTools. *)
manager == x1
projects == x2
fans == x3
jobs == x4
fast == x5
plan == x6
failures == x7
seen == x8
Node == INSTANCE NodeTools WITH
  files <- projects, pc <- fans, job <- jobs, failed <- failures, Clis <- Fans, Versions <- NodeVersions

(* PhpTools. *)
keg == x1
libs == x2
conf == x3
legacy == x4
loader == x5
phase == x6
task == x7
inis == x8
aside == x9
brews == x10
moved == x11
Php == INSTANCE PhpTools WITH
  pc <- phase, todo <- inis, Versions <- PhpLines, Clis <- PhpClis, Commands <- PhpCommands

-----------------------------------------------------------------------------
(* What the constants have to be. *)

(* Dumps: a token and a request are names, and an answer is one of two words. *)
Answers == {"continue", "stop"}
Named == None \notin Pauses \cup Tokens \cup Answers

(* Gateway: None is no answer. *)
AnswersNamed == None # "200"

(* Account: the built-in host and instance are like any other, and None is neither. *)
AccountsNamed ==
  /\ DefaultHost \in Hosts /\ DefaultUrl \in Urls /\ None \notin Hosts \cup Urls

KnownCommands ==
  {"setup", "setup --no-ports", "takeover", "unsetup", "untakeover", "resolution hosts", "resolution resolver",
   "untrust", "trust", "daemon install", "daemon uninstall", "start", "stop", "reload", "restart"}

(* Setup: the commands are those there are, the domains finitely many, and   *)
(* the one that is configured at first needs a resolver.                     *)
SetupNamed ==
  /\ SetupCommands \subseteq KnownCommands /\ SiteNames \subseteq {"none", "fine", "bad"}
  /\ IsFiniteSet(Tlds) /\ Tlds \ Native # {}

(* NodeTools: versions, package managers and None are told apart, the Node   *)
(* on PATH is no pin, and the projects are projects.                         *)
ToolsNamed ==
  /\ None \notin NodeVersions \cup Node!Agents
  /\ \A version \in NodeVersions \cup Ranges, source \in {".nvmrc", ".node-version", "package.json"} :
       Node!Pin(version, source) # None
  /\ "file" \notin NodeVersions /\ PathNode # "file"
  /\ FirstOf \in [Ranges -> NodeVersions \cup {None}]
  /\ Projects \subseteq Node!Project /\ Forced \subseteq Node!Agents \cup {None}

(* PhpTools: the ways to ask for an extension are those there are, and None  *)
(* is no source of a PHP.                                                    *)
PhpNamed == Lines \subseteq {"live", "spaced"} /\ MaxBrews \in Nat /\ None \notin {"homebrew", "path"}

ASSUME PartsAssumption ==
  Srv!ServicesAssumption /\ Named /\ AnswersNamed /\ AccountsNamed /\ SetupNamed /\ ToolsNamed /\ PhpNamed

-----------------------------------------------------------------------------
(* The slots a part leaves alone. *)
rest10 == <<x10, x11, x12>>
rest9 == <<x9, rest10>>
rest8 == <<x8, rest9>>
rest6 == <<x6, x7, rest8>>

Idle10 == x10 = None /\ x11 = None /\ x12 = None
Idle9 == x9 = None /\ Idle10
Idle8 == x8 = None /\ Idle9
Idle6 == x6 = None /\ x7 = None /\ Idle8
Idle1 == x1 = None /\ x2 = None /\ x3 = None /\ x4 = None /\ x5 = None /\ Idle6

PartsInit ==
  /\ Init
  /\ \/ part = "branch" /\ Idle1
     \/ part = "services" /\ Srv!Init /\ Idle9
     \/ part = "mail" /\ Sink!Init /\ Idle9
     \/ part = "dumps" /\ Receiver!Init /\ Idle8
     \/ part = "fpm" /\ Fpm!Init
     \/ part = "account" /\ Cli!Init /\ Idle10
     \/ part = "setup" /\ Mac!Init /\ Idle6
     \/ part = "node" /\ Node!Init /\ Idle9
     \/ part = "php" /\ Php!Init /\ x12 = None

PartsNext ==
  \/ part = "branch" /\ Next /\ UNCHANGED <<slots, part>>
  \/ /\ UNCHANGED <<vars, part>>
     /\ \/ part = "services" /\ Srv!Next /\ UNCHANGED rest9
        \/ part = "mail" /\ Sink!Next /\ UNCHANGED rest9
        \/ part = "dumps" /\ Receiver!Next /\ UNCHANGED rest8
        \/ part = "fpm" /\ Fpm!Next
        \/ part = "account" /\ Cli!Next /\ UNCHANGED rest10
        \/ part = "setup" /\ Mac!Next /\ UNCHANGED rest6
        \/ part = "node" /\ Node!Next /\ UNCHANGED rest9
        \/ part = "php" /\ Php!Next /\ UNCHANGED x12

PartsSpec == PartsInit /\ [][PartsNext]_all

-----------------------------------------------------------------------------
(* LiveDataFindable is BranchDb's: what is live is in the base, or parked    *)
(* under its branch.                                                         *)

(* Services: what was answered with success stays.                         *)
Durable == part = "services" => Srv!Durable

(* Mail: what was answered with "queued" stays until its mailbox is cleared. *)
QueuedKept == part = "mail" => Sink!QueuedKept

(* Mail: the envelope of a message is the one of its own transaction.      *)
EnvelopeOwn == part = "mail" => Sink!EnvelopeOwn

(* Mail: a message is filed under the name its sender authenticated with.  *)
FiledUnderSender == part = "mail" => Sink!FiledUnderSender

(* Dumps: a site is held until its own resume or its own timeout.          *)
HeldUntilResumed == part = "dumps" => Receiver!HeldUntilResumed

(* Dumps: the map holds only breakpoints that somebody waits at.           *)
NoLeak == part = "dumps" => Receiver!NoLeak

(* Dumps: a viewer that has caught up has seen every payload that is kept. *)
SeesAll == part = "dumps" => Receiver!SeesAll

(* Setup: a report of the doctor with no problem is true.                  *)
CleanIsReachable == part = "setup" => Mac!CleanIsReachable

(* Setup: no entry of /etc/hosts outlives hosts mode.                      *)
BlockGone == part = "setup" => Mac!BlockGone

(* Gateway: an answer is whole, or it is an error.                         *)
AnswerWhole == part = "fpm" => Fpm!AnswerWhole

(* Account: a token is kept for who issued it; dply sends a host its own.  *)
TokensHome == part = "account" => Cli!TokensHome

(* NodeTools: a pin keeps the Node, an install keeps the lockfile.         *)
ToolsMatch == [][part = "node" => Node!Matching]_all

-----------------------------------------------------------------------------
(* Refuted; see the README. *)
Whole == part = "mail" => Sink!Whole
ShownOnce == part = "dumps" => Receiver!ShownOnce
InOrder == part = "dumps" => Receiver!InOrder
================================================================================
