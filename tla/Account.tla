--------------------------------- MODULE Account ---------------------------------
(***************************************************************************)
(* The accounts of the hosted platforms: `dpl dply login|logout|...` with  *)
(* ~/.dply/config.json, which the PHP client shares, and `dpl keel ...`    *)
(* with ~/.keel/cloud.json.                                                *)
(*   crates/dpl-dply, crates/dpl-keel, crates/dpl/src/commands/dply, keel  *)
(*                                                                         *)
(* Every command is a process of its own: each read of a file, each system *)
(* call of a save and each request to a server is a step.                  *)
(***************************************************************************)
EXTENDS Naturals

CONSTANTS
  Clis,        \* processes, one command at a time
  Hosts,
  DefaultHost, \* DEFAULT_HOST
  Urls,        \* Keel Cloud instances
  DefaultUrl,  \* DEFAULT_URL
  WithToken,   \* processes run with $DPLY_TOKEN
  EnvToken,
  Commands,    \* subset of {"login", "logout", "use", "keel login", "keel logout", "keel use"}
  MaxPolls,    \* bound: polls before the code's deadline
  MaxKeys,     \* bound: requests of one command
  Faults,      \* subset of {"network", "crash"}
  Empty,       \* a file just opened for writing
  Half,        \* what two writers of one file may leave
  None

VARIABLES
  files, \* config.json ("dply"), config.tmp ("tmp") and cloud.json ("keel")
  at,    \* the name of the file a process has open, if any
  pc, cmd,
  host,  \* the host or the instance of the command
  read,  \* the content it is about to save
  tok,   \* its token
  left,  \* polls before the deadline, or requests to send
  code   \* the server's view of its device code

process == <<pc, cmd, host, read, tok, left, code>>
vars == <<files, at, process>>

Token == Hosts \cup Urls  \* a token, by who issued it
ConfigFile == [default : Hosts \cup {None}, hosts : [Hosts -> Token \cup {None}]]
FileShape == [url : Urls \cup {None}, token : Token \cup {None}]
NoHosts == [default |-> None, hosts |-> [h \in Hosts |-> None]]
NoShape == [url |-> None, token |-> None]

TypeOK ==
  /\ files["dply"] \in ConfigFile \cup {None, Empty, Half}
  /\ files["tmp"] \in ConfigFile \cup {None, Empty, Half}
  /\ files["keel"] \in FileShape \cup {None, Empty, Half}
  /\ at \in [Clis -> {"none", "tmp", "dply", "keel", "gone"}]
  /\ tok \in [Clis -> Token \cup {EnvToken, None}]
  /\ left \in [Clis -> 0 .. MaxPolls + MaxKeys]
  /\ code \in [Clis -> {"none", "pending", "authorized", "denied", "expired"}]

Goes(c, where) == pc' = [pc EXCEPT ![c] = where]

(* What the process knew goes with it. *)
Ends(c) ==
  /\ Goes(c, "idle") /\ cmd' = [cmd EXCEPT ![c] = "none"] /\ host' = [host EXCEPT ![c] = None]
  /\ read' = [read EXCEPT ![c] = None] /\ tok' = [tok EXCEPT ![c] = None]
  /\ left' = [left EXCEPT ![c] = 0] /\ code' = [code EXCEPT ![c] = "none"]

GoesOn(c, where) == Goes(c, where) /\ UNCHANGED <<cmd, host, read, tok, left, code>>

Begins(c, what, where) == pc[c] = "idle" /\ what \in Commands /\ Goes(c, where) /\ cmd' = [cmd EXCEPT ![c] = what]

(* load: no file and an empty one are a config without hosts, anything that *)
(* does not parse is an error. Keel's `read` takes that for nothing, too.   *)
Corrupt == files["dply"] = Half
load == IF files["dply"] \in {None, Empty, Half} THEN NoHosts ELSE files["dply"]
shape == IF files["keel"] \in {None, Empty, Half} THEN NoShape ELSE files["keel"]
url == IF shape.url = None THEN DefaultUrl ELSE shape.url

resolve_host(flag) ==
  CASE flag # None -> flag
    [] flag = None /\ load.default # None -> load.default
    [] OTHER -> DefaultHost

token_for(c, h) == IF c \in WithToken THEN EnvToken ELSE load.hosts[h]

-----------------------------------------------------------------------------
(* dply.                                                                   *)

Begin(c, what, flag) ==
  /\ Begins(c, what, CASE what = "login" -> "start" [] what = "logout" -> "check" [] OTHER -> "auth")
  /\ host' = [host EXCEPT ![c] = resolve_host(flag)]
  /\ UNCHANGED <<files, at, read, tok, left, code>>

Fails(c) ==
  /\ "network" \in Faults /\ pc[c] \in {"start", "poll", "request"}
  /\ Ends(c)
  /\ UNCHANGED <<files, at>>

Start(c) ==
  /\ pc[c] = "start" /\ Goes(c, "poll")
  /\ code' = [code EXCEPT ![c] = "pending"] /\ left' = [left EXCEPT ![c] = MaxPolls]
  /\ UNCHANGED <<files, at, cmd, host, read, tok>>

Approved(c) ==
  /\ code[c] = "authorized" /\ Goes(c, "load")
  /\ tok' = [tok EXCEPT ![c] = host[c]]
  /\ UNCHANGED <<cmd, host, read, code>>

Refused(c) == code[c] \in {"denied", "expired"} /\ Ends(c)

Waits(c) == left' = [left EXCEPT ![c] = IF @ = 0 THEN 0 ELSE @ - 1]
Pending(c) == Waits(c) /\ UNCHANGED <<pc, cmd, host, read, tok, code>>

(* One turn of the loop: the deadline is looked at before the pause and the *)
(* poll. A throttled poll counts as one still pending.                      *)
Poll(c) ==
  /\ pc[c] = "poll"
  /\ IF left[c] = 0 THEN Ends(c) ELSE (Approved(c) /\ Waits(c)) \/ Refused(c) \/ Pending(c)
  /\ UNCHANGED <<files, at>>

Decide(c, answer) ==
  /\ code[c] = "pending" /\ code' = [code EXCEPT ![c] = answer]
  /\ UNCHANGED <<files, at, pc, cmd, host, read, tok, left>>

(* Mutant of Stored: the token is stored for the host that is the default by then. *)
Stored_Default(c, data) ==
  LET h == resolve_host(None) IN [default |-> h, hosts |-> [data.hosts EXCEPT ![h] = tok[c]]]

Stored(c, data) == [default |-> host[c], hosts |-> [data.hosts EXCEPT ![host[c]] = tok[c]]]

(* One of the hosts that are left is the new default: the first, any here.  *)
Forgotten(c, data) ==
  LET rest == [data.hosts EXCEPT ![host[c]] = None]
      kept == {h \in Hosts : rest[h] # None}
  IN {[default |-> d, hosts |-> rest] :
        d \in IF data.default # host[c] THEN {data.default} ELSE IF kept = {} THEN {None} ELSE kept}

(* logout asks for a token first. *)
Check(c) ==
  /\ pc[c] = "check"
  /\ IF c \notin WithToken /\ (Corrupt \/ load.hosts[host[c]] = None) THEN Ends(c) ELSE GoesOn(c, "load")
  /\ UNCHANGED <<files, at>>

(* set_host and forget_host: read the file, change it, save it. *)
Load(c) ==
  /\ pc[c] = "load"
  /\ IF Corrupt \/ (cmd[c] = "logout" /\ load.hosts[host[c]] = None) THEN Ends(c)
     ELSE /\ Goes(c, "open") /\ UNCHANGED <<cmd, host, tok, left, code>>
          /\ \E data \in IF cmd[c] = "login" THEN {Stored(c, load)} ELSE Forgotten(c, load) :
               read' = [read EXCEPT ![c] = data]
  /\ UNCHANGED <<files, at>>

Target(c) == IF cmd[c] \in {"keel login", "keel logout"} THEN "keel" ELSE "tmp"

Open(c) ==
  /\ pc[c] = "open"
  /\ files' = [files EXCEPT ![Target(c)] = Empty] /\ at' = [at EXCEPT ![c] = Target(c)]
  /\ GoesOn(c, "write")

(* Where another process wrote first, the longer text shows below the other. *)
Write(c) ==
  /\ pc[c] = "write"
  /\ IF at[c] = "gone" THEN UNCHANGED files
     ELSE \E text \in {read[c]} \cup (IF files[at[c]] = Empty THEN {} ELSE {Half}) :
            files' = [files EXCEPT ![at[c]] = text]
  /\ at' = [at EXCEPT ![c] = "none"]
  /\ CASE cmd[c] = "keel login" -> GoesOn(c, "url")
       [] cmd[c] = "keel logout" -> Ends(c)
       [] OTHER -> GoesOn(c, "rename")

(* Every process names the temporary file alike: who has it open goes on     *)
(* writing into what is the config by then.                                  *)
Rename(c) ==
  /\ pc[c] = "rename" /\ Ends(c)
  /\ IF files["tmp"] = None THEN UNCHANGED <<files, at>>
     ELSE /\ files' = [files EXCEPT !["dply"] = files["tmp"], !["tmp"] = None]
          /\ at' = [d \in Clis |-> CASE at[d] = "tmp" -> "dply" [] at[d] = "dply" -> "gone" [] OTHER -> at[d]]

(* The requests of a command, each followed by the next if it succeeds: an   *)
(* `edge:env --from-file` sends one, `site:env --from-file` one for each key *)
(* of the file, and --set and --unset one for each key, in both.             *)
Sends == 1 .. MaxKeys

(* for_active. *)
Auth(c) ==
  /\ pc[c] = "auth"
  /\ IF c \notin WithToken /\ (Corrupt \/ load.hosts[host[c]] = None) THEN Ends(c)
     ELSE /\ tok' = [tok EXCEPT ![c] = token_for(c, host[c])]
          /\ \E n \in Sends : left' = [left EXCEPT ![c] = n]
          /\ Goes(c, "request") /\ UNCHANGED <<cmd, host, read, code>>
  /\ UNCHANGED <<files, at>>

Request(c) ==
  /\ pc[c] = "request"
  /\ IF left[c] = 1 THEN Ends(c)
     ELSE left' = [left EXCEPT ![c] = @ - 1] /\ UNCHANGED <<pc, cmd, host, read, tok, code>>
  /\ UNCHANGED <<files, at>>

(* The process ends in the middle of a save. *)
Crash(c) ==
  /\ "crash" \in Faults /\ pc[c] \in {"write", "rename"}
  /\ Ends(c) /\ at' = [at EXCEPT ![c] = "none"]
  /\ UNCHANGED files

-----------------------------------------------------------------------------
(* Keel Cloud.                                                             *)

Shape(u, t) == [url |-> IF u = DefaultUrl THEN None ELSE u, token |-> t]

(* The token is minted where the prompt says. *)
KeelLogin(c, u) ==
  /\ Begins(c, "keel login", "open")
  /\ read' = [read EXCEPT ![c] = Shape(u, IF u = None THEN DefaultUrl ELSE u)]
  /\ UNCHANGED <<files, at, host, tok, left, code>>

KeelLogout(c) ==
  /\ files["keel"] # None
  /\ Begins(c, "keel logout", "open")
  /\ read' = [read EXCEPT ![c] = [shape EXCEPT !.token = None]]
  /\ UNCHANGED <<files, at, host, tok, left, code>>

KeelUse(c) ==
  /\ Begins(c, "keel use", "url")
  /\ UNCHANGED <<files, at, host, read, tok, left, code>>

(* for_active reads the file for the instance, and again for the token. *)
ReadUrl(c) ==
  /\ pc[c] = "url" /\ Goes(c, "token")
  /\ host' = [host EXCEPT ![c] = url]
  /\ UNCHANGED <<files, at, cmd, read, tok, left, code>>

ReadToken(c) ==
  /\ pc[c] = "token"
  /\ IF shape.token = None THEN Ends(c)
     ELSE /\ Goes(c, "request") /\ tok' = [tok EXCEPT ![c] = shape.token]
          /\ left' = [left EXCEPT ![c] = 1] /\ UNCHANGED <<cmd, host, read, code>>
  /\ UNCHANGED <<files, at>>

Init ==
  /\ files = [f \in {"dply", "tmp", "keel"} |-> None]
  /\ at = [c \in Clis |-> "none"] /\ pc = [c \in Clis |-> "idle"] /\ cmd = [c \in Clis |-> "none"]
  /\ host = [c \in Clis |-> None] /\ read = [c \in Clis |-> None]
  /\ tok = [c \in Clis |-> None] /\ left = [c \in Clis |-> 0]
  /\ code = [c \in Clis |-> "none"]

Next ==
  \E c \in Clis :
    \/ \E what \in {"login", "logout", "use"}, flag \in Hosts \cup {None} : Begin(c, what, flag)
    \/ Start(c) \/ Poll(c) \/ Fails(c) \/ Check(c) \/ Load(c) \/ Open(c) \/ Write(c) \/ Rename(c)
    \/ Auth(c) \/ Request(c) \/ Crash(c)
    \/ \E answer \in {"authorized", "denied", "expired"} : Decide(c, answer)
    \/ \E u \in Urls \cup {None} : KeelLogin(c, u)
    \/ KeelLogout(c) \/ KeelUse(c) \/ ReadUrl(c) \/ ReadToken(c)

Spec == Init /\ [][Next]_vars

Fairness == \A c \in Clis : WF_vars(Poll(c))

-----------------------------------------------------------------------------
(* Properties.                                                             *)

(* Both files keep a token only for the host or the instance that issued it, *)
(* and what dply sends to a host is the token of that host or $DPLY_TOKEN,   *)
(* however logins, logouts and other commands overlap; the default host is   *)
(* one that has a token, as long as any has. Of what is sent to Keel Cloud   *)
(* it says nothing: that is KeelTokenHome.                                   *)
TokensHome ==
  /\ \A h \in Hosts : load.hosts[h] \in {h, None}
  /\ IF load.default = None THEN load = NoHosts ELSE load.hosts[load.default] # None
  /\ \A c \in Clis : cmd[c] = "use" /\ pc[c] = "request" => tok[c] \in {host[c], EnvToken}
  /\ shape.token \in {url, None}

(* A login ends, whatever the server answers and whether anybody approves it. *)
LoginEnds == \A c \in Clis : pc[c] = "poll" ~> pc[c] # "poll"

-----------------------------------------------------------------------------
(* Refuted; see the README.                                                *)

(* "so a reader never sees a half-written config" *)
WholeFile == files["dply"] \notin {Empty, Half}

(* "a login in either tool is honoured by both". *)
LoginHonoured ==
  [][\A c \in Clis : cmd[c] = "login" /\ Rename(c) =>
       \A h \in Hosts : load.hosts[h] # None => load'.hosts[h] # None]_vars

(* A request to a Keel Cloud instance carries a token of that instance. *)
KeelTokenHome ==
  \A c \in Clis : cmd[c] \in {"keel login", "keel use"} /\ pc[c] = "request" => tok[c] = host[c]

(* "The URL is kept so a re-login lands on the same instance". *)
ReloginStays == [][\A c \in Clis : KeelLogin(c, None) => read'[c].url = shape.url]_vars

(* Who is logged out has no token left to act with. *)
LogoutForgets == [][\A c \in Clis : cmd[c] = "logout" /\ Load(c) => c \notin WithToken]_vars

(* A command of several requests takes effect as a whole. *)
AllOrNothing == [][\A c \in Clis : pc[c] = "request" /\ Fails(c) => left[c] = MaxKeys]_vars
================================================================================
