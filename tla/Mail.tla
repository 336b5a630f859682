---------------------------------- MODULE Mail ----------------------------------
(***************************************************************************)
(* The mail sink: SMTP connections that file messages into one directory,  *)
(* and `dpl mail clear`, which lists the directory and then removes files. *)
(* A body is abstracted to the mailbox header it may carry itself, and to  *)
(* whether its last line arrived.                                          *)
(***************************************************************************)
EXTENDS Naturals

CONSTANTS
  Conns,    \* SMTP connections
  Users,    \* usable user names; each is the name of a mailbox
  Addrs,    \* mail addresses
  None,     \* no user name; the mailbox "-"
  MaxMail,  \* bound on messages stored
  MaxClock, \* bound on milliseconds
  Faults    \* "hangup", "binary", "again", "header"


VARIABLES
  conn,    \* what handle knows of each connection
  files,   \* ~/.dpl/mail, by file name
  seq,     \* SEQ
  clock,   \* milliseconds
  listed,  \* the files a running clear has listed
  want,    \* not in the code: the transaction as its client means it
  queued,  \* not in the code: files answered with "250 OK: queued", each with
           \* the number of messages stored before it
  excused  \* not in the code: names a clear was asked to remove

vars == <<conn, files, seq, clock, listed, want, queued, excused>>

Box == Users \cup {None}
Fresh == [at |-> "command", from |-> None, rcpts |-> {}, mailbox |-> None]
NoWant == [from |-> None, rcpts |-> {}, user |-> None]

(* Mutant of NewName: the time alone. *)
NewName_Time == <<clock, 0>>

(* store: milliseconds and a sequence number name the file. *)
NewName == <<clock, seq>>

Rest == <<files, seq, clock, listed, queued, excused>>

-----------------------------------------------------------------------------
(* One line of a client each.                                              *)

AtCommand(c) == conn[c].at = "command"

(* AUTH with a name that decodes; without one, nothing changes. *)
Auth(c, user) ==
  /\ AtCommand(c)
  /\ conn' = [conn EXCEPT ![c].mailbox = user]
  /\ want' = [want EXCEPT ![c].user = user]
  /\ UNCHANGED Rest

Begun(c, addr) == [conn[c] EXCEPT !.from = addr, !.rcpts = {}]

MailFrom(c, addr) ==
  /\ AtCommand(c)
  /\ conn' = [conn EXCEPT ![c] = Begun(c, addr)]
  /\ want' = [want EXCEPT ![c] = [from |-> addr, rcpts |-> {}, user |-> @.user]]
  /\ UNCHANGED Rest

RcptTo(c, addr) ==
  /\ AtCommand(c) /\ want[c].from # None
  /\ conn' = [conn EXCEPT ![c].rcpts = @ \cup {addr}]
  /\ want' = [want EXCEPT ![c].rcpts = @ \cup {addr}]
  /\ UNCHANGED Rest

(* RSET ends the transaction and keeps the mailbox. *)
Cleared(c) == [conn[c] EXCEPT !.from = None, !.rcpts = {}]

Rset(c) ==
  /\ AtCommand(c)
  /\ conn' = [conn EXCEPT ![c] = Cleared(c)]
  /\ want' = [want EXCEPT ![c].from = None, ![c].rcpts = {}]
  /\ UNCHANGED Rest

(* A client that sends DATA again means a transaction of its own. *)
Data(c) ==
  /\ AtCommand(c)
  /\ want[c].from # None \/ "again" \in Faults
  /\ conn' = [conn EXCEPT ![c].at = "data"]
  /\ UNCHANGED <<want, Rest>>

(* store: the envelope is what the connection holds; a header of the body  *)
(* counts when the connection has no mailbox.                              *)
Store(c, whole, header) ==
  LET mail == [from |-> conn[c].from, rcpts |-> conn[c].rcpts, whole |-> whole,
               mailbox |-> IF conn[c].mailbox # None THEN conn[c].mailbox ELSE header,
               meant |-> want[c], nth |-> seq]
  IN /\ seq < MaxMail
     /\ files' = [n \in DOMAIN files \cup {NewName} |-> IF n = NewName THEN mail ELSE files[n]]
     /\ seq' = seq + 1

(* The lone dot. *)
Dot(c, header) ==
  /\ conn[c].at = "data"
  /\ header # None => "header" \in Faults
  /\ Store(c, TRUE, header)
  /\ queued' = queued \cup {<<NewName, seq>>}
  /\ conn' = [conn EXCEPT ![c].at = "command"]
  /\ want' = [want EXCEPT ![c].from = None, ![c].rcpts = {}]
  /\ UNCHANGED <<clock, listed, excused>>

Close(c) ==
  /\ conn' = [conn EXCEPT ![c] = Fresh]
  /\ want' = [want EXCEPT ![c] = NoWant]

Quit(c) ==
  /\ AtCommand(c) /\ conn[c] # Fresh
  /\ Close(c)
  /\ UNCHANGED Rest

(* The connection ends inside the body: what came is stored. *)
HangUp(c) ==
  /\ "hangup" \in Faults /\ conn[c].at = "data"
  /\ Store(c, FALSE, None)
  /\ Close(c)
  /\ UNCHANGED <<clock, listed, queued, excused>>

(* A line of the body is not UTF-8: read_line fails, and so does handle. *)
Binary(c) ==
  /\ "binary" \in Faults /\ conn[c].at = "data"
  /\ Close(c)
  /\ UNCHANGED Rest

Tick ==
  /\ clock < MaxClock
  /\ clock' = clock + 1
  /\ UNCHANGED <<conn, files, seq, listed, want, queued, excused>>

-----------------------------------------------------------------------------
(* dpl mail clear.                                                         *)

(* load_all with the filter of clear. *)
Selected(box) == {n \in DOMAIN files : files[n].mailbox = box}

MeantFor(box) == {n \in DOMAIN files : files[n].meant.user = box}

ClearLists(box) ==
  /\ listed = {}
  /\ listed' = Selected(box)
  /\ excused' = excused \cup MeantFor(box)
  /\ UNCHANGED <<conn, files, seq, clock, want, queued>>

ClearRemoves(n) ==
  /\ n \in listed
  /\ listed' = listed \ {n}
  /\ files' = [m \in DOMAIN files \ {n} |-> files[m]]
  /\ UNCHANGED <<conn, seq, clock, want, queued, excused>>

Init ==
  /\ conn = [c \in Conns |-> Fresh]
  /\ files = [n \in {} |-> None]
  /\ seq = 0 /\ clock = 0
  /\ listed = {}
  /\ want = [c \in Conns |-> NoWant]
  /\ queued = {} /\ excused = {}

Next ==
  \/ \E c \in Conns, user \in Box : Auth(c, user)
  \/ \E c \in Conns, addr \in Addrs : MailFrom(c, addr) \/ RcptTo(c, addr)
  \/ \E c \in Conns, header \in Box : Dot(c, header)
  \/ \E c \in Conns : Rset(c) \/ Data(c) \/ Quit(c) \/ HangUp(c) \/ Binary(c)
  \/ \E box \in Box : ClearLists(box)
  \/ \E n \in listed : ClearRemoves(n)
  \/ Tick

Spec == Init /\ [][Next]_vars

-----------------------------------------------------------------------------
(* Properties.                                                             *)

(* The envelope of a message is the one its own transaction gave: nothing  *)
(* of an earlier message on the connection, or of another connection.      *)
EnvelopeOwn ==
  \A n \in {q[1] : q \in queued} \cap DOMAIN files :
    files[n].from = files[n].meant.from /\ files[n].rcpts = files[n].meant.rcpts

(* A message is filed under the name its sender authenticated with last,   *)
(* over as many messages and resets as the connection lasts.               *)
FiledUnderSender == \A n \in DOMAIN files : files[n].mailbox = files[n].meant.user

(* A message answered with "queued" stays, whatever other connections store *)
(* in the same millisecond, until a clear of its own mailbox is asked for.  *)
QueuedKept ==
  \A q \in queued : q[1] \in excused \/ (q[1] \in DOMAIN files /\ files[q[1]].nth = q[2])

-----------------------------------------------------------------------------
(* Refuted; see the README.                                                *)

(* What is filed is complete. *)
Whole == \A n \in DOMAIN files : files[n].whole

(* A message that a client has begun to send is filed, with what the client *)
(* meant and in a file of its own, by the time the body ends.               *)
Filing ==
  \A c \in Conns : conn[c].at = "data" /\ conn'[c].at = "command" =>
    \E n \in DOMAIN files' \ DOMAIN files : files'[n].meant = want[c]

Captured == [][Filing]_vars
================================================================================
