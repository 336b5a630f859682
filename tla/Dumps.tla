---------------------------------- MODULE Dumps ---------------------------------
(***************************************************************************)
(* The dumps receiver: breakpoints that wait for a resume, and payloads    *)
(* that go into a bounded ring and to the viewers that stream it.  Each    *)
(* request runs on a task of its own; the locks of the ring and of the     *)
(* pending map are taken separately.                                       *)
(***************************************************************************)
EXTENDS Naturals, Sequences, FiniteSets, Functions

CONSTANTS
  Pauses,     \* requests that pause
  Tokens,     \* breakpoint tokens
  Posts,      \* requests that post a payload
  Viewers,    \* requests that stream
  RingCap,    \* RING_CAP
  ChannelCap, \* what the broadcast channel keeps for a slow viewer
  None,       \* no pause
  Faults      \* "reuse", "disconnect", "slow", "clear", "resume"


VARIABLES
  pending, \* Dumps.pending
  pauses,  \* the requests that pause
  posts,   \* the requests that post: how far they are, and their id
  next_id, \* Dumps.next_id
  ring,    \* Dumps.ring, a sequence of ids
  viewers, \* the requests that stream: what is shown, and what is queued
  cleared  \* not in the code: ids removed by a clear, or pushed out of the ring

vars == <<pending, pauses, posts, next_id, ring, viewers, cleared>>
breakpoints == <<pending, pauses>>
stream == <<posts, next_id, ring, viewers, cleared>>

-----------------------------------------------------------------------------
(* Breakpoints.                                                            *)

(* A waiting request whose sender left the map without a word is broken.   *)
Settled(ps, map) ==
  [p \in Pauses |-> IF ps[p].at = "waiting" /\ ps[p].got = None /\ map[ps[p].token] # p
                    THEN [ps[p] EXCEPT !.at = "broken"] ELSE ps[p]]

(* A site that pauses gives its breakpoint a token of its own. *)
MayUse(token) ==
  "reuse" \in Faults \/ \A p \in Pauses : pauses[p].token # token \/ pauses[p].at = "done"

(* register_pause: an older sender with the token is dropped. *)
Pause(p, token) ==
  /\ pauses[p].at = "idle" /\ MayUse(token)
  /\ pending' = [pending EXCEPT ![token] = p]
  /\ pauses' = Settled([pauses EXCEPT ![p] = [@ EXCEPT !.at = "waiting", !.token = token]], pending')
  /\ UNCHANGED stream

(* Mutant of Resumed: the other breakpoints go with it. *)
Resumed_All(token) == [t \in Tokens |-> None]

Resumed(token) == [pending EXCEPT ![token] = None]

(* resume: the sender is taken, and what waits for it is told. *)
Resume(token, action) ==
  LET p == pending[token]
      told == IF p # None /\ pauses[p].at = "waiting"
              THEN [pauses EXCEPT ![p].got = action] ELSE pauses
  IN /\ "resume" \in Faults /\ p # None
     /\ pending' = Resumed(token)
     /\ pauses' = Settled(told, pending')
     /\ UNCHANGED stream

(* The answer is read; it comes before a timeout of the same moment. *)
Answered(p) ==
  /\ pauses[p].at = "waiting" /\ pauses[p].got # None
  /\ pauses' = [pauses EXCEPT ![p].at = "done"]
  /\ UNCHANGED <<pending, stream>>

(* Mutant of TimeUp: no timeout. *)
TimeUp_Never(p) == FALSE

(* Five minutes have passed, and no answer came. *)
TimeUp(p) == pauses[p].at = "waiting" /\ pauses[p].got = None

GivesUp(p) ==
  /\ pauses[p].at = "broken" \/ TimeUp(p)
  /\ pauses' = [pauses EXCEPT ![p].at = "dropping", ![p].early = pauses[p].at = "broken"]
  /\ UNCHANGED <<pending, stream>>

(* Mutant of Dropped: the token is not removed. *)
Dropped_Kept(token) == pending

(* drop_pause removes the token, whoever it stands for. *)
Dropped(token) == [pending EXCEPT ![token] = None]

(* The site is told to continue. *)
GoesOn(p) ==
  /\ pauses[p].at = "dropping"
  /\ pending' = Dropped(pauses[p].token)
  /\ pauses' = Settled([pauses EXCEPT ![p].at = "done"], pending')
  /\ UNCHANGED stream

(* The site goes away: its request is dropped, and the token stays. *)
Disconnect(p) ==
  /\ "disconnect" \in Faults /\ pauses[p].at = "waiting"
  /\ pauses' = [pauses EXCEPT ![p].at = "done"]
  /\ UNCHANGED <<pending, stream>>

-----------------------------------------------------------------------------
(* Payloads.                                                               *)

(* push: the id first, then the ring, then the live viewers. *)
Stamp(d) ==
  /\ posts[d].at = "idle"
  /\ posts' = [posts EXCEPT ![d] = [at |-> "stamped", id |-> next_id]]
  /\ next_id' = next_id + 1
  /\ UNCHANGED <<ring, viewers, cleared, breakpoints>>

Kept(id) == IF Len(ring) >= RingCap THEN Append(Tail(ring), id) ELSE Append(ring, id)

Buffer(d) ==
  /\ posts[d].at = "stamped"
  /\ ring' = Kept(posts[d].id)
  /\ cleared' = cleared \cup (Range(ring) \ Range(ring'))
  /\ posts' = [posts EXCEPT ![d].at = "buffered"]
  /\ UNCHANGED <<next_id, viewers, breakpoints>>

(* A viewer that is too slow loses the oldest of its queue. *)
Queued(v, id) ==
  IF ~viewers[v].live THEN viewers[v]
  ELSE [viewers[v] EXCEPT !.queue = IF Len(@) >= ChannelCap THEN Append(Tail(@), id)
                                    ELSE Append(@, id)]

Broadcast(d) ==
  /\ posts[d].at = "buffered"
  /\ \A v \in Viewers : viewers[v].live /\ Len(viewers[v].queue) >= ChannelCap => "slow" \in Faults
  /\ viewers' = [v \in Viewers |-> Queued(v, posts[d].id)]
  /\ posts' = [posts EXCEPT ![d].at = "done"]
  /\ UNCHANGED <<next_id, ring, cleared, breakpoints>>

Clear ==
  /\ "clear" \in Faults /\ ring # <<>>
  /\ cleared' = cleared \cup Range(ring)
  /\ ring' = <<>>
  /\ UNCHANGED <<posts, next_id, viewers, breakpoints>>

Joined(viewer) == [viewer EXCEPT !.live = TRUE]
Filled(viewer) == [viewer EXCEPT !.shown = ring]

(* Mutant of Opening: the ring is read before the channel is joined. *)
Opening_SnapshotFirst(viewer) == IF viewer.at = "idle" THEN Filled(viewer) ELSE Joined(viewer)

(* stream_response: join the channel, then read the ring. *)
Opening(viewer) == IF viewer.at = "idle" THEN Joined(viewer) ELSE Filled(viewer)

Open(v) ==
  /\ viewers[v].at \in {"idle", "opened"}
  /\ viewers' = [viewers EXCEPT ![v] =
       [Opening(@) EXCEPT !.at = IF viewers[v].at = "idle" THEN "opened" ELSE "streams"]]
  /\ UNCHANGED <<posts, next_id, ring, cleared, breakpoints>>

Show(v) ==
  /\ viewers[v].at = "streams" /\ viewers[v].queue # <<>>
  /\ viewers' = [viewers EXCEPT ![v].shown = Append(@, Head(viewers[v].queue)),
                                ![v].queue = Tail(@)]
  /\ UNCHANGED <<posts, next_id, ring, cleared, breakpoints>>

Init ==
  /\ pending = [t \in Tokens |-> None]
  /\ pauses = [p \in Pauses |-> [at |-> "idle", token |-> None, got |-> None, early |-> FALSE]]
  /\ posts = [d \in Posts |-> [at |-> "idle", id |-> 0]]
  /\ next_id = 1
  /\ ring = <<>>
  /\ viewers = [v \in Viewers |-> [at |-> "idle", live |-> FALSE, queue |-> <<>>, shown |-> <<>>]]
  /\ cleared = {}

Next ==
  \/ \E p \in Pauses, token \in Tokens : Pause(p, token)
  \/ \E token \in Tokens, action \in {"continue", "stop"} : Resume(token, action)
  \/ \E p \in Pauses : Answered(p) \/ GivesUp(p) \/ GoesOn(p) \/ Disconnect(p)
  \/ \E d \in Posts : Stamp(d) \/ Buffer(d) \/ Broadcast(d)
  \/ Clear
  \/ \E v \in Viewers : Open(v) \/ Show(v)

Spec == Init /\ [][Next]_vars

(* Timers run out, and a request that can go on does.                      *)
Fairness == \A p \in Pauses : WF_vars(Answered(p)) /\ WF_vars(GivesUp(p)) /\ WF_vars(GoesOn(p))

FairSpec == Spec /\ Fairness

-----------------------------------------------------------------------------
(* Properties.                                                             *)

(* A site is held at its breakpoint until its own resume or its own        *)
(* timeout: the resumes and timeouts of other breakpoints never free it.   *)
HeldUntilResumed == \A p \in Pauses : pauses[p].at # "broken" /\ ~pauses[p].early

(* The map holds only breakpoints that somebody waits at.                  *)
NoLeak ==
  \A t \in Tokens : pending[t] # None =>
    pauses[pending[t]].at \in {"waiting", "dropping"} /\ pauses[pending[t]].got = None

(* A viewer that has caught up has seen every payload whose post was       *)
(* answered and that is still kept: none falls between the ring it read and *)
(* the channel it joined.                                                  *)
SeesAll ==
  \A v \in Viewers, d \in Posts :
    viewers[v].at = "streams" /\ viewers[v].queue = <<>>
      /\ posts[d].at = "done" /\ posts[d].id \notin cleared
    => posts[d].id \in Range(viewers[v].shown)

(* "A closed app never hangs the site": every pause ends.                  *)
PauseEnds == \A p \in Pauses : pauses[p].at = "waiting" ~> pauses[p].at = "done"

-----------------------------------------------------------------------------
(* Refuted; see the README.                                                *)

(* No viewer is shown a payload twice. *)
ShownOnce == \A v \in Viewers : IsInjective(viewers[v].shown)

(* The ring is in the order of the ids. *)
InOrder == \A i, j \in 1 .. Len(ring) : i < j => ring[i] < ring[j]
================================================================================
