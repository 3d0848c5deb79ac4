------------------------------- MODULE Sessions ------------------------------
(***************************************************************************)
(* The life of one daemon's control session: pkg/api's trust.go (pairWith, *)
(* startSession), server.go (acceptPairing, listenToSession, the messages  *)
(* that end a session), redial.go and heartbeat.go, over pkg/session.      *)
(*                                                                         *)
(* A daemon has one active session; a new one replaces it.  Every session  *)
(* has a goroutine that reads it until it is lost, each attempt to open    *)
(* one has its own, a lost session has a timer (the grace period, 15 s)    *)
(* and, when this side dialed it to a trusted device, a goroutine that     *)
(* dials again.  They meet under s.mu, an action each.                     *)
(*                                                                         *)
(* The other devices are the environment: they dial, answer, disconnect,   *)
(* go and come back.  A session silent for 15 s, three pings missed, is a  *)
(* session cut.  The transfers of a session are in module Transfers, its   *)
(* trust negotiation in Trust.                                             *)
(***************************************************************************)
EXTENDS Naturals, Sequences, FiniteSets

CONSTANTS
  Peers,        \* the other devices
  Trusted,      \* those in this device's list
  None,
  MaxSessions,  \* bound: connections, whoever dials
  Acts,         \* "pair", "disconnect": the user; "dial", "leave", "reject": the others; "cut", "stop"
  MaxActs       \* bound

ASSUME PeersAssumption == Trusted \subseteq Peers /\ None \notin Peers
ASSUME BoundAssumption == MaxSessions \in Nat

VARIABLES
  active,        \* activeSession, 0 for none
  sess,          \* the connections, in the order they were asked for
  reconnecting,  \* isReconnecting
  grace,         \* sessionGraceTimer: the session whose loss set it, 0 for none
  timer,         \* per session: the timer its loss set
  trustPeer,     \* the device of the last session started
  redialTo,      \* the device to dial again, should the session be lost
  redialCancel,  \* the redial whose context is held: the lost session, 0 for none
  redial,        \* per session: where the redial of its loss is
  live,          \* the redials whose context is not ended
  reach,         \* the devices that can be reached
  ended,         \* ghost: per redial, where it was when the user or a peer ended it
  stopped,       \* the daemon's context is ended
  acts           \* how many of MaxActs happened

vars == <<active, sess, reconnecting, grace, timer, trustPeer, redialTo, redialCancel, redial, live, reach, ended, stopped, acts>>
loss == <<reconnecting, grace, timer>>
again == <<redialTo, redialCancel, redial, live, ended>>

Ids == 1 .. Len(sess)

\* A connection.  by: whose attempt it is, the redial of a session, or 0 for the user's
\* or the other device's; inbox: what the peer sent and its goroutine has not read; reader:
\* where that goroutine is; note: dialedFor is still to come.
Asked(p, dialed, by) ==
  [peer |-> p, dialed |-> dialed, by |-> by, st |-> "asked", link |-> "up", inbox |-> "none",
   reader |-> "none", note |-> FALSE]

May(act) == ~stopped /\ act \in Acts /\ acts < MaxActs /\ acts' = acts + 1
Room == Len(sess) < MaxSessions

\* Channel.Close.
Closed(ss, i) == IF i = 0 THEN ss ELSE [ss EXCEPT ![i].st = "closed"]

-----------------------------------------------------------------------------
(* Ending.                                                                  *)

\* stopRedial, by the session of a redial or by somebody else (0): the redial's context
\* ends; its goroutine sees it when it looks.
StopRedial(by) ==
  /\ redialTo' = None
  /\ redialCancel' = 0
  /\ live' = live \ {redialCancel}
  /\ ended' = IF redialCancel \in {0, by} THEN ended ELSE [ended EXCEPT ![redialCancel] = redial[redialCancel]]

\* A timer stopped does not fire; one that fired already waits for s.mu.
StoppedTimer == IF grace # 0 /\ timer[grace] = "set" THEN [timer EXCEPT ![grace] = "none"] ELSE timer

\* Mutant: the timer is stopped, the daemon still says it reconnects.
StopTimer ==
  /\ grace' = 0
  /\ timer' = StoppedTimer
  /\ UNCHANGED reconnecting

StopGrace ==
  /\ grace' = 0
  /\ timer' = StoppedTimer
  /\ reconnecting' = FALSE

\* What handleDisconnect and the peer's "disconnect" both do to the session.
LeaveSession ==
  /\ StopGrace /\ StopRedial(0)
  /\ active' = 0

\* handleDisconnect.
Disconnect ==
  /\ May("disconnect")
  /\ LeaveSession
  /\ sess' = Closed(sess, active)
  /\ UNCHANGED <<trustPeer, redial, reach, stopped>>

\* Stop: nothing is dialed or accepted any more; what was asked for goes on.
Stop ==
  /\ May("stop")
  /\ LeaveSession
  /\ sess' = Closed(sess, active)
  /\ stopped' = TRUE
  /\ UNCHANGED <<trustPeer, redial, reach>>

-----------------------------------------------------------------------------
(* Opening.                                                                 *)

\* pairWith, pairWithPIN, pairByBLE, up to the request: nothing is asked of the session there is.
Pair(p) ==
  /\ May("pair") /\ Room /\ p \in reach
  /\ sess' = Append(sess, Asked(p, TRUE, 0))
  /\ UNCHANGED <<active, loss, trustPeer, again, redial, reach, stopped>>

\* acceptPairing, up to startSession.
Accept(p) ==
  /\ May("dial") /\ Room /\ p \in reach
  /\ sess' = Append(sess, Asked(p, FALSE, 0))
  /\ UNCHANGED <<active, loss, trustPeer, again, redial, reach, stopped>>

\* finishOutgoing: pair_accept never comes, or pair_reject does.
Fails(i) ==
  /\ sess[i].st = "asked" /\ (sess[i].link # "up" \/ (sess[i].dialed /\ May("reject")))
  /\ sess[i].link # "up" => acts' = acts
  /\ sess' = [sess EXCEPT ![i].st = "refused"]
  /\ UNCHANGED <<active, loss, trustPeer, again, redial, reach, stopped>>

\* startSession, under s.mu: the grace period and the redial are over, the session before
\* is closed; then a goroutine reads this one.
Start(i) ==
  /\ sess[i].st = "asked" /\ (sess[i].dialed => sess[i].link = "up")
  /\ StopGrace /\ StopRedial(sess[i].by)
  /\ active' = i
  /\ sess' = [Closed(sess, active) EXCEPT ![i].st = "on", ![i].reader = "reads", ![i].note = sess[i].dialed]
  /\ trustPeer' = sess[i].peer
  /\ UNCHANGED <<redial, reach, stopped, acts>>

\* dialedFor, once startSession returned: where to dial, if the session is still the active one.
DialedFor(i) ==
  /\ sess[i].note
  /\ redialTo' = IF active = i THEN sess[i].peer ELSE redialTo
  /\ sess' = [sess EXCEPT ![i].note = FALSE]
  /\ UNCHANGED <<active, loss, trustPeer, redialCancel, redial, live, ended, reach, stopped, acts>>

-----------------------------------------------------------------------------
(* The goroutine that reads a session.                                      *)

\* listenToSession, the session lost: no answer for 15 s, the connection dead or closed.  Of the
\* active one, the grace period begins; this side dials again what it dialed to a trusted device.
Lost(i) ==
  /\ sess[i].reader = "reads" /\ (sess[i].link # "up" \/ sess[i].st = "closed")
  /\ sess[i].inbox = "none" \/ sess[i].st = "closed"
  /\ sess' = [sess EXCEPT ![i].st = "closed", ![i].reader = "done"]
  /\ IF active # i THEN UNCHANGED <<active, loss, again, redial>>
     ELSE /\ active' = 0
          /\ reconnecting' = TRUE
          /\ grace' = i
          /\ timer' = [StoppedTimer EXCEPT ![i] = "set"]
          /\ IF redialTo # None /\ trustPeer \in Trusted
             THEN /\ redialCancel' = i
                  /\ redial' = [redial EXCEPT ![i] = "waits"]
                  /\ live' = live \cup {i}
             ELSE UNCHANGED <<redialCancel, redial, live>>
          /\ UNCHANGED <<redialTo, ended>>
  /\ UNCHANGED <<trustPeer, reach, stopped, acts>>

\* A message read, not handled yet: its session may be replaced meanwhile.
Read(i) ==
  /\ sess[i].reader = "reads" /\ sess[i].inbox # "none" /\ sess[i].st # "closed"
  /\ sess' = [sess EXCEPT ![i].reader = sess[i].inbox, ![i].inbox = "none"]
  /\ UNCHANGED <<active, loss, trustPeer, again, redial, reach, stopped, acts>>

\* handleSessionMessage, "disconnect": of whatever session is active now.
Left(i) ==
  /\ sess[i].reader = "disconnect"
  /\ LeaveSession
  /\ sess' = [Closed(sess, active) EXCEPT ![i].reader = "reads"]
  /\ UNCHANGED <<trustPeer, redial, reach, stopped, acts>>

\* handleSessionMessage, "pair_reject".
Rejected(i) ==
  /\ sess[i].reader = "pair_reject"
  /\ StopRedial(0)
  /\ active' = 0
  /\ sess' = [Closed(sess, active) EXCEPT ![i].reader = "reads"]
  /\ UNCHANGED <<loss, trustPeer, redial, reach, stopped, acts>>

\* The grace timer's function, once its 15 s are over, whatever loss it finds.
GraceFires(i) ==
  /\ timer[i] = "set"
  /\ timer' = [timer EXCEPT ![i] = "fired"]
  /\ UNCHANGED <<active, sess, reconnecting, grace, trustPeer, again, redial, reach, stopped, acts>>

GraceEnds(i) ==
  /\ timer[i] = "fired"
  /\ timer' = [timer EXCEPT ![i] = "none"]
  /\ reconnecting' = FALSE
  /\ UNCHANGED <<active, sess, grace, trustPeer, again, redial, reach, stopped, acts>>

-----------------------------------------------------------------------------
(* Dialing again: the redial of the session i, its peer's key pinned.       *)

\* Mutant: only a session that is there stops a redial.
ChecksSession(i) ==
  /\ redial[i] = "waits" /\ (i \in live => sess[i].peer \in reach)
  /\ redial' = [redial EXCEPT ![i] = IF active # 0 THEN "over" ELSE "clear"]
  /\ UNCHANGED <<active, sess, loss, trustPeer, redialTo, redialCancel, live, ended, reach, stopped, acts>>

\* redialOnce: the connection is there; another session, or a context ended, stops it.
Check(i) ==
  /\ redial[i] = "waits" /\ (i \in live => sess[i].peer \in reach)
  /\ redial' = [redial EXCEPT ![i] = IF active # 0 \/ i \notin live THEN "over" ELSE "clear"]
  /\ UNCHANGED <<active, sess, loss, trustPeer, redialTo, redialCancel, live, ended, reach, stopped, acts>>

\* Its pair_request.
AskAgain(i) ==
  /\ redial[i] = "clear" /\ Room
  /\ sess' = Append(sess, Asked(sess[i].peer, TRUE, i))
  /\ redial' = [redial EXCEPT ![i] = "asked"]
  /\ UNCHANGED <<active, loss, trustPeer, redialTo, redialCancel, live, ended, reach, stopped, acts>>

Attempt(i) == CHOOSE j \in Ids : sess[j].by = i /\ \A k \in Ids : sess[k].by = i => k <= j

\* Mutant: an attempt whose connection is lost ends the redial.
OverWhenLost(s) == IF s.st = "refused" /\ s.link = "up" THEN "refused" ELSE "over"
\* Its answer: a refusal ends the attempts, as a session does; a connection lost does not.
After(s) == IF s.st # "refused" THEN "over" ELSE IF s.link = "up" THEN "refused" ELSE "waits"

Answered(i) ==
  /\ redial[i] = "asked" /\ sess[Attempt(i)].st # "asked" /\ ~sess[Attempt(i)].note
  /\ redial' = [redial EXCEPT ![i] = After(sess[Attempt(i)])]
  /\ UNCHANGED <<active, sess, loss, trustPeer, redialTo, redialCancel, live, ended, reach, stopped, acts>>

\* redialFor is over: only a device out of reach takes that long.
GivesUp(i) ==
  /\ redial[i] = "waits" /\ sess[i].peer \notin reach
  /\ redial' = [redial EXCEPT ![i] = "gave up"]
  /\ UNCHANGED <<active, sess, loss, trustPeer, redialTo, redialCancel, live, ended, reach, stopped, acts>>

-----------------------------------------------------------------------------
(* The other devices, and the network.                                      *)

Sends(i, m) ==
  /\ sess[i].st = "on" /\ sess[i].link = "up" /\ sess[i].inbox = "none"
  /\ sess' = [sess EXCEPT ![i].inbox = m, ![i].link = "closed"]
  /\ UNCHANGED <<active, loss, trustPeer, again, redial, reach, stopped>>

PeerLeaves(i) == May("leave") /\ Sends(i, "disconnect")
PeerRejects(i) == May("reject") /\ Sends(i, "pair_reject")

\* A device goes: its sessions are dead, their last messages lost or not.
Goes(p) ==
  /\ May("cut") /\ p \in reach
  /\ reach' = reach \ {p}
  /\ sess' = [i \in Ids |-> IF sess[i].peer = p /\ sess[i].st \in {"asked", "on"}
                            THEN [sess[i] EXCEPT !.link = "dead", !.inbox = "none"] ELSE sess[i]]
  /\ UNCHANGED <<active, loss, trustPeer, again, redial, stopped>>

ComesBack(p) ==
  /\ p \notin reach
  /\ reach' = reach \cup {p}
  /\ UNCHANGED <<active, sess, loss, trustPeer, again, redial, stopped, acts>>

-----------------------------------------------------------------------------
Init ==
  /\ active = 0
  /\ sess = <<>>
  /\ reconnecting = FALSE /\ grace = 0
  /\ timer = [i \in 1 .. MaxSessions |-> "none"]
  /\ trustPeer = None /\ redialTo = None /\ redialCancel = 0
  /\ redial = [i \in 1 .. MaxSessions |-> "none"]
  /\ live = {}
  /\ reach = Peers
  /\ ended = [i \in 1 .. MaxSessions |-> "no"]
  /\ stopped = FALSE
  /\ acts = 0

Opens(i) == Fails(i) \/ Start(i) \/ DialedFor(i)
Reader(i) == Lost(i) \/ Read(i) \/ Left(i) \/ Rejected(i)
Redials(i) == Check(i) \/ AskAgain(i) \/ Answered(i)
Expires(i) == GraceFires(i) \/ GraceEnds(i)

Next ==
  \/ Disconnect \/ Stop
  \/ \E p \in Peers : Pair(p) \/ Accept(p) \/ Goes(p) \/ ComesBack(p)
  \/ \E i \in Ids : Opens(i) \/ Reader(i) \/ Redials(i) \/ Expires(i) \/ GivesUp(i) \/ PeerLeaves(i) \/ PeerRejects(i)

Spec == Init /\ [][Next]_vars

\* Of the goroutines of a session one runs when one can: connections answer or fail, 10
\* minutes pass.  The other devices and the user do what they want.
FairSpec ==
  Spec /\ \A i \in 1 .. MaxSessions : WF_vars(i \in Ids /\ (Opens(i) \/ Reader(i) \/ Redials(i) \/ GivesUp(i)))

-----------------------------------------------------------------------------
(* While the daemon says it reconnects no session is active, and a timer   *)
(* is to end that.                                                         *)
GraceIsTimed == reconnecting => active = 0 /\ \E i \in Ids : timer[i] # "none"

(* A disconnect, of the user or the peer, and another session end the      *)
(* redial: it opens a session only when its check was already behind it.   *)
RedialYields == \A i \in Ids : sess[i].st = "on" /\ sess[i].by # 0 => ended[sess[i].by] # "waits"

(* The side that dialed a lost session has it back, from a trusted device  *)
(* in reach that does not refuse it, unless the user or another session    *)
(* ended that.                                                             *)
LostComesBack ==
  \A i \in 1 .. MaxSessions :
    (i \in live) ~> (active # 0 \/ i \notin live \/ redial[i] \in {"refused", "gave up"})
=============================================================================
