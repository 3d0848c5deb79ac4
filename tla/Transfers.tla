------------------------------ MODULE Transfers ------------------------------
(***************************************************************************)
(* Two daemons and the transfers between them: pkg/api's transfers.go, and *)
(* what server.go, handler.go, trust.go and redial.go do to them.          *)
(*                                                                         *)
(* A daemon offers, serves, receives and ends transfers in its handlers,   *)
(* under s.mu, while one goroutine per run serves or receives, and one per *)
(* session reads the peer's messages.  The data goes over connections of   *)
(* its own: DONE, sent on them, may overtake the session's messages.  A    *)
(* session may die without a word and come back as another one; what was   *)
(* in flight on it is lost.                                                *)
(*                                                                         *)
(* An offer is one message, whatever its pages; the items of a transfer,   *)
(* their states and the progress shown are left out; so are sessions with  *)
(* a third device, and the tracker of the measures.                        *)
(***************************************************************************)
EXTENDS Naturals, Sequences

CONSTANTS
  Devices,      \* the two daemons
  Ids,          \* transfer ids, one per offer
  None,         \* no transfer
  Senders,      \* the daemons whose user sends
  MaxSessions,  \* the most sessions of a plan
  Plans         \* bounds: what may happen in a behaviour, one of these records
                \*   ids: the transfers offered; sessions: how many sessions, the last never dies;
                \*   faults: "cut", "data", "source", "space", "slow", "stop", see the actions;
                \*   users: "cancel", "pause", "disconnect", "reject"; acts: how many of these

ASSUME DevicesAssumption == \E a, b \in Devices : a # b /\ Devices = {a, b}
ASSUME NamesAssumption == None \notin Ids \cup Devices
ASSUME SessionsAssumption == MaxSessions \in Nat \ {0}
ASSUME PlansAssumption == \A p \in Plans : p.ids \subseteq Ids /\ p.sessions \in 1 .. MaxSessions

VARIABLES
  dev,       \* per daemon: the fields of DaemonServer a transfer is in
  xfer,      \* per id: the sender's and the receiver's run
  wire,      \* per daemon and session: the messages it has not handled yet
  cut,       \* the sessions whose connection is dead or closed
  sessions,  \* how many sessions were opened
  dialing,   \* the daemon that waits for pair_accept on the last one
  told,      \* per daemon and id: transfer_complete and transfer_failed, as shown
  acts,      \* how many of plan.acts the users have done
  plan       \* what may happen in this behaviour

vars == <<dev, xfer, wire, cut, sessions, dialing, told, acts, plan>>

Peer(d) == CHOOSE e \in Devices : e # d
NoSession == 0

-----------------------------------------------------------------------------
(* The daemon.  sess: activeSession; last: the last session started here;  *)
(* cancel: the transfer transferCancel belongs to.                         *)

Idle == [up |-> TRUE, sess |-> 1, last |-> 1, active |-> None, cancel |-> None, rx |-> None,
         ended |-> None, sentCompleted |-> None, completed |-> None, paused |-> FALSE,
         offered |-> None, pending |-> None]

(* A transfer.  by: who offers it; out: where sendOverSession, then the     *)
(* goroutine of serveAccepted is; in: where handleRespondOffer, then the   *)
(* goroutine of receive is; outLive, inLive: their contexts; outSess,      *)
(* inSess: the session each captured; finished, idle: the sender's         *)
(* daemonEvents; rxPaused: the Receiver's pause; allEnded: every item      *)
(* ended; done: the DONE frame; canceled: what receive read of its context. *)

Unused == [by |-> None, out |-> "none", outLive |-> FALSE, outSess |-> NoSession, finished |-> FALSE,
           idle |-> FALSE, in |-> "none", inLive |-> FALSE, inSess |-> NoSession, rxPaused |-> FALSE,
           allEnded |-> FALSE, done |-> "none", canceled |-> FALSE]

Msg(type, i) == [type |-> type, id |-> i]

\* Channel.Send: a message on a dead connection is lost.
SentOn(w, d, n, type, i) ==
  IF n = NoSession \/ n \in cut THEN w ELSE [w EXCEPT ![Peer(d)][n] = Append(@, Msg(type, i))]
Sent(w, d, type, i) == SentOn(w, d, dev[d].sess, type, i)

Tell(d, i, what) == told' = [told EXCEPT ![d][i] = Append(@, what)]

\* transferCancel: the run it belongs to has its context ended.
CancelRun(x, d) ==
  LET i == dev[d].cancel IN
  IF i = None THEN x
  ELSE IF x[i].by = d THEN [x EXCEPT ![i].outLive = FALSE] ELSE [x EXCEPT ![i].inLive = FALSE]

\* outgoingOffer.close: nobody may join it any more.
CloseOffer(x, i) == IF i = None THEN x ELSE [x EXCEPT ![i].out = "closed"]

\* endTransfer: unless another one took its place.
EndTransfer(d, i) ==
  IF dev[d].active # i THEN UNCHANGED dev
  ELSE dev' = [dev EXCEPT ![d].cancel = None, ![d].rx = None, ![d].active = None, ![d].ended = i,
                          ![d].paused = FALSE]
EndedRun(x, d, i) == IF dev[d].active # i THEN x ELSE CancelRun(x, d)

\* dropTransfers, in daemon r.
Dropped(r) == [r EXCEPT !.cancel = None, !.rx = None, !.active = None, !.ended = None, !.paused = FALSE,
                        !.offered = None, !.pending = None]
DropRuns(x, d) == CloseOffer(CancelRun(x, d), dev[d].offered)

\* Channel.Close of d's session n: of what was not read yet, its listener may
\* have one message in hand.
Closing(w, d, n) ==
  IF n = NoSession THEN {w}
  ELSE {[w EXCEPT ![d][n] = SubSeq(@, 1, j)] : j \in 0 .. IF Len(w[d][n]) = 0 THEN 0 ELSE 1}

-----------------------------------------------------------------------------
(* Offering: sendOverSession.                                               *)

\* No transfer is active when the source begins to be described.
BeginSend(d, i) ==
  /\ d \in Senders /\ dev[d].up
  /\ dev[d].sess # NoSession /\ dev[d].cancel = None
  /\ xfer[i].by = None /\ i \in plan.ids
  /\ xfer' = [xfer EXCEPT ![i].by = d, ![i].out = "building", ![i].outSess = dev[d].sess]
  /\ UNCHANGED <<dev, wire, cut, sessions, dialing, told, acts, plan>>

\* Mutant: the offer it replaces stays open.
ReplacesQuietly(d) == xfer
\* sendOverSession closes the last offer.
Replaces(d) == CloseOffer(xfer, dev[d].offered)

\* Described and registered, it replaces the last offer.  Fault "slow": a
\* transfer was accepted while the source was described.  A dead session may
\* refuse the message: the offer is withdrawn.
Offer(d, i) ==
  /\ xfer[i].by = d /\ xfer[i].out = "building" /\ dev[d].up
  /\ "slow" \in plan.faults \/ dev[d].cancel = None
  /\ \/ /\ xfer' = [Replaces(d) EXCEPT ![i].out = "open"]
        /\ dev' = [dev EXCEPT ![d].offered = i, ![d].paused = FALSE]
        /\ wire' = SentOn(wire, d, xfer[i].outSess, "offer", i)
     \/ /\ xfer[i].outSess \in cut
        /\ xfer' = [Replaces(d) EXCEPT ![i].out = "closed"]
        /\ dev' = [dev EXCEPT ![d].offered = None, ![d].paused = FALSE]
        /\ UNCHANGED wire
  /\ UNCHANGED <<cut, sessions, dialing, told, acts, plan>>

-----------------------------------------------------------------------------
(* The messages of a session: handleSessionMessage.  Taken(d, k) is the    *)
(* wire once d has read the next message of session k.                     *)

Taken(d, k) == [wire EXCEPT ![d][k] = Tail(@)]

\* takeOffer and refuseOffer.
TakeOffer(d, k, i) ==
  /\ IF dev[d].cancel # None
       THEN wire' = Sent(Taken(d, k), d, "reject", i) /\ UNCHANGED dev
       ELSE wire' = Taken(d, k) /\ dev' = [dev EXCEPT ![d].pending = i, ![d].paused = FALSE]
  /\ UNCHANGED <<xfer, cut, told>>

\* serveAccepted: the offer the peer accepted, if it is still the last one.
ServeAccepted(d, k, i) ==
  /\ wire' = Taken(d, k)
  /\ IF dev[d].offered # i
       THEN /\ xfer' = CloseOffer(xfer, dev[d].offered)
            /\ dev' = [dev EXCEPT ![d].offered = None]
       ELSE /\ xfer' = [xfer EXCEPT ![i].out = "accepted", ![i].outLive = TRUE]
            /\ dev' = [dev EXCEPT ![d].offered = None, ![d].cancel = i, ![d].active = i]
  /\ UNCHANGED <<cut, told>>

\* reject.
TakeReject(d, k, i) ==
  /\ wire' = Taken(d, k)
  /\ IF dev[d].offered = i
       THEN xfer' = CloseOffer(xfer, i) /\ dev' = [dev EXCEPT ![d].offered = None]
       ELSE UNCHANGED <<xfer, dev>>
  /\ UNCHANGED <<cut, told>>

\* completeSent: the one in progress, or the one that just ended, once.
Completable(d, i) == i # dev[d].sentCompleted /\ i \in {dev[d].active, dev[d].ended}
CompleteSent(d, i, x) ==
  IF ~Completable(d, i) THEN xfer' = x /\ UNCHANGED <<dev, told>>
  ELSE /\ dev' = [dev EXCEPT ![d].ended = IF @ = i THEN None ELSE @, ![d].sentCompleted = i, ![d].cancel = None]
       /\ xfer' = CancelRun(x, d)
       /\ Tell(d, i, "complete")
TakeComplete(d, k, i) == CompleteSent(d, i, xfer) /\ wire' = Taken(d, k) /\ UNCHANGED cut

\* peerFailed: unless it is over already.
PeerFailed(d, k, i) ==
  /\ wire' = Taken(d, k)
  /\ IF i = None \/ dev[d].active # i THEN UNCHANGED <<dev, xfer, told>>
     ELSE /\ dev' = [dev EXCEPT ![d].cancel = None, ![d].rx = None, ![d].active = None, ![d].paused = FALSE]
          /\ xfer' = CancelRun(xfer, d)
          /\ Tell(d, i, "failed")
  /\ UNCHANGED cut

\* answerCheck: nothing for the transfer in progress.
AnswerCheck(d, k, i) ==
  /\ wire' = IF i = dev[d].active THEN Taken(d, k)
             ELSE Sent(Taken(d, k), d, IF i = dev[d].completed THEN "complete" ELSE "failed", i)
  /\ UNCHANGED <<dev, xfer, cut, told>>

\* cancelTransfer: the transfer in progress and the offer, whatever the message names.
CancelTransfer(d) ==
  /\ dev' = [dev EXCEPT ![d].paused = FALSE, ![d].cancel = None, ![d].rx = None, ![d].active = None,
                        ![d].offered = None]
  /\ xfer' = CloseOffer(CancelRun(xfer, d), dev[d].offered)
TakeCancel(d, k, i) == CancelTransfer(d) /\ wire' = Taken(d, k) /\ UNCHANGED <<cut, told>>

\* pauseAll.
PauseAll(d, p) ==
  /\ dev' = [dev EXCEPT ![d].paused = p]
  /\ xfer' = IF dev[d].rx = None THEN xfer ELSE [xfer EXCEPT ![dev[d].rx].rxPaused = p]
TakePause(d, k, p) == PauseAll(d, p) /\ wire' = Taken(d, k) /\ UNCHANGED <<cut, told>>

\* disconnect: the active session is closed, which may be another one.
TakeDisconnect(d, k, i) ==
  LET n == dev[d].sess IN
  /\ dev' = [dev EXCEPT ![d] = [Dropped(@) EXCEPT !.sess = NoSession]]
  /\ xfer' = DropRuns(xfer, d)
  /\ wire' \in Closing(Taken(d, k), d, n)
  /\ cut' = IF n = NoSession THEN cut ELSE cut \cup {n}
  /\ UNCHANGED told

Handle(d, k) ==
  /\ dev[d].up /\ k <= dev[d].last /\ wire[d][k] # <<>>
  /\ LET m == Head(wire[d][k]) IN
     \/ m.type = "offer" /\ TakeOffer(d, k, m.id)
     \/ m.type = "accept" /\ ServeAccepted(d, k, m.id)
     \/ m.type = "reject" /\ TakeReject(d, k, m.id)
     \/ m.type = "complete" /\ TakeComplete(d, k, m.id)
     \/ m.type = "failed" /\ PeerFailed(d, k, m.id)
     \/ m.type = "check" /\ AnswerCheck(d, k, m.id)
     \/ m.type = "cancel" /\ TakeCancel(d, k, m.id)
     \/ m.type \in {"pause", "resume"} /\ TakePause(d, k, m.type = "pause")
     \/ m.type = "disconnect" /\ TakeDisconnect(d, k, m.id)
  /\ UNCHANGED <<sessions, dialing, acts, plan>>

-----------------------------------------------------------------------------
(* The users.  Every request is served under s.mu, and its message sent     *)
(* after it.                                                                *)

Acts(kind) == kind \in plan.users /\ acts < plan.acts /\ acts' = acts + 1 /\ UNCHANGED plan

\* handleRespondOffer takes the pending offer, even when no session is there to
\* answer on; then it looks at the space.
Accept(d) ==
  LET i == dev[d].pending IN
  /\ dev[d].up /\ i # None
  /\ dev' = [dev EXCEPT ![d].pending = None]
  /\ xfer' = IF dev[d].sess = NoSession THEN xfer
             ELSE [xfer EXCEPT ![i].in = "deciding", ![i].inSess = dev[d].sess]
  /\ UNCHANGED <<wire, cut, sessions, dialing, told, acts, plan>>

Reject(d) ==
  LET i == dev[d].pending IN
  /\ dev[d].up /\ i # None /\ Acts("reject")
  /\ dev' = [dev EXCEPT ![d].pending = None]
  /\ wire' = Sent(wire, d, "reject", i)
  /\ UNCHANGED <<xfer, cut, sessions, dialing, told>>

\* Fault "space": too little room, the offer stays pending unless another came.
NoSpace(d, i) ==
  /\ "space" \in plan.faults /\ dev[d].up /\ xfer[i].by # d /\ xfer[i].in = "deciding"
  /\ Acts("reject")
  /\ dev' = [dev EXCEPT ![d].pending = IF @ = None THEN i ELSE @]
  /\ xfer' = [xfer EXCEPT ![i].in = "none"]
  /\ UNCHANGED <<wire, cut, sessions, dialing, told>>

\* Mutant: receive does not look whether a transfer is active.
MayReceiveAny(d) == dev[d].up
MayReceive(d) == dev[d].cancel = None
\* receive: its run starts, unless a transfer is active.
Receive(d, i) ==
  /\ dev[d].up /\ xfer[i].by # d /\ xfer[i].in = "deciding"
  /\ IF ~MayReceive(d)
       THEN /\ xfer' = [xfer EXCEPT ![i].in = "over"]
            /\ wire' = Sent(wire, d, "reject", i)
            /\ UNCHANGED dev
       ELSE /\ xfer' = [xfer EXCEPT ![i].in = "receiving", ![i].inLive = TRUE, ![i].rxPaused = dev[d].paused]
            /\ dev' = [dev EXCEPT ![d].cancel = i, ![d].rx = i, ![d].active = i]
            /\ wire' = SentOn(wire, d, xfer[i].inSess, "accept", i)
  /\ UNCHANGED <<cut, sessions, dialing, told, acts, plan>>

Cancel(d) ==
  /\ dev[d].up /\ Acts("cancel")
  /\ CancelTransfer(d)
  /\ wire' = Sent(wire, d, "cancel", dev[d].active)
  /\ UNCHANGED <<cut, sessions, dialing, told>>

Pause(d) ==
  /\ dev[d].up /\ Acts("pause")
  /\ PauseAll(d, ~dev[d].paused)
  /\ wire' = Sent(wire, d, IF dev[d].paused THEN "resume" ELSE "pause", dev[d].active)
  /\ UNCHANGED <<cut, sessions, dialing, told>>

\* handleDisconnect, and Stop, close the session behind a message.
Leaves(d, w) ==
  LET n == dev[d].sess IN
  /\ wire' \in Closing(Sent(w, d, "disconnect", None), d, n)
  /\ cut' = IF n = NoSession THEN cut ELSE cut \cup {n}

Disconnect(d) ==
  /\ dev[d].up /\ Acts("disconnect")
  /\ dev' = [dev EXCEPT ![d] = [Dropped(@) EXCEPT !.sess = NoSession]]
  /\ xfer' = DropRuns(xfer, d)
  /\ Leaves(d, wire)
  /\ UNCHANGED <<sessions, dialing, told>>

\* Fault "stop": Stop ends every context and keeps what is active.
Stop(d) ==
  /\ "stop" \in plan.faults /\ dev[d].up
  /\ dev' = [dev EXCEPT ![d].up = FALSE, ![d].sess = NoSession]
  /\ xfer' = [i \in Ids |-> [xfer[i] EXCEPT !.outLive = @ /\ xfer[i].by # d, !.inLive = @ /\ xfer[i].by = d]]
  /\ Leaves(d, wire)
  /\ UNCHANGED <<sessions, dialing, told, acts, plan>>

-----------------------------------------------------------------------------
(* The sender's run: the goroutine of serveAccepted.                        *)

\* transferFailed.
TransferFailed(d, i) == Tell(d, i, "failed") /\ wire' = Sent(wire, d, "failed", i)

\* Fault "source": the files cannot be read any more (NewSender).
SourceGone(i) ==
  /\ "source" \in plan.faults /\ xfer[i].out = "accepted"
  /\ TransferFailed(xfer[i].by, i)
  /\ xfer' = [xfer EXCEPT ![i].out = "told"]
  /\ UNCHANGED <<dev, cut, sessions, dialing, acts, plan>>

\* Serve begins to answer the data connections.
Serves(i) ==
  /\ xfer[i].out = "accepted"
  /\ xfer' = [xfer EXCEPT ![i].out = "serving"]
  /\ UNCHANGED <<dev, wire, cut, sessions, dialing, told, acts, plan>>

\* The receiver's DONE: OnProgress ends the run once.
DoneArrives(i) ==
  /\ xfer[i].done = "sent" /\ xfer[i].out = "serving" /\ xfer[i].outLive
  /\ xfer' = [xfer EXCEPT ![i].done = "taken", ![i].finished = TRUE, ![i].outLive = FALSE]
  /\ UNCHANGED <<dev, wire, cut, sessions, dialing, told, acts, plan>>

\* Mutant: the limit does not run once the receiver is over.
QuietIfPaused(i) == xfer[i].in = "receiving" /\ xfer[i].rxPaused
\* No data connection for senderIdleLimit, outside a pause.  It is longer than the
\* receiver's own limits and than anything in flight, DONE and messages alike.
Quiet(i) == xfer[i].in = "over" \/ (xfer[i].in = "receiving" /\ xfer[i].rxPaused)
Answered(i) == xfer[i].done # "sent" /\ \A n \in 1 .. MaxSessions : wire[xfer[i].by][n] = <<>>
GiveUp(i) ==
  LET d == xfer[i].by IN
  /\ xfer[i].out = "serving" /\ xfer[i].outLive /\ ~xfer[i].finished
  /\ ~dev[d].paused
  /\ Quiet(i) /\ Answered(i)
  /\ xfer' = [xfer EXCEPT ![i].finished = TRUE, ![i].idle = TRUE, ![i].outLive = FALSE]
  /\ UNCHANGED <<dev, wire, cut, sessions, dialing, told, acts, plan>>

\* Serve returns once its context ended; then done.
ServeReturns(i) ==
  /\ xfer[i].out = "serving" /\ ~xfer[i].outLive
  /\ xfer' = [xfer EXCEPT ![i].out = "returned", ![i].finished = TRUE]
  /\ UNCHANGED <<dev, wire, cut, sessions, dialing, told, acts, plan>>

\* receiverDone, then completeSent; or gaveUp, then transferFailed.
\* Mutant: a sender that gave up is completed too.
ReceiverDoneOrIdle(i) == xfer[i].finished
ReceiverDone(i) == xfer[i].finished /\ ~xfer[i].idle
ServedOutcome(i) ==
  LET d == xfer[i].by
      x == [xfer EXCEPT ![i].out = "told"] IN
  /\ xfer[i].out = "returned"
  /\ IF ReceiverDone(i) THEN CompleteSent(d, i, x) /\ UNCHANGED wire
     ELSE xfer' = x /\ TransferFailed(d, i) /\ UNCHANGED dev
  /\ UNCHANGED <<cut, sessions, dialing, acts, plan>>

\* The deferred endTransfer and close.
ServeEnds(i) ==
  LET d == xfer[i].by IN
  /\ xfer[i].out = "told"
  /\ EndTransfer(d, i)
  /\ xfer' = [EndedRun(xfer, d, i) EXCEPT ![i].out = "closed"]
  /\ UNCHANGED <<wire, cut, sessions, dialing, told, acts, plan>>

-----------------------------------------------------------------------------
(* The receiver's run: the goroutine of receive.                            *)

\* Every item has ended; DONE goes out, or its connection is dead (fault "data").
ItemsEnd(i) ==
  /\ xfer[i].in = "receiving" /\ xfer[i].inLive /\ ~xfer[i].rxPaused /\ ~xfer[i].allEnded
  /\ xfer[i].out = "serving" /\ xfer[i].outLive
  /\ \E done \in {"sent"} \cup IF "data" \in plan.faults THEN {"lost"} ELSE {} :
       xfer' = [xfer EXCEPT ![i].allEnded = TRUE, ![i].done = done]
  /\ UNCHANGED <<dev, wire, cut, sessions, dialing, told, acts, plan>>

\* Run returns: all ended, or its context did, or the sender does not answer.
RunReturns(i) ==
  /\ xfer[i].in = "receiving"
  /\ \/ xfer[i].allEnded \/ ~xfer[i].inLive
     \/ ~xfer[i].rxPaused /\ ("data" \in plan.faults \/ xfer[i].out # "serving" \/ ~xfer[i].outLive)
  /\ xfer' = [xfer EXCEPT ![i].in = "ran", ![i].canceled = ~xfer[i].inLive]
  /\ UNCHANGED <<dev, wire, cut, sessions, dialing, told, acts, plan>>

RunEnded(i) ==
  LET d == Peer(xfer[i].by) IN
  /\ xfer[i].in = "ran"
  /\ EndTransfer(d, i)
  /\ xfer' = [EndedRun(xfer, d, i) EXCEPT ![i].in = "ended"]
  /\ UNCHANGED <<wire, cut, sessions, dialing, told, acts, plan>>

RunFailed(i) ==
  /\ xfer[i].in = "ended" /\ ~xfer[i].allEnded
  /\ xfer' = [xfer EXCEPT ![i].in = "over"]
  /\ IF xfer[i].canceled THEN UNCHANGED <<wire, told>> ELSE TransferFailed(Peer(xfer[i].by), i)
  /\ UNCHANGED <<dev, cut, sessions, dialing, acts, plan>>

\* A check finds it from now on.
MarksCompleted(i) ==
  /\ xfer[i].in = "ended" /\ xfer[i].allEnded
  /\ dev' = [dev EXCEPT ![Peer(xfer[i].by)].completed = i]
  /\ xfer' = [xfer EXCEPT ![i].in = "marked"]
  /\ UNCHANGED <<wire, cut, sessions, dialing, told, acts, plan>>

\* "complete" goes out on the session the offer was answered on.
SaysComplete(i) ==
  LET d == Peer(xfer[i].by) IN
  /\ xfer[i].in = "marked"
  /\ wire' = SentOn(wire, d, xfer[i].inSess, "complete", i)
  /\ Tell(d, i, "complete")
  /\ xfer' = [xfer EXCEPT ![i].in = "over"]
  /\ UNCHANGED <<dev, cut, sessions, dialing, acts, plan>>

-----------------------------------------------------------------------------
(* Sessions.                                                                *)

Prefixes(s) == {SubSeq(s, 1, j) : j \in 0 .. Len(s)}
\* Fault "cut": the connection dies; a prefix of what is in flight arrives.
Cut(n) ==
  /\ "cut" \in plan.faults /\ n <= sessions /\ n \notin cut /\ n < plan.sessions
  /\ cut' = cut \cup {n}
  /\ \E p \in [Devices -> UNION {Prefixes(wire[d][n]) : d \in Devices}] :
       /\ \A d \in Devices : p[d] \in Prefixes(wire[d][n])
       /\ wire' = [d \in Devices |-> [wire[d] EXCEPT ![n] = p[d]]]
  /\ UNCHANGED <<dev, xfer, sessions, dialing, told, acts, plan>>

\* listenToSession: the read of a dead session fails.
SessionLost(d) ==
  LET n == dev[d].sess IN
  /\ n # NoSession /\ n \in cut /\ wire[d][n] = <<>>
  /\ dev' = [dev EXCEPT ![d].sess = NoSession]
  /\ UNCHANGED <<xfer, wire, cut, sessions, dialing, told, acts, plan>>

\* checkTransfer: the peer is asked whether it still has the transfer in progress here.
CheckTransfer(d, n) == IF dev[d].active = None THEN wire ELSE SentOn(wire, d, n, "check", dev[d].active)
\* startSession, with the same device: the old session is closed.
StartSession(d, n, closed) ==
  /\ dev' = [dev EXCEPT ![d].sess = n, ![d].last = n]
  /\ wire' \in Closing(CheckTransfer(d, n), d, dev[d].sess)
  /\ cut' = closed \cup (IF dev[d].sess = NoSession THEN {} ELSE {dev[d].sess})

\* redial, or a user: a new session, that the peer accepts first (acceptPairing).
Dial(d) ==
  /\ sessions < plan.sessions /\ dialing = None
  /\ dev[d].up /\ dev[Peer(d)].up
  /\ dev[d].sess = NoSession \/ dev[d].sess \in cut
  /\ sessions' = sessions + 1 /\ dialing' = d
  /\ StartSession(Peer(d), sessions + 1, cut)
  /\ UNCHANGED <<xfer, told, acts, plan>>

\* finishOutgoing: pair_accept has come, or the connection is dead.
Dialed(d) ==
  /\ dialing = d /\ dialing' = None
  /\ \/ dev[d].up /\ StartSession(d, sessions, cut)
     \/ /\ sessions \in cut \/ ~dev[d].up
        /\ cut' = cut \cup {sessions}
        /\ UNCHANGED <<dev, wire>>
  /\ UNCHANGED <<xfer, sessions, told, acts, plan>>

-----------------------------------------------------------------------------
Init ==
  /\ dev = [d \in Devices |-> Idle]
  /\ xfer = [i \in Ids |-> Unused]
  /\ wire = [d \in Devices |-> [n \in 1 .. MaxSessions |-> <<>>]]
  /\ cut = {} /\ sessions = 1 /\ dialing = None
  /\ told = [d \in Devices |-> [i \in Ids |-> <<>>]]
  /\ acts = 0 /\ plan \in Plans

UserStep(d) == \/ \E i \in Ids : BeginSend(d, i) \/ NoSpace(d, i)
               \/ Accept(d) \/ Reject(d) \/ Cancel(d) \/ Pause(d) \/ Disconnect(d) \/ Stop(d)
ServeStep(i) == \/ SourceGone(i) \/ Serves(i) \/ DoneArrives(i) \/ GiveUp(i)
                \/ ServeReturns(i) \/ ServedOutcome(i) \/ ServeEnds(i)
RunStep(i) == ItemsEnd(i) \/ RunReturns(i) \/ RunEnded(i) \/ RunFailed(i) \/ MarksCompleted(i) \/ SaysComplete(i)
DaemonStep(d) == \/ \E i \in Ids : Offer(d, i) \/ Receive(d, i)
                 \/ \E k \in 1 .. MaxSessions : Handle(d, k)
SessionStep == (\E n \in 1 .. MaxSessions : Cut(n)) \/ \E d \in Devices : SessionLost(d) \/ Dial(d) \/ Dialed(d)

Next == \/ \E d \in Devices : UserStep(d) \/ DaemonStep(d)
        \/ \E i \in Ids : ServeStep(i) \/ RunStep(i)
        \/ SessionStep

Spec == Init /\ [][Next]_vars

\* Handlers, goroutines and timers go on, and a lost session comes back (redial, or
\* a user); nobody has to send, accept, pause or resume.
Goes ==
  \/ \E d \in Devices : \/ DaemonStep(d) \/ SessionLost(d) \/ Dial(d) \/ Dialed(d)
                         \/ \E k \in 1 .. MaxSessions : Handle(d, k)
  \/ \E i \in Ids : ServeStep(i) \/ RunStep(i)
Fairness == WF_vars(Goes)
FairSpec == Spec /\ Fairness

-----------------------------------------------------------------------------
(* Properties.                                                              *)

Shown(i) == told[xfer[i].by][i]
Shows(i, what) == xfer[i].by # None /\ \E k \in 1 .. Len(Shown(i)) : Shown(i)[k] = what
\* The runs of d whose context has not ended.
LiveRuns(d) == {i \in Ids : \/ xfer[i].by = d /\ xfer[i].outLive
                            \/ xfer[i].by = Peer(d) /\ xfer[i].inLive /\ xfer[i].in = "receiving"}

\* The sender's app shows transfer_complete only for a transfer whose items all
\* ended at the receiver (serveAccepted, completeSent: "Receiver confirmed"); the Stop of its
\* own engine aside, whose Serve ends without an error.
CompleteIsTrue == \A i \in Ids : Shows(i, "complete") /\ dev[xfer[i].by].up => xfer[i].allEnded

\* CHAN-06: an offer the peer may join is the last one; whatever replaced, refused
\* or dropped it closed it, with its descriptors (sendOverSession, serveAccepted).
OpenOfferIsLast == \A i \in Ids : xfer[i].out = "open" => dev[xfer[i].by].offered = i

\* A run the user can no longer cancel does not exist: transferCancel and
\* activeTransferID are its own (receive, serveAccepted, endTransfer).
RunIsActive == \A d \in Devices : \A i \in LiveRuns(d) : dev[d].cancel = i /\ dev[d].active = i

\* A transfer over on one side does not go on for ever on the other, whatever
\* message was lost, unless it is paused there, as long as a lost session may come
\* back (checkTransfer, answerCheck, OnProgress's limit).
NoMoreSessions == sessions = plan.sessions /\ sessions \in cut
BothEnd ==
  \A i \in Ids :
    /\ xfer[i].out = "serving" /\ xfer[i].in = "over" ~>
         xfer[i].out = "closed" \/ (\E d \in Senders : dev[d].paused) \/ NoMoreSessions
    /\ xfer[i].out = "closed" /\ xfer[i].in = "receiving" ~>
         xfer[i].in = "over" \/ xfer[i].rxPaused \/ NoMoreSessions
=============================================================================
