-------------------------------- MODULE Node --------------------------------
(***************************************************************************)
(* `xfer node`: one program per device, from whose terminal a user pairs,  *)
(* offers, answers and stops (cmd/xfer/main.go, handleNode).               *)
(*                                                                         *)
(* Its goroutines: the main loop, which alone writes the session's state;  *)
(* the one that accepts control connections and answers their requests to  *)
(* pair; a reader per session; and one per transfer.  While its user pairs *)
(* with another device, the main loop waits for that device's answer and   *)
(* takes nothing else.                                                     *)
(*                                                                         *)
(* A pairing is by a right PIN, a QR code or mutual trust, or refused: its *)
(* exchanges are OneShot's and Pins', the talk of mutual trust Trust's.    *)
(* The data connections of a transfer are Sender's and ReceiverRun's: here *)
(* a receiver has everything only from a sender that serves.               *)
(***************************************************************************)
EXTENDS Naturals, Sequences, FiniteSets

CONSTANTS
  Nodes,      \* the devices
  Paged,      \* the offers of more than one page
  Faults,     \* what goes wrong: "lost", "bad", "space", "full", "failed"
  MaxFaults,  \* bound
  MaxChans,   \* bound: the control connections
  MaxOffers,  \* bound
  MaxLines    \* bound: the lines typed that are commands

ASSUME NodesAssumption == IsFiniteSet(Nodes)

VARIABLES
  up,       \* the program runs
  chans,    \* the control connections: who dialed whom, who has not closed it, what goes to each
  active,   \* activeSession and current: a connection, or 0
  dialing,  \* the connection on which the main loop waits for an answer, or 0
  arriving, \* the pairing the listener hands to the main loop (incomingChan), or 0
  coming,   \* incomingOffer: its pages are still arriving; or 0
  asked,    \* pendingOffer, and the session it came from
  trust,    \* askingTrust, and that session
  last,     \* lastOffered, or 0
  offers,   \* the offers made: by whom, to whom
  joinable, \* those whose Listener is registered
  jobs,     \* the transfers that run
  stopped,  \* those whose context has ended
  cancel,   \* transferCancel: a transfer, or None
  full,     \* the receivers paused on a full disk
  resume,   \* diskResume: a transfer, or None
  count,    \* lines and faults so far
  yes       \* ghost: the offers a user accepted

vars == <<up, chans, active, dialing, arriving, coming, asked, trust, last, offers, joinable, jobs, stopped,
          cancel, full, resume, count, yes>>

None == [job |-> "none"]
NoQuestion == [offer |-> 0, chan |-> 0]

pairing == <<active, dialing, arriving>>
asking == <<coming, asked, trust>>
offering == <<last, offers, joinable>>
serving == <<jobs, stopped, cancel>>
disk == <<full, resume>>
ghosts == <<count, yes>>

Fault(f) == f \in Faults /\ count.faults < MaxFaults /\ count' = [count EXCEPT !.faults = @ + 1] /\ UNCHANGED yes
Types == count.lines < MaxLines /\ count' = [count EXCEPT !.lines = @ + 1] /\ UNCHANGED yes

-----------------------------------------------------------------------------
(* Control connections.  What is sent on one that either side has closed is *)
(* lost; what was sent before the close arrives.                            *)

Other(n, c) == IF chans[c].from = n THEN chans[c].to ELSE chans[c].from
Sent(cs, n, c, ms) ==
  IF n \notin cs[c].open \/ Other(n, c) \notin cs[c].open THEN cs
  ELSE [cs EXCEPT ![c].wire[Other(n, c)] = @ \o ms]
Closed(cs, n, c) == [cs EXCEPT ![c].open = @ \ {n}]
Msg(type, o) == [type |-> type, offer |-> o]
Heard(n, c, type) == chans[c].wire[n] # <<>> /\ Head(chans[c].wire[n]).type = type
Taken(n, c) == [chans EXCEPT ![c].wire[n] = Tail(@)]

\* Nothing more will come: this side closed the connection, or the other one did.
Ended(n, c) == n \notin chans[c].open \/ (chans[c].wire[n] = <<>> /\ Other(n, c) \notin chans[c].open)

-----------------------------------------------------------------------------
(* The session.                                                             *)

\* The main loop is where it takes the next event.
Loops(n) == up[n] /\ dialing[n] = 0

\* A line typed is a command when no question is on the screen, and no transfer waits for some space.
Command(n) == Loops(n) /\ trust[n] = 0 /\ asked[n] = NoQuestion /\ resume[n] = None /\ Types

\* transferCancel(), then nil.
CancelTransfer(n) == stopped' = stopped \cup ({cancel[n]} \cap jobs) /\ cancel' = [cancel EXCEPT ![n] = None]

\* What forgets the session: after a "disconnect", the user's or the peer's, or the end of its connection.
ForgetsTrust(n) == trust' = [trust EXCEPT ![n] = 0]
ForgetsAsked(n) == asked' = [asked EXCEPT ![n] = NoQuestion]
Withdraws(n) == joinable' = joinable \ {last[n]} /\ last' = [last EXCEPT ![n] = 0] /\ UNCHANGED offers
EndsSession(n) ==
  /\ active' = [active EXCEPT ![n] = 0]
  /\ coming' = [coming EXCEPT ![n] = 0]
  /\ Withdraws(n) /\ ForgetsAsked(n) /\ ForgetsTrust(n)

\* startSession: the one before, if any, stays open.
Starts(n, c) == active' = [active EXCEPT ![n] = c]

-----------------------------------------------------------------------------
(* Pairing.                                                                 *)

\* `pair`: the other device's control connection, then a request on it.
Pair(n, m) ==
  /\ Command(n) /\ up[m] /\ m # n /\ Len(chans) < MaxChans
  /\ chans' = Append(chans, [from |-> n, to |-> m, open |-> {n, m},
                             wire |-> [k \in Nodes |-> IF k = m THEN <<Msg("pair_request", 0)>> ELSE <<>>]])
  /\ dialing' = [dialing EXCEPT ![n] = Len(chans) + 1]
  /\ UNCHANGED <<up, active, arriving, asking, offering, serving, disk, yes>>

\* The listener takes the next control connection, unless it still hands over the last one.
Listens(n, c) == up[n] /\ arriving[n] = 0 /\ chans[c].to = n /\ n \in chans[c].open /\ Heard(n, c, "pair_request")
Rejected(n, c) == Closed(Sent(Taken(n, c), n, c, <<Msg("pair_reject", 0)>>), n, c)
Refuses(n, c) ==
  /\ Listens(n, c)
  /\ chans' = Rejected(n, c)
  /\ UNCHANGED <<up, pairing, asking, offering, serving, disk, ghosts>>
Admits(n, c) ==
  /\ Listens(n, c) /\ active[n] = 0
  /\ chans' = Sent(Taken(n, c), n, c, <<Msg("pair_accept", 0)>>)
  /\ arriving' = [arriving EXCEPT ![n] = c]
  /\ UNCHANGED <<up, active, dialing, asking, offering, serving, disk, ghosts>>

\* The main loop takes the pairing; not if another device paired first, meanwhile.
TakesPairing(n) ==
  /\ Loops(n) /\ arriving[n] # 0
  /\ arriving' = [arriving EXCEPT ![n] = 0]
  /\ IF active[n] # 0
     THEN chans' = Closed(Sent(chans, n, arriving[n], <<Msg("disconnect", 0)>>), n, arriving[n]) /\ UNCHANGED active
     ELSE Starts(n, arriving[n]) /\ UNCHANGED chans
  /\ UNCHANGED <<up, dialing, asking, offering, serving, disk, ghosts>>

\* The answer to the one who dialed; or none that admits it: refused, lost, or too late.
Accepted(n) ==
  /\ up[n] /\ dialing[n] # 0 /\ Heard(n, dialing[n], "pair_accept")
  /\ chans' = Taken(n, dialing[n]) /\ Starts(n, dialing[n])
  /\ dialing' = [dialing EXCEPT ![n] = 0]
  /\ UNCHANGED <<up, arriving, asking, offering, serving, disk, ghosts>>
NotPaired(n) ==
  /\ up[n] /\ dialing[n] # 0
  /\ dialing' = [dialing EXCEPT ![n] = 0]
  /\ chans' = Closed(chans, n, dialing[n])
  /\ UNCHANGED <<up, active, arriving, asking, offering, serving, disk, ghosts>>

-----------------------------------------------------------------------------
(* What the user types.  A line goes first to a transfer that waits for     *)
(* some space, then to the question on the screen.                          *)

\* Does this line resume a transfer? Its resume is taken in any case.
Resumes(n) == resume[n] # None /\ trust[n] = 0 /\ asked[n] = NoQuestion
TakesResume(n) == resume' = [resume EXCEPT ![n] = None]

Enter(n) ==
  /\ Loops(n) /\ Resumes(n) /\ TakesResume(n)
  /\ full' = full \ {resume[n]}
  /\ UNCHANGED <<up, chans, pairing, asking, offering, serving, ghosts>>

\* The answer to the other device's offer of mutual trust, whichever it is; it
\* is not sent when that offer has expired.
AnswersTrust(n) ==
  /\ Loops(n) /\ trust[n] # 0
  /\ ForgetsTrust(n) /\ TakesResume(n)
  /\ \/ chans' = Sent(chans, n, active[n], <<Msg("trust_answer", 0)>>)
     \/ UNCHANGED chans
  /\ UNCHANGED <<up, pairing, coming, asked, offering, serving, full, ghosts>>

\* The answer to an offer.
Answers(n) == Loops(n) /\ trust[n] = 0 /\ asked[n] # NoQuestion /\ ForgetsAsked(n) /\ TakesResume(n)
Declines(n) ==
  /\ Answers(n)
  /\ chans' = Sent(chans, n, active[n], <<Msg("reject", asked[n].offer)>>)
  /\ UNCHANGED <<up, pairing, coming, trust, offering, serving, full, ghosts>>
NoSpace(n) ==
  /\ Answers(n) /\ Fault("space") /\ CancelTransfer(n)
  /\ chans' = Sent(chans, n, active[n], <<Msg("reject", asked[n].offer)>>)
  /\ UNCHANGED <<up, pairing, coming, trust, offering, jobs, full>>
Receives(n, o, c) == [job |-> "receive", at |-> n, offer |-> o, chan |-> c]
Serves(n, o, c) == [job |-> "serve", at |-> n, offer |-> o, chan |-> c]
Accepts(n) ==
  /\ Answers(n)
  /\ chans' = Sent(chans, n, active[n], <<Msg("accept", asked[n].offer)>>)
  /\ LET j == Receives(n, asked[n].offer, active[n])
     IN jobs' = jobs \cup {j} /\ cancel' = [cancel EXCEPT ![n] = j]
  /\ stopped' = stopped \cup ({cancel[n]} \cap jobs)
  /\ yes' = yes \cup {asked[n].offer}
  /\ UNCHANGED <<up, pairing, coming, trust, offering, full, count>>

Disconnect(n) ==
  /\ Command(n) /\ active[n] # 0
  /\ chans' = Closed(Sent(chans, n, active[n], <<Msg("disconnect", 0)>>), n, active[n])
  /\ EndsSession(n)
  /\ UNCHANGED <<up, dialing, arriving, serving, disk, yes>>
Stop(n) ==
  /\ Command(n) /\ cancel[n] # None /\ CancelTransfer(n)
  /\ chans' = IF active[n] = 0 THEN chans ELSE Sent(chans, n, active[n], <<Msg("cancel", 0)>>)
  /\ UNCHANGED <<up, pairing, asking, offering, jobs, disk, yes>>
Trusts(n) ==
  /\ Command(n) /\ active[n] # 0
  /\ chans' = Sent(chans, n, active[n], <<Msg("trust_offer", 0)>>)
  /\ UNCHANGED <<up, pairing, asking, offering, serving, disk, yes>>

Pages(o) == IF o \in Paged THEN <<Msg("offer", o), Msg("offer_items", o)>> ELSE <<Msg("offer", o)>>

\* Mutant: the Listener of the offer before stays.
RegistersBoth(n, o) ==
  /\ joinable' = joinable \cup {o}
  /\ last' = [last EXCEPT ![n] = o]
  /\ offers' = Append(offers, [by |-> n, to |-> Other(n, active[n])])
\* The Listener of a new offer is registered first, and the one before withdrawn.
Registers(n, o) ==
  /\ joinable' = (joinable \cup {o}) \ {last[n]}
  /\ last' = [last EXCEPT ![n] = o]
  /\ offers' = Append(offers, [by |-> n, to |-> Other(n, active[n])])
Send(n) ==
  /\ Command(n) /\ active[n] # 0 /\ Len(offers) < MaxOffers
  /\ CancelTransfer(n) /\ Registers(n, Len(offers) + 1)
  /\ chans' = Sent(chans, n, active[n], Pages(Len(offers) + 1))
  /\ UNCHANGED <<up, pairing, asking, jobs, disk, yes>>

\* `exit`, or Ctrl+C: the program is gone, with what it did; without a word if a pairing keeps the main loop busy.
Goodbyes(n) == IF cancel[n] # None THEN <<Msg("cancel", 0), Msg("disconnect", 0)>> ELSE <<Msg("disconnect", 0)>>
Exit(n) ==
  /\ up[n] /\ Types
  /\ up' = [up EXCEPT ![n] = FALSE]
  /\ \E said \in (IF active[n] = 0 THEN {} ELSE {Sent(chans, n, active[n], Goodbyes(n))})
               \cup (IF active[n] # 0 /\ dialing[n] = 0 THEN {} ELSE {chans}) :
       chans' = [c \in DOMAIN said |-> [said[c] EXCEPT !.open = @ \ {n}]]
  /\ active' = [active EXCEPT ![n] = 0] /\ coming' = [coming EXCEPT ![n] = 0] /\ ForgetsAsked(n) /\ ForgetsTrust(n)
  /\ joinable' = {o \in joinable : offers[o].by # n} /\ last' = [last EXCEPT ![n] = 0] /\ UNCHANGED offers
  /\ dialing' = [dialing EXCEPT ![n] = 0] /\ arriving' = [arriving EXCEPT ![n] = 0]
  /\ jobs' = {j \in jobs : j.at # n} /\ stopped' = stopped \cap jobs'
  /\ cancel' = [cancel EXCEPT ![n] = None]
  /\ full' = full \cap jobs' /\ TakesResume(n)
  /\ UNCHANGED yes

-----------------------------------------------------------------------------
(* What the session's reader brings.  What comes from another session than  *)
(* the active one is dropped.                                               *)

\* The main loop takes the next message of the active session.
Takes(n, type) == Loops(n) /\ active[n] # 0 /\ Heard(n, active[n], type)
Asker(n) == Head(chans[active[n]].wire[n]).offer
Read(n) == chans' = Taken(n, active[n])

\* A session that was replaced, or was ended here, still has its reader.
Drops(n, c) ==
  /\ Loops(n) /\ c # active[n] /\ c # arriving[n] /\ n \in chans[c].open /\ chans[c].wire[n] # <<>>
  /\ ~ Heard(n, c, "pair_request")
  /\ chans' = Taken(n, c)
  /\ UNCHANGED <<up, pairing, asking, offering, serving, disk, ghosts>>

PeerDisconnects(n) ==
  /\ Takes(n, "disconnect")
  /\ chans' = Closed(Taken(n, active[n]), n, active[n])
  /\ EndsSession(n) /\ CancelTransfer(n)
  /\ UNCHANGED <<up, dialing, arriving, jobs, disk, ghosts>>

\* Mutant: the read of a session that ended is not looked at.
NeverLost(n) == FALSE
IsLost(n) == Ended(n, active[n])
ConnectionLost(n) ==
  /\ Loops(n) /\ active[n] # 0 /\ IsLost(n)
  /\ chans' = Closed(chans, n, active[n])
  /\ EndsSession(n) /\ CancelTransfer(n)
  /\ UNCHANGED <<up, dialing, arriving, jobs, disk, ghosts>>

\* An offer: whole, or its first page; it ends a transfer, and replaces the one before.
Whole(n, o) == asked' = [asked EXCEPT ![n] = [offer |-> o, chan |-> active[n]]]
Offered(n) ==
  /\ Takes(n, "offer") /\ Read(n) /\ CancelTransfer(n)
  /\ IF Asker(n) \in Paged
     THEN coming' = [coming EXCEPT ![n] = Asker(n)] /\ ForgetsAsked(n)
     ELSE coming' = [coming EXCEPT ![n] = 0] /\ Whole(n, Asker(n))
  /\ UNCHANGED <<up, pairing, trust, offering, jobs, disk, ghosts>>
Page(n) ==
  /\ Takes(n, "offer_items") /\ Read(n)
  /\ IF Asker(n) = coming[n] THEN coming' = [coming EXCEPT ![n] = 0] /\ Whole(n, Asker(n)) ELSE UNCHANGED <<coming, asked>>
  /\ UNCHANGED <<up, pairing, trust, offering, serving, disk, ghosts>>
BadOffer(n) ==
  /\ Takes(n, "offer") /\ Fault("bad") /\ CancelTransfer(n)
  /\ chans' = Sent(Taken(n, active[n]), n, active[n], <<Msg("reject", Asker(n))>>)
  /\ coming' = [coming EXCEPT ![n] = 0] /\ ForgetsAsked(n)
  /\ UNCHANGED <<up, pairing, trust, offering, jobs, disk>>

\* The peer's answer: a "reject" withdraws what was offered last.
PeerRejects(n) ==
  /\ Takes(n, "reject") /\ Read(n) /\ Withdraws(n)
  /\ UNCHANGED <<up, pairing, asking, serving, disk, ghosts>>

\* Mutant: any accept serves the last offer.
AnyOffered(n, o) == last[n] # 0
IsLastOffered(n, o) == last[n] = o
PeerAccepts(n) ==
  /\ Takes(n, "accept") /\ Read(n)
  /\ last' = [last EXCEPT ![n] = 0] /\ UNCHANGED offers
  /\ IF IsLastOffered(n, Asker(n))
     THEN LET j == Serves(n, last[n], active[n])
          IN jobs' = jobs \cup {j} /\ cancel' = [cancel EXCEPT ![n] = j] /\ UNCHANGED <<joinable, stopped>>
     ELSE joinable' = joinable \ {last[n]} /\ UNCHANGED serving
  /\ UNCHANGED <<up, pairing, asking, disk, ghosts>>

\* "cancel", "complete": whatever transfer runs.
PeerEnds(n) ==
  /\ Takes(n, "cancel") \/ Takes(n, "complete")
  /\ Read(n) /\ CancelTransfer(n)
  /\ UNCHANGED <<up, pairing, asking, offering, jobs, disk, ghosts>>

\* The talk of trust: the other device's offer is asked, its answer is only told.
TrustAsked(n) ==
  /\ Takes(n, "trust_offer") /\ Read(n)
  /\ trust' = [trust EXCEPT ![n] = active[n]]
  /\ UNCHANGED <<up, pairing, coming, asked, offering, serving, disk, ghosts>>
TrustAnswered(n) ==
  /\ Takes(n, "trust_answer") /\ Read(n)
  /\ UNCHANGED <<up, pairing, asking, offering, serving, disk, ghosts>>

-----------------------------------------------------------------------------
(* The transfers, each in its goroutine.                                    *)

Runs(j) == j \in jobs /\ j \notin stopped
Source(j) == {s \in jobs : s.job = "serve" /\ s.offer = j.offer /\ Runs(s)}

Over(j) == jobs' = jobs \ {j} /\ stopped' = stopped \ {j} /\ full' = full \ {j} /\ UNCHANGED <<cancel, resume>>

\* receiveOffer: everything came, and the peer is told; or it failed, or was stopped.
ReceivesAll(j) ==
  /\ j.job = "receive" /\ Runs(j) /\ j \notin full /\ Source(j) # {}
  /\ Over(j)
  /\ chans' = Sent(chans, j.at, j.chan, <<Msg("complete", j.offer)>>)
  /\ UNCHANGED <<up, pairing, asking, offering, ghosts>>
Fails(j) == j \in stopped \/ (j \notin full /\ (j.offer \notin joinable \/ offers[j.offer].by # Other(j.at, j.chan)))
ReceiveEnds(j) ==
  /\ j.job = "receive" /\ j \in jobs /\ Fails(j)
  /\ Over(j)
  /\ UNCHANGED <<up, chans, pairing, asking, offering, ghosts>>
ReceiveFails(j) ==
  /\ j.job = "receive" /\ j \in jobs /\ Fault("failed")
  /\ Over(j)
  /\ UNCHANGED <<up, chans, pairing, asking, offering>>

\* OnDiskFull.
DiskFull(j) ==
  /\ j.job = "receive" /\ Runs(j) /\ j \notin full /\ Source(j) # {} /\ Fault("full")
  /\ full' = full \cup {j} /\ resume' = [resume EXCEPT ![j.at] = j]
  /\ UNCHANGED <<up, chans, pairing, asking, offering, serving>>

\* runNodeServe: stopped, or its receiver is done or gone; it withdraws its offer.
Unjoinable(j) == joinable' = joinable \ {j.offer}
ServeEnds(j) ==
  /\ j.job = "serve" /\ j \in jobs
  /\ j \in stopped \/ ~ \E r \in jobs : r.job = "receive" /\ r.offer = j.offer
  /\ Over(j) /\ Unjoinable(j)
  /\ UNCHANGED <<up, chans, pairing, asking, last, offers, ghosts>>

\* The network drops a connection: what was sent may arrive, up to somewhere.
Lost(c) ==
  /\ chans[c].open # {} /\ Fault("lost")
  /\ \E n \in Nodes : \E k \in 0 .. Len(chans[c].wire[n]) :
       chans' = [chans EXCEPT ![c].open = {}, ![c].wire[n] = SubSeq(@, 1, k)]
  /\ UNCHANGED <<up, pairing, asking, offering, serving, disk>>

-----------------------------------------------------------------------------
Init ==
  /\ up = [n \in Nodes |-> TRUE] /\ chans = <<>>
  /\ active = [n \in Nodes |-> 0] /\ dialing = active /\ arriving = active
  /\ coming = active /\ asked = [n \in Nodes |-> NoQuestion] /\ trust = active
  /\ last = active /\ offers = <<>> /\ joinable = {}
  /\ jobs = {} /\ stopped = {} /\ cancel = [n \in Nodes |-> None]
  /\ full = {} /\ resume = cancel
  /\ count = [lines |-> 0, faults |-> 0] /\ yes = {}

\* What the programs do by themselves.
Hears(n) ==
  \/ TakesPairing(n) \/ Accepted(n) \/ NotPaired(n) \/ PeerDisconnects(n) \/ ConnectionLost(n)
  \/ Offered(n) \/ Page(n) \/ PeerRejects(n) \/ PeerAccepts(n) \/ PeerEnds(n) \/ TrustAsked(n) \/ TrustAnswered(n)
  \/ \E c \in DOMAIN chans : Refuses(n, c) \/ Admits(n, c) \/ Drops(n, c)
Transfers == \E j \in jobs : ReceivesAll(j) \/ ReceiveEnds(j) \/ ServeEnds(j)
Programs == (\E n \in Nodes : Hears(n)) \/ Transfers

\* What their users do, and what goes wrong.
Users ==
  \/ \E n \in Nodes : \/ \E m \in Nodes : Pair(n, m)
                      \/ Enter(n) \/ AnswersTrust(n) \/ Declines(n) \/ NoSpace(n) \/ Accepts(n)
                      \/ Disconnect(n) \/ Stop(n) \/ Trusts(n) \/ Send(n) \/ Exit(n)
Troubles ==
  \/ \E n \in Nodes : BadOffer(n)
  \/ \E j \in jobs : ReceiveFails(j) \/ DiskFull(j)
  \/ \E c \in DOMAIN chans : Lost(c)

Next == Programs \/ Users \/ Troubles
Spec == Init /\ [][Next]_vars
FairSpec == Spec /\ WF_vars(Programs)

-----------------------------------------------------------------------------
(* Its properties.                                                          *)

\* Every Listener registered in the hub has one who will close it: the offer the node made last, or the goroutine
\* that serves it. (lastOffered is given to the one, taken by the other, and closed in six places of the main loop.)
OffersAreHeld ==
  \A o \in joinable : \/ \E n \in Nodes : last[n] = o
                      \/ \E j \in jobs : j.job = "serve" /\ j.offer = o

\* What a node serves was accepted by a user, whatever "accept" arrives, and it is served once (main.go 1011-1031).
ServedWasAccepted ==
  /\ \A j \in jobs : j.job = "serve" => j.offer \in yes
  /\ \A i, j \in jobs : i.job = "serve" /\ j.job = "serve" /\ i.offer = j.offer => i = j

\* A node whose session the other one has ended, refused to keep, or left without a word, is not paired for long
\* (main.go 558-564, 965-980, 1092-1106): unless that one only replaced it, which closes nothing.
EndIsSeen == \A n \in Nodes : []<> ~ (active[n] # 0 /\ Other(n, active[n]) \notin chans[active[n]].open)
=============================================================================
