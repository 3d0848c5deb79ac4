------------------------------- MODULE OneShot -------------------------------
(***************************************************************************)
(* `xfer send` until a receiver is paired: pairing.Serve, in rounds, on    *)
(* the control connections of the device's port (Hub), whose Gate counts   *)
(* those not authenticated; and the receivers, which join by the QR code's *)
(* secret, by a PIN, or as devices of mutual trust.                        *)
(*                                                                         *)
(* Each connection has a goroutine; one accepts them, one waits for the    *)
(* end of the round.  A round ends when its codes expire, when too many    *)
(* PINs were wrong, or when a device claims the pairing; another one       *)
(* follows only if its codes expired.                                      *)
(*                                                                         *)
(* The PIN is Pins' module: here it is there or not, and what is typed is  *)
(* right or wrong.  So is the talk of mutual trust Trust's: here it lasts, *)
(* and ends.  A deadline may pass whenever it bounds something; a minute   *)
(* ends when Forgets says so.                                              *)
(***************************************************************************)
EXTENDS Naturals, Sequences, FiniteSets

CONSTANTS
  Devices,     \* the receivers, each at an address of its own: numbers
  Trusted,     \* those of mutual trust
  Paths,       \* how each joins: "secret", "hello", "pin", "wanted"
  PerIP,       \* PerIPOneMinute
  KnownPerIP,  \* KnownPerIPOneMinute
  MaxUnauth,   \* MaxUnauth
  Room,        \* the control Listener's queue
  MaxConns,    \* bound
  MaxRounds,   \* bound
  MaxEvents    \* bound: the deadlines that pass, those who give up, and minutes that end

ASSUME DevicesAssumption == IsFiniteSet(Devices) /\ 0 \notin Devices
ASSUME PathsAssumption == Paths \in [Devices -> SUBSET {"secret", "hello", "pin", "wanted"}]

VARIABLES
  ctx,     \* "on" or "ended"
  serve,   \* Serve: its round, where it is; claimed by which connection; why its context ended
  codes,   \* the round's: expired; the invitation used; the PIN there; its pages stopped
  port,    \* the round's Listener: open, and its queue
  outcome, \* of the pairing that claimed
  send,    \* oneShotSend: once done, the device registered; and what serve returned
  conn,    \* the connections, in the order they were made
  recv,    \* per device: what its program does
  gate,    \* the Gate
  events,  \* how many of MaxEvents there were
  told,    \* ghost: the connections sent pair_accept
  cut      \* ghost: a talk of trust ended by its context

vars == <<ctx, serve, codes, port, outcome, send, conn, recv, gate, events, told, cut>>
ghosts == <<events, told, cut>>
Happens == events < MaxEvents /\ events' = events + 1 /\ UNCHANGED <<told, cut>>
serving == <<ctx, serve, codes, port, outcome, send>>

Live == 1 .. Len(conn)
At(c, st) == conn[c].st = st
To(c, st) == conn' = [conn EXCEPT ![c].st = st]
Dev(c) == conn[c].dev
Here(c) == conn[c].peer

\* serveOne's context: of its round, until it ends or Serve returns.
RoundOn(c) == ctx = "on" /\ conn[c].round = serve.round /\ serve.cause = "none" /\ serve.at \in {"accepts", "outcome"}

-----------------------------------------------------------------------------
(* The Gate.                                                                *)

Quota(d) == IF d \in gate.known THEN KnownPerIP ELSE PerIP

\* ... and the handshakes still running.
Shares(d) == gate.recent[d] + gate.running[d]

Admits(d) == Shares(d) < Quota(d) /\ gate.active < MaxUnauth

Admitted(d) == [gate EXCEPT !.active = @ + 1, !.running[d] = @ + 1]

\* Mutant: Release without its Once.
ReleasesAgain(g, c) ==
  [g EXCEPT !.active = IF @ > 0 THEN @ - 1 ELSE 0, !.running[Dev(c)] = IF conn[c].running THEN @ - 1 ELSE @]

\* Release: the place once, and the handshake if it runs.
Release(g, c) ==
  IF ~conn[c].place THEN g
  ELSE [g EXCEPT !.active = @ - 1, !.running[Dev(c)] = IF conn[c].running THEN @ - 1 ELSE @]

Charge(c) == [gate EXCEPT !.running[Dev(c)] = @ - 1, !.recent[Dev(c)] = @ + 1]

\* Closed: the connections cs, and their places given back.
Closed(r) == [r EXCEPT !.st = "gone", !.place = FALSE, !.running = FALSE, !.peer = FALSE, !.counted = FALSE, !.code = 0, !.path = "none"]
Close(c) == conn' = [conn EXCEPT ![c] = Closed(@)] /\ gate' = Release(gate, c)

\* A minute after a connection was charged; KnownFor after an authentication.
Forgets(d) ==
  /\ Happens
  /\ \/ gate.recent[d] > 0 /\ gate' = [gate EXCEPT !.recent[d] = @ - 1]
     \/ d \in gate.known /\ gate' = [gate EXCEPT !.known = @ \ {d}]
  /\ UNCHANGED <<serving, conn, recv>>

-----------------------------------------------------------------------------
(* A receiver.                                                              *)

NewConn(d, path, code) ==
  [st |-> "handshake", dev |-> d, path |-> path, code |-> code, round |-> 0,
   auth |-> FALSE, counted |-> FALSE, peer |-> TRUE, place |-> TRUE, running |-> TRUE]

\* What its user has: a QR code shown, or another one (0).
Scanned(path) == IF path = "secret" THEN 0 .. serve.round ELSE {0}

\* A device told that a PIN is needed asks for it.
MayDial(d, path) == recv[d] \in {"idle", "pin"} /\ path \in Paths[d] /\ (recv[d] = "pin" => path = "wanted")

\* Join, JoinPINOnDemand, JoinTrusted.
Dials(d, path, code) ==
  /\ MayDial(d, path) /\ Len(conn) < MaxConns
  /\ code \in Scanned(path)
  /\ IF Admits(d)
     THEN conn' = Append(conn, NewConn(d, path, code)) /\ gate' = Admitted(d) /\ recv' = [recv EXCEPT ![d] = "joins"]
     ELSE recv' = [recv EXCEPT ![d] = "idle"] /\ UNCHANGED <<conn, gate>>
  /\ UNCHANGED <<serving, ghosts>>

\* It gives up, by its deadline or its user; its network does, or the sender, by its deadline.
GivesUp(c) ==
  /\ Happens
  /\ Here(c) /\ ~At(c, "gone") /\ recv[Dev(c)] = "joins"
  /\ conn' = [conn EXCEPT ![c].peer = FALSE]
  /\ recv' = [recv EXCEPT ![Dev(c)] = "idle"]
  /\ UNCHANGED <<serving, gate>>

\* What the sender answers last; nothing, if it closes the connection.
Hears(c, what) == recv' = IF Here(c) /\ recv[Dev(c)] = "joins" THEN [recv EXCEPT ![Dev(c)] = what] ELSE recv

\* awaitAccept: pair_accept and its offer.
Accepted(c) ==
  /\ c \in told /\ Here(c) /\ recv[Dev(c)] = "joins"
  /\ recv' = [recv EXCEPT ![Dev(c)] = "accepted"]
  /\ UNCHANGED <<serving, conn, gate, ghosts>>

\* receiveAccepted: no room, or not what its user wants; or the data connections.
Decides(d) ==
  /\ recv[d] = "accepted"
  /\ \E what \in {"declined", "pulls"} : recv' = [recv EXCEPT ![d] = what]
  /\ UNCHANGED <<serving, conn, gate, ghosts>>

-----------------------------------------------------------------------------
(* The Hub: handshake, first frame, delivery.                               *)

\* A key trusted, or of the receiver registered, is authenticated; another one is charged.
Handshake(c) ==
  /\ At(c, "handshake") /\ Here(c)
  /\ IF Dev(c) \in Trusted \cup {send.peer}
     THEN /\ gate' = Release([gate EXCEPT !.known = @ \cup {Dev(c)}], c)
          /\ conn' = [conn EXCEPT ![c].st = "frame", ![c].auth = TRUE, ![c].place = FALSE, ![c].running = FALSE]
     ELSE gate' = Charge(c) /\ conn' = [conn EXCEPT ![c].st = "frame", ![c].running = FALSE]
  /\ UNCHANGED <<serving, recv, ghosts>>

\* charge, then release.
HandshakeFails(c) ==
  /\ At(c, "handshake") /\ ~Here(c)
  /\ gate' = [Charge(c) EXCEPT !.active = @ - 1]
  /\ conn' = [conn EXCEPT ![c] = Closed(@)]
  /\ UNCHANGED <<serving, recv, ghosts>>

\* The first frame is a CONTROL one: to the Listener of now, if it is open and not too far behind.
Delivers(c) ==
  /\ At(c, "frame") /\ Here(c)
  /\ IF port.open /\ Len(port.queue) < Room
     THEN port' = [port EXCEPT !.queue = Append(@, c)] /\ To(c, "queued") /\ UNCHANGED <<gate, recv>>
     ELSE Close(c) /\ Hears(c, "idle") /\ UNCHANGED port
  /\ UNCHANGED <<ctx, serve, codes, outcome, send, ghosts>>

-----------------------------------------------------------------------------
(* serve, and pairing.Serve.                                                *)

\* A new round: another Listener, another PIN, another QR code.
Begins ==
  /\ serve.at = "between"
  /\ serve' = [serve EXCEPT !.at = "accepts", !.round = @ + 1, !.cause = "none"]
  /\ codes' = [expired |-> FALSE, used |-> FALSE, pin |-> TRUE, stopped |-> FALSE]
  /\ port' = [open |-> TRUE, queue |-> <<>>]
  /\ UNCHANGED <<ctx, outcome, send, conn, recv, gate, ghosts>>

Accepts ==
  /\ serve.at = "accepts" /\ port.queue # <<>>
  /\ conn' = [conn EXCEPT ![Head(port.queue)].st = "first", ![Head(port.queue)].round = serve.round]
  /\ port' = [port EXCEPT !.queue = Tail(@)]
  /\ UNCHANGED <<ctx, serve, codes, outcome, send, recv, gate, ghosts>>

\* Mutant: the codes end the round whatever happened meanwhile.
EndsAnyway(cause) == serve' = [serve EXCEPT !.cause = IF @ = "none" THEN cause ELSE @]

\* end: not once a device has claimed the pairing.
Ends(cause) == serve' = [serve EXCEPT !.cause = IF @ = "none" /\ serve.claimed = 0 THEN cause ELSE @]

\* The goroutine that waits: its deadline, or a PIN stopped.
Expired ==
  /\ serve.at = "accepts" /\ port.open
  /\ \/ codes.expired /\ Ends("expired")
     \/ codes.stopped /\ Ends("too many")
  /\ UNCHANGED <<ctx, codes, port, outcome, send, conn, recv, gate, ghosts>>

\* ... it closes the Listener, and those in its queue.
Queued == {port.queue[n] : n \in 1 .. Len(port.queue)}
StopsAccepting ==
  /\ serve.at = "accepts" /\ port.open
  /\ serve.claimed # 0 \/ serve.cause # "none" \/ ctx = "ended"
  /\ port' = [open |-> FALSE, queue |-> <<>>]
  /\ conn' = [c \in Live |-> IF c \in Queued THEN Closed(conn[c]) ELSE conn[c]]
  /\ gate' = [gate EXCEPT !.active = @ - Cardinality({c \in Queued : conn[c].place})]
  /\ recv' = [d \in Devices |-> IF \E c \in Queued : Dev(c) = d /\ Here(c) /\ recv[d] = "joins" THEN "idle" ELSE recv[d]]
  /\ UNCHANGED <<ctx, serve, codes, outcome, send, ghosts>>

\* Accept fails: the pairing is claimed, or the round is over; only one expired is followed.
AcceptFails ==
  /\ serve.at = "accepts" /\ ~port.open
  /\ IF serve.claimed # 0 THEN serve' = [serve EXCEPT !.at = "outcome"] /\ UNCHANGED send
     ELSE IF serve.cause = "expired" THEN serve' = [serve EXCEPT !.at = "between"] /\ UNCHANGED send
     ELSE serve' = [serve EXCEPT !.at = "over"] /\ send' = [send EXCEPT !.result = "failed"]
  /\ codes' = [codes EXCEPT !.pin = IF serve.claimed # 0 THEN @ ELSE FALSE]
  /\ UNCHANGED <<ctx, port, outcome, conn, recv, gate, ghosts>>

Returns ==
  /\ serve.at = "outcome" /\ outcome # "none"
  /\ serve' = [serve EXCEPT !.at = "over"]
  /\ send' = [send EXCEPT !.result = outcome]
  /\ codes' = [codes EXCEPT !.pin = FALSE]
  /\ UNCHANGED <<ctx, port, outcome, conn, recv, gate, ghosts>>

\* The codes expire (a PIN drawn again moves that); too many PINs were wrong.
Late ==
  /\ Happens
  /\ serve.at = "accepts"
  /\ \/ serve.round < MaxRounds /\ ~codes.expired /\ codes' = [codes EXCEPT !.expired = TRUE, !.pin = FALSE]
     \/ codes.pin /\ codes' = [codes EXCEPT !.stopped = TRUE, !.pin = FALSE]
  /\ UNCHANGED <<ctx, serve, port, outcome, send, conn, recv, gate>>

\* The caller's context: the transfer is over, or it is given up.
Cancel ==
  /\ Happens
  /\ ctx = "on"
  /\ ctx' = "ended"
  /\ UNCHANGED <<serve, codes, port, outcome, send, conn, recv, gate>>

-----------------------------------------------------------------------------
(* serveOne.                                                                *)

\* Mutant: an outcome is given only when it went well.
OutcomeIfPaired(c, what) == IF serve.claimed = c /\ what = "paired" THEN what ELSE outcome

\* The pairing that claimed gives its outcome, whatever it is.
Outcome(c, what) == IF serve.claimed = c THEN what ELSE outcome

\* serveOne returns: the connection is closed.
Over(c, what, heard) == Close(c) /\ outcome' = Outcome(c, what) /\ Hears(c, heard)

\* The same refusal whatever the reason (PAIR-07), but for a hello that is not mutual.
Rejects(c) == Over(c, "failed", IF conn[c].path = "hello" /\ At(c, "first") THEN "pin" ELSE "idle")

PINThere(c) == conn[c].round = serve.round /\ codes.pin
GoesOn(c, st) == To(c, st) /\ UNCHANGED <<gate, outcome, recv>>

\* Redeem: the invitation of this round, before it expires, once.
Redeems(c) == conn[c].code = conn[c].round /\ conn[c].round = serve.round /\ ~codes.expired /\ ~codes.used

\* pair_secret, pair_hello.
Presents(c) ==
  /\ At(c, "first") /\ Here(c)
  /\ \/ /\ conn[c].path = "secret"
        /\ codes' = [codes EXCEPT !.used = @ \/ Redeems(c)]
        /\ IF Redeems(c) THEN GoesOn(c, "proved") ELSE Rejects(c)
     \/ /\ conn[c].path = "hello"
        /\ IF Dev(c) \in Trusted THEN GoesOn(c, "proved") ELSE Rejects(c)
        /\ UNCHANGED codes
  /\ UNCHANGED <<ctx, serve, port, send, ghosts>>

\* pair_pin_wanted: a PIN that serves no more is not announced; else the user types it.
AsksPIN(c) ==
  /\ At(c, "first") /\ Here(c) /\ conn[c].path = "wanted"
  /\ IF PINThere(c) THEN GoesOn(c, "typing") ELSE Rejects(c)
  /\ UNCHANGED <<ctx, serve, codes, port, send, ghosts>>

\* pair_pin: an attempt, on the PIN or, with none left, on a decoy.
Tries(c) ==
  /\ Here(c) /\ (At(c, "typing") \/ (At(c, "first") /\ conn[c].path = "pin"))
  /\ conn' = [conn EXCEPT ![c].st = "confirms", ![c].counted = PINThere(c)]
  /\ UNCHANGED <<serving, recv, gate, ghosts>>

\* pair_pin_confirm: right, it uses the PIN up, even one another device used meanwhile.
Confirms(c) ==
  /\ At(c, "confirms") /\ Here(c)
  /\ \/ /\ conn[c].counted
        /\ GoesOn(c, "proved")
        /\ codes' = IF PINThere(c) THEN [codes EXCEPT !.pin = FALSE] ELSE codes
     \/ Rejects(c) /\ UNCHANGED codes
  /\ UNCHANGED <<ctx, serve, port, send, ghosts>>

\* The receiver left, or a deadline passed (GivesUp).
TimesOut(c) ==
  /\ ~Here(c) /\ conn[c].st \in {"frame", "first", "typing", "confirms"}
  /\ Over(c, "failed", "idle")
  /\ UNCHANGED <<ctx, serve, codes, port, send, ghosts>>

\* Mutant: a claim that another device may have made already.
ClaimsAgain(c) == RoundOn(c)

\* claim: the first one, while the round lasts.
MayClaim(c) == RoundOn(c) /\ serve.claimed = 0

\* Authenticate: an address known from now on, and the place given back; then the claim.
Claims(c) ==
  LET g == Release(IF conn[c].auth THEN gate ELSE [gate EXCEPT !.known = @ \cup {Dev(c)}], c)
      r == [conn[c] EXCEPT !.auth = TRUE, !.place = FALSE, !.running = FALSE]
  IN /\ At(c, "proved")
     /\ gate' = g
     /\ IF MayClaim(c)
        THEN /\ serve' = [serve EXCEPT !.claimed = c]
             /\ conn' = [conn EXCEPT ![c] = [r EXCEPT !.st = "before"]] /\ UNCHANGED recv
        ELSE conn' = [conn EXCEPT ![c] = Closed(r)] /\ Hears(c, "idle") /\ UNCHANGED serve
     /\ UNCHANGED <<ctx, codes, port, outcome, send, ghosts>>

\* authorize: xfer send -i takes no answer for the default one, yes.
Answers == {"yes", "no", "none"}
Allowed(answer) == answer # "no"

\* BeforeAccept, register: once, the sender's user is asked, and the transfer is the device's.
Registers(c) ==
  /\ At(c, "before")
  /\ \E answer \in Answers :
       /\ send' = IF send.once THEN send
                  ELSE [send EXCEPT !.once = TRUE, !.answer = answer, !.peer = IF Allowed(answer) THEN Dev(c) ELSE 0]
       /\ IF ~send.once /\ Allowed(answer) THEN GoesOn(c, "accepted") ELSE Rejects(c)
  /\ UNCHANGED <<ctx, serve, codes, port, ghosts>>

\* pair_accept and the offer; a receiver that left may not be noticed.
SendsAccept(c) ==
  /\ At(c, "accepted")
  /\ \/ GoesOn(c, "talks") /\ told' = told \cup {c}
     \/ ~Here(c) /\ Over(c, "failed", "idle") /\ UNCHANGED told
  /\ UNCHANGED <<ctx, serve, codes, port, send, events, cut>>

\* negotiate, if either side offers mutual trust: the answer, a deadline, or the context's end.
Talked(c) ==
  /\ At(c, "talks")
  /\ Over(c, "paired", "accepted")
  /\ cut' \in {cut} \cup (IF RoundOn(c) THEN {} ELSE {TRUE})
  /\ UNCHANGED <<ctx, serve, codes, port, send, events, told>>

-----------------------------------------------------------------------------
Init ==
  /\ ctx = "on"
  /\ serve = [round |-> 0, at |-> "between", claimed |-> 0, cause |-> "none"]
  /\ codes = [expired |-> FALSE, used |-> FALSE, pin |-> FALSE, stopped |-> FALSE]
  /\ port = [open |-> FALSE, queue |-> <<>>]
  /\ outcome = "none"
  /\ send = [once |-> FALSE, peer |-> 0, answer |-> "none", result |-> "none"]
  /\ conn = <<>>
  /\ recv = [d \in Devices |-> "idle"]
  /\ gate = [active |-> 0, running |-> [d \in Devices |-> 0], recent |-> [d \in Devices |-> 0], known |-> {}]
  /\ events = 0 /\ told = {} /\ cut = FALSE

Serving == Begins \/ Accepts \/ Expired \/ StopsAccepting \/ AcceptFails \/ Returns
ServeOne(c) == \/ Handshake(c) \/ HandshakeFails(c) \/ Delivers(c) \/ Presents(c) \/ AsksPIN(c) \/ Tries(c) \/ Confirms(c)
               \/ TimesOut(c) \/ Claims(c) \/ Registers(c) \/ SendsAccept(c) \/ Talked(c)
Sender == Serving \/ \E c \in Live : ServeOne(c)

Next ==
  \/ Sender \/ Late \/ Cancel
  \/ \E d \in Devices : Forgets(d) \/ Decides(d) \/ \E path \in Paths[d], code \in 0 .. serve.round : Dials(d, path, code)
  \/ \E c \in Live : GivesUp(c) \/ Accepted(c)

Spec == Init /\ [][Next]_vars

\* The sender goes on while it can, which is less than each of its goroutines does: it waits for
\* no one without a deadline.
FairSpec == Spec /\ WF_vars(Sender)

-----------------------------------------------------------------------------
(* One receiver: the one told pair_accept is the one the transfer is       *)
(* registered for, before it is told, and the one Serve returns, whoever   *)
(* else proved a code meanwhile (claim, BeforeAccept, the once).           *)
OneReceiver ==
  /\ Cardinality(told) <= 1
  /\ \A c \in told : send.peer = Dev(c) /\ serve.claimed = c
  /\ \A d \in Devices : recv[d] \in {"accepted", "pulls"} => send.peer = d
  /\ serve.at = "over" => (send.result = "paired" <=> told # {})

(* Once a device is accepted nothing expires: its talk of trust keeps its  *)
(* time, whatever the codes do meanwhile (claim, end; audit 10, #156).     *)
TalkKeepsItsTime == cut => ctx = "ended"

(* A place in the Gate is held by each connection that is neither          *)
(* authenticated nor closed, and by no other (LIM-01: Admit, Release).     *)
PlacesAreHeld ==
  /\ gate.active = Cardinality({c \in Live : ~At(c, "gone") /\ ~conn[c].auth})
  /\ \A d \in Devices : gate.running[d] = Cardinality({c \in Live : At(c, "handshake") /\ Dev(c) = d})

(* Serve waits for nobody for ever: once claimed it returns; once its      *)
(* codes expired, others follow, unless the pairing is over.               *)
ServeGoesOn ==
  /\ serve.claimed # 0 ~> serve.at = "over"
  /\ serve.cause # "none" ~> (serve.at = "over" \/ serve.cause = "none")
=============================================================================
