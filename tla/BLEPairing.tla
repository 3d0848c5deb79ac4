------------------------------ MODULE BLEPairing ------------------------------
(***************************************************************************)
(* Pairing over Bluetooth Low Energy: pkg/pairing's BLEResponder, BLEConn, *)
(* BLEClient and BLEAuthenticated, and pkg/api's ble_server, ble_client    *)
(* and pair_ble.                                                           *)
(*                                                                         *)
(* One device answers; several others touch it.  The platform carries one  *)
(* message and one answer at a time on each GATT connection, and calls the *)
(* core from a thread of its own for each message, answer and end of a     *)
(* connection: these calls run at once, under two locks, the table's       *)
(* (DaemonServer.ble.mu) and each connection's (BLEConn.mu).  A            *)
(* cryptographic box opens what the same exchange sealed and nothing else: *)
(* a key is the two challenges it was made of and the code.  A challenge   *)
(* is the number of its draw.  Time is the order of events: a connection   *)
(* is late once past its challenge's or its PIN's life; a key that was     *)
(* accepted and expires is one never used.  The content of the networks,   *)
(* the tags' order and the sizes are left out.                             *)
(***************************************************************************)
EXTENDS Naturals, Sequences, FiniteSets, Functions

CONSTANTS
  Devices,    \* the devices that touch this one, each on a connection of its name
  Trusted,    \* those of mutual trust with this one
  Requests,   \* BLERequest: what a device that touches this one can create and join
  Own,        \* what this one can, as its platform says at each message
  Slots,      \* calls of the core under way at once
  MaxObjs,    \* BLEConn objects made (a bound)
  MaxPINs,    \* PINs drawn on demand (a bound)
  MaxTries,   \* exchanges started (a bound)
  CodeAttempts,   \* PINConfig.Attempts
  Losses      \* connections lost (a bound)

ASSUME CountsAssumption == Slots \in Nat \ {0} /\ CodeAttempts \in Nat \ {0} /\ MaxObjs \in Nat
ASSUME TrustedAssumption == Trusted \subseteq Devices

VARIABLES
  obj,      \* per BLEConn object: its fields, and its bleServerConn's peer
  conns,    \* DaemonServer.ble.conns: the object of each connection, 0 for none
  pinConn,  \* BLEResponder.pinConn, 0 for none
  pins,     \* the PINs drawn on demand, the last one current
  own,      \* DaemonServer.ble.own
  call,     \* per slot: a call of ble_server under way
  tableMu,  \* the slot that holds ble.mu, 0 for none
  auth,     \* BLEAuthenticated: [on, of], the device that accepts and the key it accepts
  client,   \* per device: its BLEClient and where its exchange is
  reply,    \* per connection: the answer the device reads next
  taken,    \* per device: how many of its pair_ble this device accepted
  lost      \* connections lost

bleVars == <<obj, conns, pinConn, pins, own, call, tableMu, auth, client, reply, taken, lost>>

-----------------------------------------------------------------------------
Objs == 1..MaxObjs
Ks == 1..Slots
Self == "self"
ASSUME DevicesAssumption == Self \notin Devices

\* Creator: at 5 GHz when one can create what the other joins, else at 2.4 GHz;
\* the responder when both can.
Bands == <<"5", "24">>
Gives(a, b, band) == band \in a.create /\ band \in b.join
Creator(initiator, responder) ==
  LET able == {i \in DOMAIN Bands : \/ Gives(responder, initiator, Bands[i])
                                    \/ Gives(initiator, responder, Bands[i])}
      best == Bands[CHOOSE i \in able : \A j \in able : i <= j]
  IN IF able = {} THEN "none"
     ELSE IF Gives(responder, initiator, best) THEN "responder" ELSE "initiator"

\* A key: the initiator's challenge, the responder's, and what both know: the code
\* of a PIN, which is the PIN and its draw, or the pair's key.
NoCode == <<0, 0>>
WrongCode == <<0, 1>>
PairKey == <<0, 2>>
NoKey == [i |-> <<Self, 0>>, r |-> <<0, 0>>, by |-> NoCode]
Key(i, r, by) == [i |-> i, r |-> r, by |-> by]

Nothing == [typ |-> "nothing"]
Refuse == [typ |-> "refuse"]
NoCall == [kind |-> "none", dev |-> Self, at |-> "start", o |-> 0, msg |-> Nothing, out |-> Nothing]
NewObj == [stage |-> "idle", dev |-> Self, c |-> <<Self, 0>>, n |-> 0, late |-> FALSE, refused |-> FALSE, pin |-> 0,
           attempt |-> FALSE, key |-> NoKey, trusted |-> FALSE, outcome |-> "none", named |-> FALSE,
           join |-> FALSE, mu |-> 0]
NewClient == [at |-> "idle", try |-> 0, r |-> <<0, 0>>, key |-> NoKey, outcome |-> "none"]

Free == {k \in Ks : call[k] = NoCall}
Slot == CHOOSE k \in Free : \A j \in Free : k <= j
ObjsMade == {o \in Objs : obj[o].dev # Self}

-----------------------------------------------------------------------------
(* The PIN (module Pins): as many attempts on a code as PINConfig says; the *)
(* last that fails destroys it, and another code is drawn, once here, then  *)
(* the PIN stops.  One that is used, expired or stopped is over.            *)

Current == Len(pins)
LivePIN(p) == p # 0 /\ ~pins[p].over
Code(p) == <<p, pins[p].draw>>
NewPIN == [draw |-> 1, reserved |-> 0, failed |-> 0, over |-> FALSE, paired |-> 0]
MayTry(p) == LivePIN(p) /\ pins[p].reserved < CodeAttempts
FailedAttempt(r) ==
  IF r.over \/ r.failed + 1 < CodeAttempts THEN [r EXCEPT !.failed = @ + 1]
  ELSE IF r.draw = 2 THEN [r EXCEPT !.over = TRUE]
  ELSE [r EXCEPT !.draw = 2, !.reserved = 0, !.failed = 0]

PINExpires ==
  /\ LivePIN(Current)
  /\ pins' = [pins EXCEPT ![Current].over = TRUE]
  /\ UNCHANGED <<obj, conns, pinConn, own, call, tableMu, auth, client, reply, taken, lost>>

-----------------------------------------------------------------------------
(* A connection: BLEConn.                                                   *)

\* Mutant: a connection closed may be used by a call that had it.
CloseKeepsStage(o) ==
  /\ obj' = [obj EXCEPT ![o].attempt = FALSE, ![o].mu = 0]
  /\ pins' = IF obj[o].attempt THEN [pins EXCEPT ![obj[o].pin] = FailedAttempt(@)] ELSE pins
  /\ pinConn' = IF pinConn = o THEN 0 ELSE pinConn
\* closeLocked: an attempt begun counts, and the screen is freed.
Close(o) ==
  /\ obj' = [obj EXCEPT ![o].stage = "closed", ![o].attempt = FALSE, ![o].mu = 0]
  /\ pins' = IF obj[o].attempt THEN [pins EXCEPT ![obj[o].pin] = FailedAttempt(@)] ELSE pins
  /\ pinConn' = IF pinConn = o THEN 0 ELSE pinConn

\* What a message does: the object's next fields and the answer.
Does(k, o, fields, out) ==
  /\ obj' = [obj EXCEPT ![o] = [fields EXCEPT !.mu = 0]]
  /\ call' = [call EXCEPT ![k].at = "return", ![k].out = out]

Refuses(k, o) ==
  /\ Close(o)
  /\ call' = [call EXCEPT ![k].at = "drop", ![k].out = Refuse]

\* hello: a challenge of its own, and the tags for the client's.
HelloTaken(k, o, m) ==
  /\ m.typ = "hello" /\ obj[o].stage \in {"idle", "helloed"}
  /\ LET n == obj[o].n + 1 IN
     Does(k, o, [obj[o] EXCEPT !.stage = "helloed", !.c = m.i, !.n = n, !.late = FALSE],
          [typ |-> "helloReply", i |-> m.i, r |-> <<o, n>>])
  /\ UNCHANGED <<pinConn, pins>>

\* trustedRequest: the box opens under the pair's key and these challenges.
TrustedTaken(k, o, m) ==
  /\ m.typ = "trusted" /\ obj[o].stage = "helloed" /\ ~obj[o].late
  /\ m.key = Key(obj[o].c, <<o, obj[o].n>>, PairKey)
  /\ obj' = [obj EXCEPT ![o].stage = "authenticated", ![o].trusted = TRUE, ![o].key = m.key]
  /\ call' = [call EXCEPT ![k].at = "own"]
  /\ UNCHANGED <<pinConn, pins>>

\* pinWanted, under the responder's lock: the screen is free, or its request is
\* late: that one is refused and this one takes its place.
ScreenBusy(o) == pinConn \notin {0, o} /\ ~obj[pinConn].late
Displaced(o) == IF pinConn \in {0, o} THEN obj ELSE [obj EXCEPT ![pinConn].refused = TRUE]

PINWantedTaken(k, o, m) ==
  /\ m.typ = "pinWanted" /\ obj[o].stage \in {"idle", "helloed"}
  /\ ~ScreenBusy(o)
  /\ \E got \in (IF LivePIN(Current) THEN {pins} ELSE IF Len(pins) < MaxPINs THEN {Append(pins, NewPIN)} ELSE {}) :
       LET n == obj[o].n + 1 IN
       /\ pins' = got
       /\ obj' = [Displaced(o) EXCEPT ![o].stage = "shown", ![o].c = m.i, ![o].n = n, ![o].late = FALSE,
                                      ![o].pin = Len(got), ![o].mu = 0]
       /\ call' = [call EXCEPT ![k].at = "return", ![k].out = [typ |-> "pinReady", r |-> <<o, n>>]]
  /\ pinConn' = o

\* The screen was taken, then no PIN could be drawn.
NoPIN(k, o, m) ==
  /\ m.typ = "pinWanted" /\ obj[o].stage \in {"idle", "helloed"}
  /\ ~ScreenBusy(o) /\ ~LivePIN(Current) /\ Len(pins) = MaxPINs
  /\ obj' = [Displaced(o) EXCEPT ![o].stage = "closed", ![o].mu = 0]
  /\ pinConn' = 0
  /\ call' = [call EXCEPT ![k].at = "drop", ![k].out = Refuse]
  /\ UNCHANGED pins

\* pinTyped: an attempt is begun on the code, or the exchange runs on a decoy,
\* which may by chance be the code typed.
PINTaken(k, o, m) ==
  /\ m.typ = "pin" /\ obj[o].stage = "shown" /\ ~obj[o].refused /\ ~obj[o].late
  /\ LET p == obj[o].pin IN
     /\ \E code \in (IF MayTry(p) THEN {Code(p)} ELSE {NoCode, m.code}) :
          LET key == Key(obj[o].c, <<o, obj[o].n>>, code) IN
          Does(k, o, [obj[o] EXCEPT !.stage = "answered", !.attempt = MayTry(p), !.key = key],
               [typ |-> "pinReply", key |-> key])
     /\ pins' = IF MayTry(p) THEN [pins EXCEPT ![p].reserved = @ + 1] ELSE pins
  /\ UNCHANGED pinConn

\* Mutant: the user's refusal, or the request that took the screen, is not looked
\* at.
ConfirmsRefused(o, m) == obj[o].attempt /\ m.key = obj[o].key
Confirms(o, m) == ~obj[o].refused /\ obj[o].attempt /\ m.key = obj[o].key

\* pinConfirm: the attempt ends, the PIN is used, the screen is free.
ConfirmTaken(k, o, m) ==
  /\ m.typ = "pinConfirm" /\ obj[o].stage = "answered" /\ Confirms(o, m)
  /\ obj' = [obj EXCEPT ![o].stage = "authenticated", ![o].attempt = FALSE]
  /\ pins' = [pins EXCEPT ![obj[o].pin].over = TRUE, ![obj[o].pin].paired = @ + 1]
  /\ pinConn' = IF pinConn = o THEN 0 ELSE pinConn
  /\ call' = [call EXCEPT ![k].at = "own"]

\* network: the one the initiator created, acknowledged.
NetworkTaken(k, o, m) ==
  /\ m.typ = "network" /\ obj[o].stage = "await" /\ m.key = obj[o].key
  /\ Does(k, o, [obj[o] EXCEPT !.stage = "done", !.join = TRUE], [typ |-> "ack", key |-> m.key])
  /\ UNCHANGED <<pinConn, pins>>

\* Receive: what the stage does not expect, or does not open, is refused.
Taken(k, o, m) ==
  \/ HelloTaken(k, o, m) \/ TrustedTaken(k, o, m) \/ PINWantedTaken(k, o, m) \/ NoPIN(k, o, m)
  \/ PINTaken(k, o, m) \/ ConfirmTaken(k, o, m) \/ NetworkTaken(k, o, m)
Expected(o, m) ==
  CASE m.typ = "hello" -> obj[o].stage \in {"idle", "helloed"}
    [] m.typ = "trusted" -> /\ obj[o].stage = "helloed" /\ ~obj[o].late
                            /\ m.key = Key(obj[o].c, <<o, obj[o].n>>, PairKey)
    [] m.typ = "pinWanted" -> obj[o].stage \in {"idle", "helloed"} /\ ~ScreenBusy(o)
    [] m.typ = "pin" -> obj[o].stage = "shown" /\ ~obj[o].refused /\ ~obj[o].late
    [] m.typ = "pinConfirm" -> obj[o].stage = "answered" /\ Confirms(o, m)
    [] m.typ = "network" -> obj[o].stage = "await" /\ m.key = obj[o].key

-----------------------------------------------------------------------------
(* ble_server: the calls of the platform, each on a thread of its own.      *)

CallEnds(k) == call' = [call EXCEPT ![k] = NoCall]
CallGoes(k, at) == call' = [call EXCEPT ![k].at = at]

\* step message, under ble.mu: the connection's object, made when there is none; refused when
\* there is no place, the other connections of this device having them.
Message(k) ==
  /\ call[k].kind = "message" /\ call[k].at = "start" /\ tableMu = 0
  /\ own' \in Own
  /\ LET d == call[k].dev
         o == 1 + Cardinality(ObjsMade)
     IN \/ /\ conns[d] # 0
           /\ call' = [call EXCEPT ![k].at = "receive", ![k].o = conns[d]]
           /\ UNCHANGED <<obj, conns, reply>>
        \/ /\ conns[d] = 0 /\ o \in Objs
           /\ obj' = [obj EXCEPT ![o].dev = d]
           /\ conns' = [conns EXCEPT ![d] = o]
           /\ call' = [call EXCEPT ![k].at = "receive", ![k].o = o]
           /\ UNCHANGED reply
        \/ /\ conns[d] = 0
           /\ reply' = [reply EXCEPT ![d] = Refuse]
           /\ CallEnds(k)
           /\ UNCHANGED <<obj, conns>>
  /\ UNCHANGED <<pinConn, pins, tableMu, auth, client, taken, lost>>

\* Receive takes the connection's lock, for as long as the message takes: the PIN
\* may be drawn and shown meanwhile.
Lock(k) ==
  /\ call[k].kind = "message" /\ call[k].at = "receive" /\ obj[call[k].o].mu = 0
  /\ obj' = [obj EXCEPT ![call[k].o].mu = k]
  /\ CallGoes(k, "locked")
  /\ UNCHANGED <<conns, pinConn, pins, own, tableMu, auth, client, reply, taken, lost>>

Receive(k) ==
  LET o == call[k].o
      m == call[k].msg
  IN /\ call[k].at = "locked"
     /\ IF Expected(o, m) THEN Taken(k, o, m) ELSE Refuses(k, o)
     /\ UNCHANGED <<conns, own, tableMu, auth, client, reply, taken, lost>>

\* authenticated: cfg.Own takes ble.mu while Receive holds the connection's.
OwnBands(k) ==
  LET o == call[k].o IN
  /\ call[k].at = "own" /\ tableMu = 0
  /\ obj' = [obj EXCEPT ![o].mu = 0, ![o].outcome = Creator(call[k].msg.req, own)]
  /\ call' = [call EXCEPT ![k].at = "return", ![k].out = [typ |-> "request"]]
  /\ UNCHANGED <<conns, pinConn, pins, own, tableMu, auth, client, reply, taken, lost>>

\* bleDrop, of what the name then names: ble.mu, then the connection's.
Dropping(k) == \/ call[k].kind = "close" /\ call[k].at = "start"
               \/ call[k].kind = "message" /\ call[k].at = "drop"
AfterDrop(k) == IF call[k].kind = "close" THEN CallEnds(k) ELSE CallGoes(k, "return")

Drop(k) ==
  LET d == call[k].dev IN
  /\ Dropping(k) /\ tableMu = 0
  /\ \/ /\ conns[d] = 0
        /\ AfterDrop(k)
        /\ UNCHANGED <<obj, conns, pinConn, pins, tableMu>>
     \/ /\ conns[d] # 0 /\ obj[conns[d]].mu = 0
        /\ Close(conns[d])
        /\ conns' = [conns EXCEPT ![d] = 0]
        /\ AfterDrop(k)
        /\ UNCHANGED tableMu
     \/ /\ conns[d] # 0 /\ obj[conns[d]].mu # 0
        /\ tableMu' = k
        /\ UNCHANGED <<obj, conns, pinConn, pins, call>>
  /\ UNCHANGED <<own, auth, client, reply, taken, lost>>

\* The connection's lock, ble.mu being held.
Dropped(k) ==
  LET d == call[k].dev IN
  /\ Dropping(k) /\ tableMu = k /\ obj[conns[d]].mu = 0
  /\ Close(conns[d])
  /\ conns' = [conns EXCEPT ![d] = 0]
  /\ AfterDrop(k)
  /\ tableMu' = 0
  /\ UNCHANGED <<own, auth, client, reply, taken, lost>>

\* The end of step message: the entry names the peer, and the platform has the
\* answer; a request authenticated is answered by a call to come, after the
\* network was created, or could not be.
Return(k) ==
  LET o == call[k].o
      d == call[k].dev
  IN /\ call[k].kind = "message" /\ call[k].at = "return" /\ tableMu = 0
     /\ IF call[k].out.typ = "request"
        THEN /\ obj' = [obj EXCEPT ![o].named = TRUE]
             /\ \E outcome \in {obj[o].outcome} \cup (IF obj[o].outcome = "responder" THEN {"none"} ELSE {}) :
                  call' = [call EXCEPT ![k] = [NoCall EXCEPT !.kind = "answer", !.dev = d,
                                                             !.out = [typ |-> "reply", outcome |-> outcome, admits |-> FALSE]]]
             /\ UNCHANGED reply
        ELSE /\ reply' = [reply EXCEPT ![d] = call[k].out]
             /\ CallEnds(k)
             /\ UNCHANGED obj
     /\ UNCHANGED <<conns, pinConn, pins, own, tableMu, auth, client, taken, lost>>

\* step answer: the connection of that name, and the peer its entry names, if any
\* yet; then Answer, and the key of that peer accepted.
AnswerStarts(k) ==
  LET o == conns[call[k].dev] IN
  /\ call[k].kind = "answer" /\ call[k].at = "start" /\ tableMu = 0
  /\ IF o = 0 THEN CallEnds(k)
     ELSE call' = [call EXCEPT ![k].at = "answer", ![k].o = o,
                               ![k].out.admits = obj[o].named /\ ~obj[o].trusted]
  /\ UNCHANGED <<obj, conns, pinConn, pins, own, tableMu, auth, client, reply, taken, lost>>

Answer(k) ==
  LET o == call[k].o
      d == call[k].dev
      outcome == call[k].out.outcome
  IN /\ call[k].kind = "answer" /\ call[k].at = "answer" /\ obj[o].mu = 0
     /\ IF obj[o].stage = "authenticated"
        THEN /\ obj' = [obj EXCEPT ![o].stage = IF outcome = "initiator" THEN "await" ELSE "done",
                                   ![o].outcome = outcome]
             /\ auth' = IF outcome = "responder" /\ call[k].out.admits
                        THEN auth \cup {[on |-> Self, of |-> d]} ELSE auth
             /\ reply' = [reply EXCEPT ![d] = [typ |-> "reply", key |-> obj[o].key, outcome |-> outcome]]
        ELSE UNCHANGED <<obj, auth, reply>>
     /\ CallEnds(k)
     /\ UNCHANGED <<conns, pinConn, pins, own, tableMu, client, taken, lost>>

-----------------------------------------------------------------------------
(* The user and time.                                                       *)

\* RefusePIN.
RefusePIN ==
  /\ pinConn # 0 /\ ~obj[pinConn].refused
  /\ obj' = [obj EXCEPT ![pinConn].refused = TRUE]
  /\ UNCHANGED <<conns, pinConn, pins, own, call, tableMu, auth, client, reply, taken, lost>>

\* Past bleChallengeAge, or typingTime.
GrowsLate(o) ==
  /\ obj[o].stage \in {"helloed", "shown", "answered"} /\ ~obj[o].late
  /\ obj' = [obj EXCEPT ![o].late = TRUE]
  /\ UNCHANGED <<conns, pinConn, pins, own, call, tableMu, auth, client, reply, taken, lost>>

\* roomFor: idle for bleIdle, its place goes to another connection.
Evict(d) ==
  /\ conns[d] # 0 /\ tableMu = 0 /\ \A k \in Ks : call[k].dev # d
  /\ obj[conns[d]].late
  /\ Close(conns[d])
  /\ conns' = [conns EXCEPT ![d] = 0]
  /\ UNCHANGED <<own, call, tableMu, auth, client, reply, taken, lost>>

-----------------------------------------------------------------------------
(* The other device: ble_client, as its platform steps through it.          *)

At(d, at) == client' = [client EXCEPT ![d].at = at]

Tries == FoldFunction(+, 0, [d \in Devices |-> client[d].try])

\* exchange: the message is written, which forgets the answer before it.
Writes(d, m) ==
  /\ Free # {}
  /\ call' = [call EXCEPT ![Slot] = [NoCall EXCEPT !.kind = "message", !.dev = d, !.msg = m]]
  /\ reply' = [reply EXCEPT ![d] = Nothing]
  /\ UNCHANGED <<obj, conns, pinConn, pins, own, tableMu, auth, taken, lost>>
Reads(d, typ) == reply[d] # Nothing /\ reply[d].typ = typ
Only == UNCHANGED <<obj, conns, pinConn, pins, own, call, tableMu, auth, reply, taken, lost>>

Hello(d) ==
  /\ client[d].at \in {"idle", "failed"} /\ Tries < MaxTries
  /\ client' = [client EXCEPT ![d] = [NewClient EXCEPT !.at = "hello", !.try = client[d].try + 1]]
  /\ Writes(d, [typ |-> "hello", i |-> <<d, client[d].try + 1>>])

\* Recognize: a tag for this challenge; a device trusted longer ago than MaxTags
\* others has none.
Recognize(d) ==
  /\ client[d].at = "hello" /\ Reads(d, "helloReply")
  /\ \E known \in {"known", "unknown"} :
       /\ known = "known" => d \in Trusted /\ reply[d].i = <<d, client[d].try>>
       /\ client' = [client EXCEPT ![d].at = known, ![d].r = reply[d].r]
  /\ Only

AskTrusted(d) ==
  LET key == Key(<<d, client[d].try>>, client[d].r, PairKey) IN
  /\ client[d].at = "known"
  /\ client' = [client EXCEPT ![d].at = "asked", ![d].key = key]
  /\ \E r \in Requests : Writes(d, [typ |-> "trusted", key |-> key, req |-> r])

PINWanted(d) ==
  /\ client[d].at = "unknown"
  /\ At(d, "wanted")
  /\ Writes(d, [typ |-> "pinWanted", i |-> <<d, client[d].try>>])

PINReady(d) ==
  /\ client[d].at = "wanted" /\ Reads(d, "pinReady")
  /\ client' = [client EXCEPT ![d].at = "ready", ![d].r = reply[d].r]
  /\ Only

\* The user types the code on the other's screen, or another one.
TypePIN(d) ==
  /\ client[d].at = "ready"
  /\ \E code \in {WrongCode} \cup (IF pins = <<>> THEN {} ELSE {Code(Current)}) :
       /\ client' = [client EXCEPT ![d].at = "typed", ![d].key = Key(<<d, client[d].try>>, client[d].r, code)]
       /\ Writes(d, [typ |-> "pin", code |-> code])

PINReply(d) ==
  /\ client[d].at = "typed" /\ Reads(d, "pinReply") /\ reply[d].key = client[d].key
  /\ At(d, "asked")
  /\ \E r \in Requests : Writes(d, [typ |-> "pinConfirm", key |-> client[d].key, req |-> r])

Reply(d) ==
  /\ client[d].at = "asked" /\ Reads(d, "reply") /\ reply[d].key = client[d].key
  /\ client' = [client EXCEPT ![d].at = CASE reply[d].outcome = "responder" -> "join"
                                          [] reply[d].outcome = "initiator" -> "create"
                                          [] OTHER -> "failed",
                              ![d].outcome = reply[d].outcome]
  /\ auth' = IF reply[d].outcome = "initiator" THEN auth \cup {[on |-> d, of |-> Self]} ELSE auth
  /\ UNCHANGED <<obj, conns, pinConn, pins, own, call, tableMu, reply, taken, lost>>

\* Network, once it is created.
Network(d) ==
  /\ client[d].at = "create"
  /\ At(d, "given")
  /\ Writes(d, [typ |-> "network", key |-> client[d].key])

Ack(d) ==
  /\ client[d].at = "given" /\ Reads(d, "ack") /\ reply[d].key = client[d].key
  /\ At(d, "done")
  /\ Only

\* Refused, or what is read is not what was asked for.
Wanted(d) ==
  CASE client[d].at = "hello" -> Reads(d, "helloReply")
    [] client[d].at = "wanted" -> Reads(d, "pinReady")
    [] client[d].at = "typed" -> Reads(d, "pinReply") /\ reply[d].key = client[d].key
    [] client[d].at = "asked" -> Reads(d, "reply") /\ reply[d].key = client[d].key
    [] client[d].at = "given" -> Reads(d, "ack") /\ reply[d].key = client[d].key
    [] OTHER -> TRUE
IsRefused(d) ==
  /\ reply[d] # Nothing /\ ~Wanted(d)
  /\ At(d, "failed")
  /\ Only

\* The connection is lost: the exchange fails; this side's platform may see it.
LinkLost(d) ==
  /\ client[d].at \notin {"idle", "failed", "join", "done"} /\ lost < Losses
  /\ At(d, "failed")
  /\ lost' = lost + 1
  /\ reply' = [reply EXCEPT ![d] = Nothing]
  /\ \/ /\ Free # {}
        /\ call' = [call EXCEPT ![Slot] = [NoCall EXCEPT !.kind = "close", !.dev = d]]
     \/ UNCHANGED call
  /\ UNCHANGED <<obj, conns, pinConn, pins, own, tableMu, auth, taken>>

\* Mutant: the key stays accepted.
TakeKeeps(on, of) == auth' = auth
\* pair_ble, on the network: the creator takes the key, once.
Take(on, of) == auth' = auth \ {[on |-> on, of |-> of]}
Join(d) ==
  /\ client[d].at = "join" /\ [on |-> Self, of |-> d] \in auth /\ taken[d] < MaxTries
  /\ Take(Self, d)
  /\ taken' = [taken EXCEPT ![d] = @ + 1]
  /\ UNCHANGED <<obj, conns, pinConn, pins, own, call, tableMu, client, reply, lost>>
JoinTheirs(o) ==
  /\ obj[o].join /\ [on |-> obj[o].dev, of |-> Self] \in auth
  /\ Take(obj[o].dev, Self)
  /\ obj' = [obj EXCEPT ![o].join = FALSE]
  /\ UNCHANGED <<conns, pinConn, pins, own, call, tableMu, client, reply, taken, lost>>

-----------------------------------------------------------------------------
BLEInit ==
  /\ obj = [o \in Objs |-> NewObj]
  /\ conns = [d \in Devices |-> 0]
  /\ pinConn = 0
  /\ pins = <<>>
  /\ own \in Own
  /\ call = [k \in Ks |-> NoCall]
  /\ tableMu = 0
  /\ auth = {}
  /\ client = [d \in Devices |-> NewClient]
  /\ reply = [d \in Devices |-> Nothing]
  /\ taken = [d \in Devices |-> 0]
  /\ lost = 0

Calls(k) ==
  \/ Message(k) \/ Lock(k) \/ Receive(k) \/ OwnBands(k) \/ Drop(k) \/ Dropped(k) \/ Return(k) \/ AnswerStarts(k) \/ Answer(k)

Touches(d) ==
  \/ Hello(d) \/ Recognize(d) \/ AskTrusted(d) \/ PINWanted(d) \/ PINReady(d) \/ TypePIN(d) \/ PINReply(d)
  \/ Reply(d) \/ Network(d) \/ Ack(d) \/ IsRefused(d) \/ LinkLost(d) \/ Join(d) \/ Evict(d)

BLENext ==
  \/ PINExpires \/ RefusePIN
  \/ \E k \in Ks : Calls(k)
  \/ \E d \in Devices : Touches(d)
  \/ \E o \in Objs : GrowsLate(o) \/ JoinTheirs(o)

BLESpec == BLEInit /\ [][BLENext]_bleVars

-----------------------------------------------------------------------------
(* An attempt on the PIN that was begun belongs to a connection of the     *)
(* table: what ends that connection counts it (PAIR-04).                   *)
AttemptsAreHeld ==
  \A o \in Objs : obj[o].attempt => o \in {conns[d] : d \in Devices}

(* A PIN pairs one device (PAIR-02), whoever else had it on screen and an  *)
(* attempt under way on it.                                                *)
OnePeerPerPIN == \A p \in DOMAIN pins : pins[p].paired <= 1

(* A device accepts on its network, once for each exchange, who it told by *)
(* BLE to come (BLE-10).                                                   *)
AcceptedWereTold ==
  \A d \in Devices :
    taken[d] <= Cardinality({o \in Objs : obj[o].dev = d /\ obj[o].outcome = "responder"
                                          /\ obj[o].stage \in {"done", "closed"}})
=============================================================================
