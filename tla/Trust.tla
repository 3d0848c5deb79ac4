-------------------------------- MODULE Trust --------------------------------
(***************************************************************************)
(* Mutual trust between devices: the lists of pkg/identity, the            *)
(* negotiation of pkg/pairing/mutual.go in each session, and what          *)
(* pkg/api/trust.go and acceptPairing do to both.                          *)
(*                                                                         *)
(* A session is opened by a code (a PIN or a QR code) or, between devices  *)
(* that are in each other's list, without one.  Inside it one side offers, *)
(* the other's user answers, the offerer writes the other's key and sends  *)
(* trust_commit, the other writes as it receives it.  Each side reads the  *)
(* messages of a session in a goroutine of its own, which looks up the     *)
(* active session and its talk once it has a message: by then another      *)
(* session may be the active one.                                          *)
(*                                                                         *)
(* A list is saved whole, atomically, under its mutex: the file is the     *)
(* list, and a failed save leaves both as they were.  Names and addresses  *)
(* are left out, but not the writes they cause (touchTrust); so is what    *)
(* the users are told.  60 s (TrustAnswerTime) pass when Expire says so.   *)
(* A daemon that stops loses its sessions and keeps its list: a Cut.       *)
(***************************************************************************)
EXTENDS Naturals, Sequences, FiniteSets

CONSTANTS
  Devices,      \* their fingerprints: numbers, compared by keepTagKey
  Dialers,      \* the devices whose user pairs
  Codes,        \* how: TRUE by a PIN or a QR code, FALSE without one
  MaxSessions,  \* bound
  MaxOffers,    \* bound: trust_offer messages; each may draw one key
  Forgets,      \* bound: devices forgotten by their users
  Faults,       \* "cut": a connection dies; "touch": the two halves of touchTrust apart;
                \* "save": a save fails
  MaxFaults     \* bound, "touch" apart

ASSUME DevicesAssumption == Devices \subseteq Nat \ {0} /\ Dialers \subseteq Devices
ASSUME CodesAssumption == Codes \subseteq BOOLEAN
ASSUME BoundsAssumption == MaxSessions \in Nat /\ MaxOffers \in Nat /\ Forgets \in Nat /\ MaxFaults \in Nat

VARIABLES
  list,      \* per device and other one: its entry (TrustStore.peers, and its file)
  active,    \* per device: activeSession, 0 for none
  talk,      \* per device: trustTalk, that of the last session started
  sess,      \* the sessions, in the order they were asked for
  wire,      \* per session and device: the messages it has not read
  hand,      \* per session and device: the message its goroutine handles
  offers,    \* how many offers were made
  said,      \* per device: to whom its user said yes since it last forgot them
  ever,      \* per device: to whom its user ever said yes
  owed,      \* the keys drawn whose trust_commit the peer has not written, in its session
  spoilt,    \* the entries touchTrust wrote over a newer one, or over none
  astray,    \* <<d, q, r>>: d wrote its entry of q on a message from r of a session replaced
  count      \* how many of Forgets and of MaxFaults there were

trustVars == <<list, active, talk, sess, wire, hand, offers, said, ever, owed, spoilt, astray, count>>
ghosts == <<said, ever, owed, spoilt, astray>>

NoKey == [n |-> 0, by |-> 0]
NoEntry == [in |-> FALSE, key |-> NoKey]
NewTalk(q) == [peer |-> q, offered |-> 0, asked |-> FALSE, accepted |-> FALSE, key |-> NoKey]
Idle == [at |-> "idle", type |-> "none", key |-> NoKey, on |-> 0]
Msg(type, key) == [type |-> type, key |-> key]

Sessions == 1 .. Len(sess)
Other(s, d) == IF sess[s].from = d THEN sess[s].to ELSE sess[s].from
Trusts(d, q) == list[d][q].in
Fault(f) == f \in Faults /\ count.faults < MaxFaults
Spent == [count EXCEPT !.faults = @ + 1]

\* Channel.Send by d: what the other end can no longer read is lost.
Sent(w, d, s, m) ==
  IF sess[s].cut \/ sess[s].end[Other(s, d)] = "off" \/ sess[s].end[d] # "on" THEN w
  ELSE [w EXCEPT ![s][Other(s, d)] = Append(@, m)]

\* TrustStore.Add and Forget: saved, or the list stays what it was.
Saves == IF Fault("save") THEN {TRUE, FALSE} ELSE {TRUE}
Counted(ok) == IF ok THEN count ELSE Spent

-----------------------------------------------------------------------------
(* Opening a session.  end: where each side is; snap: the entry touchTrust *)
(* read; code: a request with a code, not yet answered.                    *)

Asked(d, q, code) ==
  [from |-> d, to |-> q, code |-> code, cut |-> FALSE,
   end |-> [e \in Devices |-> IF e = d THEN "asking" ELSE "no"], snap |-> [e \in Devices |-> NoEntry]]

\* pairWith, up to its pair_request: without a code, only a device of the list.
Dial(d, q, code) ==
  /\ d # q /\ Len(sess) < MaxSessions
  /\ code \/ Trusts(d, q)
  /\ sess' = Append(sess, Asked(d, q, code))
  /\ UNCHANGED <<list, active, talk, wire, hand, offers, ghosts, count>>

\* touchTrust reads the entry; it writes it only if the name or address is new.
Seen(d, q) == {NoEntry} \cup (IF "touch" \in Faults THEN {list[d][q]} ELSE {})

\* acceptPairing, admitIncoming: a request without a code declares that its sender
\* has this device in its list.
Admit(s) ==
  LET q == sess[s].to IN
  /\ sess[s].end[q] = "no" /\ sess[s].end[sess[s].from] = "asking" /\ ~sess[s].cut
  /\ IF sess[s].code \/ (Trusts(q, sess[s].from))
     THEN \E e \in Seen(q, sess[s].from) : sess' = [sess EXCEPT ![s].end[q] = "touch", ![s].snap[q] = e, ![s].code = FALSE]
     ELSE sess' = [sess EXCEPT ![s].end = [e \in Devices |-> "off"]]
  /\ UNCHANGED <<list, active, talk, wire, hand, offers, ghosts, count>>

\* finishOutgoing: the other side sent pair_accept.
Accepted(s) ==
  LET d == sess[s].from IN
  /\ sess[s].end[d] = "asking" /\ sess[s].end[sess[s].to] \in {"touched", "on"} /\ ~sess[s].cut
  /\ \E e \in Seen(d, sess[s].to) : sess' = [sess EXCEPT ![s].end[d] = "touch", ![s].snap[d] = e]
  /\ UNCHANGED <<list, active, talk, wire, hand, offers, ghosts, count>>

\* touchTrust's second half writes the entry it read.
Touched(d, q, e) == IF e.in THEN [list EXCEPT ![d][q] = e] ELSE list

\* The second half: then the one who was asked sends pair_accept.
Touch(d, s) ==
  LET q == Other(s, d)
      snap == sess[s].snap[d]
  IN /\ sess[s].end[d] = "touch"
     /\ list' = Touched(d, q, snap)
     /\ spoilt' = IF snap.in /\ snap # list[d][q] THEN spoilt \cup {<<d, q>>} ELSE spoilt
     /\ sess' = [sess EXCEPT ![s].end[d] = "touched", ![s].snap[d] = NoEntry]
     /\ UNCHANGED <<active, talk, wire, hand, offers, said, ever, owed, astray, count>>

\* startSession: the session replaces the active one, and has a talk of its own.
Start(d, s) ==
  LET q == Other(s, d)
      old == active[d]
      replaced == old # 0 /\ old # s
  IN /\ sess[s].end[d] = "touched"
     /\ LET on == [sess EXCEPT ![s].end[d] = "on"]
        IN sess' = IF replaced THEN [on EXCEPT ![old].end[d] = "off"] ELSE on
     /\ wire' = IF replaced THEN [wire EXCEPT ![old][d] = <<>>] ELSE wire
     /\ active' = [active EXCEPT ![d] = s]
     /\ talk' = [talk EXCEPT ![d] = NewTalk(q)]
     /\ UNCHANGED <<list, hand, offers, ghosts, count>>

\* A pair_request whose answer cannot come any more.
DialFails(s) ==
  LET d == sess[s].from IN
  /\ sess[s].end[d] = "asking" /\ (sess[s].cut \/ sess[s].end[sess[s].to] = "off")
  /\ sess' = [sess EXCEPT ![s].end[d] = "off"]
  /\ UNCHANGED <<list, active, talk, wire, hand, offers, ghosts, count>>

-----------------------------------------------------------------------------
(* Offering, and answering: the user's part.                                *)

\* offerTrust: the user's, or startSession's once s.mu is free again.
Offer(d) ==
  LET s == active[d]
      n == offers + 1
  IN /\ s # 0 /\ n <= MaxOffers
     /\ offers' = n
     /\ talk' = [talk EXCEPT ![d].offered = n]
     /\ said' = [said EXCEPT ![d] = @ \cup {talk[d].peer}]
     /\ ever' = [ever EXCEPT ![d] = @ \cup {talk[d].peer}]
     /\ wire' = Sent(wire, d, s, Msg("offer", NoKey))
     /\ UNCHANGED <<list, active, sess, hand, owed, spoilt, astray, count>>

\* TrustTalk.live: 60 s after an offer, a question or a yes.
Expire(d) ==
  /\ \/ talk[d].offered # 0 /\ talk' = [talk EXCEPT ![d].offered = 0]
     \/ talk[d].asked /\ talk' = [talk EXCEPT ![d].asked = FALSE]
     \/ talk[d].accepted /\ talk' = [talk EXCEPT ![d].accepted = FALSE]
  /\ UNCHANGED <<list, active, sess, wire, hand, offers, ghosts, count>>

\* handleTrustAnswer and Answer.
AnswerTrust(d, yes) ==
  LET q == talk[d].peer IN
  /\ active[d] # 0 /\ talk[d].asked
  /\ talk' = [talk EXCEPT ![d].asked = FALSE, ![d].accepted = @ \/ yes]
  /\ said' = [said EXCEPT ![d] = IF yes THEN @ \cup {q} ELSE @]
  /\ ever' = [ever EXCEPT ![d] = IF yes THEN @ \cup {q} ELSE @]
  /\ wire' = Sent(wire, d, active[d], Msg(IF yes THEN "accept" ELSE "decline", NoKey))
  /\ UNCHANGED <<list, active, sess, hand, offers, owed, spoilt, astray, count>>

\* handleTrustForget.  A yes the peer has not answered stands: the negotiation goes on.
Standing(d, q) == talk[d].peer = q /\ active[d] # 0 /\ (talk[d].offered # 0 \/ talk[d].accepted)

Forget(d, q) ==
  /\ Trusts(d, q) /\ count.forgets < Forgets
  /\ \E ok \in Saves :
       /\ list' = IF ok THEN [list EXCEPT ![d][q] = NoEntry] ELSE list
       /\ said' = IF ok /\ ~Standing(d, q) THEN [said EXCEPT ![d] = @ \ {q}] ELSE said
       /\ spoilt' = IF ok THEN spoilt \ {<<d, q>>} ELSE spoilt
       /\ count' = [Counted(ok) EXCEPT !.forgets = @ + 1]
  /\ UNCHANGED <<active, talk, sess, wire, hand, offers, ever, owed, astray>>

-----------------------------------------------------------------------------
(* A message of the negotiation: listenToSession, handleTrustMessage.       *)

Reads(d, s) ==
  /\ sess[s].end[d] = "on" /\ hand[s][d].at = "idle" /\ wire[s][d] # <<>>
  /\ hand' = [hand EXCEPT ![s][d] = [Idle EXCEPT !.at = "read", !.type = Head(wire[s][d]).type, !.key = Head(wire[s][d]).key]]
  /\ wire' = [wire EXCEPT ![s][d] = Tail(@)]
  /\ UNCHANGED <<list, active, talk, sess, offers, ghosts, count>>

\* Mutant: a trust_commit is written whatever this side's user said.
SaidYesUnasked(t) == TRUE
\* Handle writes nothing on a trust_commit without this side's own yes.
SaidYes(t) == t.accepted

\* Mutant: the key kept is the last one seen.
KeptLast(t, key) == key
\* keepTagKey: the key of the smaller fingerprint, the first drawn by it.
KeptTagKey(t, key) == IF t.key = NoKey \/ key.by < t.key.by THEN key ELSE t.key

\* The reply goes on the session that was active.
Replying(d, reply, key) ==
  IF reply = "none" THEN Idle ELSE [at |-> "reply", type |-> reply, key |-> key, on |-> active[d]]

\* The entry is written with the key kept; then the reply, trust_commit, is to be sent.
Writes(d, s, t, reply, key) ==
  \E ok \in Saves :
    LET q == talk[d].peer
    IN /\ list' = IF ok THEN [list EXCEPT ![d][q] = [in |-> TRUE, key |-> t.key]] ELSE list
       /\ talk' = [talk EXCEPT ![d] = t]
       /\ hand' = [hand EXCEPT ![s][d] = IF ok THEN Replying(d, reply, key) ELSE Idle]
       /\ owed' = IF reply = "commit" THEN owed \cup {key} ELSE IF ok /\ s = active[d] THEN owed \ {key} ELSE owed
       /\ spoilt' = IF ok THEN spoilt \ {<<d, q>>} ELSE spoilt
       /\ astray' = IF ok /\ s # active[d] THEN astray \cup {<<d, q, Other(s, d)>>} ELSE astray
       /\ count' = Counted(ok)

\* Nothing is written: the talk changes, a reply may follow.
Says(d, s, t, reply) ==
  /\ talk' = [talk EXCEPT ![d] = t]
  /\ hand' = [hand EXCEPT ![s][d] = Replying(d, reply, NoKey)]
  /\ UNCHANGED <<list, owed, spoilt, astray, count>>

\* TrustTalk.Handle, of the talk of the session that is active now.
Handle(d, s) ==
  LET m == hand[s][d]
      t == talk[d]
      own == [n |-> t.offered, by |-> d]
  IN /\ m.at = "read"
     /\ IF active[d] = 0 THEN Says(d, s, t, "none")
        ELSE CASE m.type = "offer" /\ t.offered # 0 -> Says(d, s, [t EXCEPT !.accepted = TRUE], "accept")
               [] m.type = "offer" /\ t.offered = 0 -> Says(d, s, [t EXCEPT !.asked = TRUE], "none")
               [] m.type = "accept" /\ t.offered # 0 ->
                    Writes(d, s, [t EXCEPT !.offered = 0, !.key = KeptTagKey(t, own)], "commit", own)
               [] m.type = "decline" /\ t.offered # 0 -> Says(d, s, [t EXCEPT !.offered = 0], "none")
               [] m.type = "commit" /\ SaidYes(t) ->
                    Writes(d, s, [t EXCEPT !.accepted = FALSE, !.key = KeptTagKey(t, m.key)], "none", m.key)
               [] OTHER -> Says(d, s, t, "none")
     /\ UNCHANGED <<active, sess, wire, offers, said, ever>>

\* handleTrustMessage's end: the reply is sent.
Reply(d, s) ==
  LET m == hand[s][d] IN
  /\ m.at = "reply"
  /\ wire' = Sent(wire, d, m.on, Msg(m.type, m.key))
  /\ hand' = [hand EXCEPT ![s][d] = Idle]
  /\ UNCHANGED <<list, active, talk, sess, offers, ghosts, count>>

-----------------------------------------------------------------------------
(* What is lost.                                                            *)

\* listenToSession's end: the connection is dead, or the other side closed it.
LostEnd(d, s) ==
  /\ sess[s].end[d] = "on" /\ hand[s][d].at = "idle" /\ wire[s][d] = <<>>
  /\ sess[s].cut \/ sess[s].end[Other(s, d)] = "off"
  /\ sess' = [sess EXCEPT ![s].end[d] = "off"]
  /\ active' = [active EXCEPT ![d] = IF @ = s THEN 0 ELSE @]
  /\ UNCHANGED <<list, talk, wire, hand, offers, ghosts, count>>

Cut(s) ==
  /\ Fault("cut") /\ ~sess[s].cut
  /\ \E d \in Devices : sess[s].end[d] # "off"
  /\ sess' = [sess EXCEPT ![s].cut = TRUE]
  /\ wire' = [wire EXCEPT ![s] = [d \in Devices |-> <<>>]]
  /\ count' = Spent
  /\ UNCHANGED <<list, active, talk, hand, offers, ghosts>>

-----------------------------------------------------------------------------
\* Strangers, or devices of mutual trust.
TrustInit ==
  /\ \E both \in BOOLEAN :
       /\ list = [d \in Devices |-> [q \in Devices |->
                   IF both /\ d # q THEN [in |-> TRUE, key |-> [n |-> 0, by |-> d + q]] ELSE NoEntry]]
       /\ said = [d \in Devices |-> IF both THEN Devices \ {d} ELSE {}]
  /\ ever = said
  /\ active = [d \in Devices |-> 0]
  /\ talk = [d \in Devices |-> NewTalk(0)]
  /\ sess = <<>>
  /\ wire = [s \in 1 .. MaxSessions |-> [d \in Devices |-> <<>>]]
  /\ hand = [s \in 1 .. MaxSessions |-> [d \in Devices |-> Idle]]
  /\ offers = 0
  /\ owed = {}
  /\ spoilt = {}
  /\ astray = {}
  /\ count = [forgets |-> 0, faults |-> 0]

Opening ==
  \/ \E d \in Dialers, q \in Devices, code \in Codes : Dial(d, q, code)
  \/ \E s \in Sessions : Admit(s) \/ Accepted(s) \/ DialFails(s)
  \/ \E s \in Sessions : \E d \in {sess[s].from, sess[s].to} : Touch(d, s) \/ Start(d, s)

User(d) ==
  \/ Offer(d)
  \/ \E yes \in BOOLEAN : AnswerTrust(d, yes)
  \/ \E q \in Devices : Forget(d, q)

Talking(d, s) == Reads(d, s) \/ Handle(d, s) \/ Reply(d, s) \/ LostEnd(d, s)

TrustNext ==
  \/ Opening
  \/ \E d \in Devices : User(d) \/ Expire(d)
  \/ \E s \in Sessions : Cut(s) \/ \E d \in {sess[s].from, sess[s].to} : Talking(d, s)

TrustSpec == TrustInit /\ [][TrustNext]_trustVars

-----------------------------------------------------------------------------
(* The key of another device is kept only by both users' consent: this     *)
(* one's, given since it last forgot that device or still waiting for its  *)
(* answer then, and once the other's (PAIR-08, PAIR-10).  Two races of the *)
(* code make exceptions: touchTrust had the entry in hand when it was      *)
(* forgotten; a third device's answer, read in a session replaced since,   *)
(* was taken for an answer in the session that replaced it.                *)
ListIsAgreed ==
  \A d, q \in Devices :
    Trusts(d, q) => /\ q \in said[d] \/ <<d, q>> \in spoilt
                    /\ d \in ever[q] \/ \E r \in Devices \ {q} : <<d, q, r>> \in astray

(* Two devices in each other's list have one recognition key (DISC-11),    *)
(* both offers or not, unless a trust_commit was not written by the device *)
(* it was for, or touchTrust wrote over the entry, or one of them wrote it *)
(* in another session than the message's.                                  *)
OneKey ==
  \A d, q \in Devices :
    /\ Trusts(d, q) /\ Trusts(q, d)
    /\ owed = {} /\ {<<d, q>>, <<q, d>>} \cap spoilt = {}
    /\ \A r \in Devices : <<d, q, r>> \notin astray /\ <<q, d, r>> \notin astray
    => list[d][q].key = list[q][d].key
=============================================================================
