---------------------------- MODULE SessionsProofs ---------------------------
(***************************************************************************)
(* Whatever the order in which sessions are asked for, replaced, lost and  *)
(* dialed again, a daemon that reconnects is timed, and a redial that was  *)
(* ended before its check opens nothing.                                   *)
(*                                                                         *)
(* That the redial yields is not inductive: ended says where the redial    *)
(* was, and says nothing of the attempts it made.  Attempts says where the *)
(* redial is for each connection it asked for, and EndedFirst that the one *)
(* ended while it waited has only refused ones, and will have no other.    *)
(***************************************************************************)
EXTENDS Sessions, SequenceTheorems, TLAPS

USE PeersAssumption, BoundAssumption

Connections ==
  [peer : Peers, dialed : BOOLEAN, by : 0 .. MaxSessions, st : {"asked", "on", "refused", "closed"},
   link : {"up", "dead", "closed"}, inbox : {"none", "disconnect", "pair_reject"},
   reader : {"none", "reads", "done", "disconnect", "pair_reject"}, note : BOOLEAN]

Timers == [1 .. MaxSessions -> {"none", "set", "fired"}]
Redial == [1 .. MaxSessions -> {"none", "waits", "clear", "asked", "over", "refused", "gave up"}]
Ended == [1 .. MaxSessions -> {"no", "none", "waits", "clear", "asked", "over", "refused", "gave up"}]

TypeOK ==
  /\ sess \in Seq(Connections) /\ Len(sess) <= MaxSessions
  /\ active \in 0 .. MaxSessions
  /\ reconnecting \in BOOLEAN
  /\ grace \in 0 .. MaxSessions
  /\ timer \in Timers
  /\ trustPeer \in Peers \cup {None} /\ redialTo \in Peers \cup {None}
  /\ redialCancel \in 0 .. MaxSessions
  /\ redial \in Redial
  /\ live \subseteq 1 .. MaxSessions
  /\ reach \subseteq Peers
  /\ ended \in Ended
  /\ stopped \in BOOLEAN
  /\ acts \in Nat

ActiveIsOn == active # 0 => active \in Ids /\ sess[active].st = "on"
Readers == \A i \in Ids : sess[i].reader # "none" => sess[i].st \in {"on", "closed"}

\* A session is lost once, and only then dialed again.
OncePerLoss == \A i \in 1 .. MaxSessions : redial[i] # "none" => i \in Ids /\ sess[i].reader = "done"

\* What a redial asked for: refused, or being asked for, or the session it had.
Latest(i) == \A j \in Ids : sess[j].by = sess[i].by => j <= i
Attempts ==
  \A i \in Ids : sess[i].by # 0 =>
    \/ sess[i].st = "refused"
    \/ redial[sess[i].by] = "asked" /\ Latest(i)
    \/ redial[sess[i].by] = "over" /\ sess[i].st # "asked"

EndedFirst ==
  \A k \in 1 .. MaxSessions : ended[k] = "waits" =>
    /\ k \notin live /\ redial[k] \in {"waits", "over", "gave up"}
    /\ \A i \in Ids : sess[i].by = k => sess[i].st = "refused"

IInv == TypeOK /\ ActiveIsOn /\ Readers /\ OncePerLoss /\ Attempts /\ EndedFirst /\ GraceIsTimed

-----------------------------------------------------------------------------
(* How the connections change.                                              *)
LEMMA SeqChanges ==
  ASSUME NEW S, NEW s \in Seq(S), NEW f \in [1 .. Len(s) -> S]
  PROVE  f \in Seq(S) /\ Len(f) = Len(s)
<1>1. f \in Seq(S)
  BY SeqDef, LenProperties
<1>2. DOMAIN f = 1 .. Len(f) /\ Len(f) \in Nat /\ Len(s) \in Nat
  BY <1>1, LenProperties
<1> QED
  BY <1>1, <1>2

LEMMA OneChanges ==
  ASSUME NEW S, NEW s \in Seq(S), NEW i \in 1 .. Len(s), NEW r \in S
  PROVE  /\ [s EXCEPT ![i] = r] \in Seq(S) /\ Len([s EXCEPT ![i] = r]) = Len(s)
         /\ \A k \in 1 .. Len(s) : [s EXCEPT ![i] = r][k] = IF k = i THEN r ELSE s[k]
<1>1. s \in [1 .. Len(s) -> S] /\ DOMAIN s = 1 .. Len(s)
  BY LenProperties
<1>2. [s EXCEPT ![i] = r] \in [1 .. Len(s) -> S]
  BY <1>1
<1> QED
  BY <1>1, <1>2, SeqChanges

LEMMA Kinds ==
  ASSUME TypeOK
  PROVE  /\ Len(sess) \in Nat /\ \A i \in Ids : i \in 1 .. MaxSessions /\ i # 0 /\ sess[i] \in Connections
         /\ \A i \in Ids : /\ sess[i].by \in 0 .. MaxSessions
                           /\ sess[i].by # 0 => sess[i].by \in 1 .. MaxSessions
<1>1. sess \in Seq(Connections) /\ Len(sess) \in Nat /\ sess \in [1 .. Len(sess) -> Connections] /\ Len(sess) <= MaxSessions
  BY LenProperties DEF TypeOK
<1> QED
  BY <1>1 DEF Ids, Connections

\* The same connections, by the same.
Keeps ==
  /\ sess' \in Seq(Connections) /\ Len(sess') = Len(sess)
  /\ \A k \in Ids : sess'[k].by = sess[k].by

\* A step that takes no redial further.
LEMMA Along ==
  ASSUME IInv, TypeOK', Keeps, redial' = redial, live' \subseteq live,
         \A k \in 1 .. MaxSessions : ended'[k] = "waits" => ended[k] = "waits" \/ (redial[k] = "waits" /\ k \notin live'),
         \A k \in Ids : /\ sess[k].st = "refused" => sess'[k].st = "refused"
                        /\ sess'[k].st = "asked" => sess[k].st = "asked"
                        /\ sess'[k].reader # "none" => sess'[k].st \in {"on", "closed"}
                        /\ sess[k].reader = "done" => sess'[k].reader = "done",
         ActiveIsOn', GraceIsTimed'
  PROVE  IInv'
<1>1. Ids' = Ids
  BY DEF Keeps, Ids
<1>2. Readers' /\ OncePerLoss'
  BY <1>1 DEF IInv, Readers, OncePerLoss
<1>3. Attempts'
  BY <1>1 DEF IInv, Attempts, Latest, Keeps
<1>4. EndedFirst'
  <2> SUFFICES ASSUME NEW k \in 1 .. MaxSessions, ended'[k] = "waits"
               PROVE  /\ k \notin live' /\ redial'[k] \in {"waits", "over", "gave up"}
                      /\ \A i \in Ids' : sess'[i].by = k => sess'[i].st = "refused"
    BY DEF EndedFirst
  <2>1. CASE ended[k] = "waits"
    <3>1. /\ k \notin live /\ redial[k] \in {"waits", "over", "gave up"}
          /\ \A i \in Ids : sess[i].by = k => sess[i].st = "refused"
      BY <2>1 DEF IInv, EndedFirst
    <3> QED
      BY <1>1, <3>1 DEF Keeps
  <2>2. CASE redial[k] = "waits" /\ k \notin live'
    <3>1. \A i \in Ids : sess[i].by = k => sess[i].st = "refused"
      <4>1. k # 0
        OBVIOUS
      <4> QED
        BY <2>2, <4>1 DEF IInv, Attempts
    <3> QED
      BY <1>1, <2>2, <3>1 DEF Keeps
  <2> QED
    BY <2>1, <2>2
<1> QED
  BY <1>2, <1>3, <1>4 DEF IInv

\* ... and one that changes one connection.
LEMMA Change ==
  ASSUME TypeOK, NEW i \in Ids, NEW r \in Connections, r.by = sess[i].by, sess' = [sess EXCEPT ![i] = r]
  PROVE  Keeps /\ Len(sess') <= MaxSessions /\ \A k \in Ids : sess'[k] = IF k = i THEN r ELSE sess[k]
<1>1. sess \in Seq(Connections) /\ Len(sess) <= MaxSessions
  BY DEF TypeOK
<1> QED
  BY <1>1, OneChanges DEF Ids, Keeps

LEMMA Closes ==
  ASSUME IInv
  PROVE  /\ Closed(sess, active) \in Seq(Connections) /\ Len(Closed(sess, active)) = Len(sess)
         /\ \A k \in Ids : Closed(sess, active)[k] = IF k = active THEN [sess[k] EXCEPT !.st = "closed"] ELSE sess[k]
<1>1. sess \in Seq(Connections) /\ active \in 0 .. MaxSessions
  BY DEF IInv, TypeOK
<1>2. CASE active = 0
  BY <1>1, <1>2, Kinds DEF Closed, IInv
<1>3. CASE active # 0
  <2> DEFINE r == [sess[active] EXCEPT !.st = "closed"]
  <2>1. active \in Ids
    BY <1>3, Kinds DEF IInv, ActiveIsOn
  <2>2. r \in Connections
    BY <2>1, Kinds DEF IInv, Connections
  <2>3. Closed(sess, active) = [sess EXCEPT ![active] = r]
    BY <1>3 DEF Closed
  <2> HIDE DEF r
  <2>4. Closed(sess, active) \in Seq(Connections) /\ Len(Closed(sess, active)) = Len(sess)
        /\ \A k \in Ids : Closed(sess, active)[k] = IF k = active THEN r ELSE sess[k]
    BY <1>1, <2>1, <2>2, <2>3, OneChanges DEF Ids
  <2> QED
    BY <2>4 DEF r
<1> QED
  BY <1>2, <1>3

LEMMA Stops ==
  ASSUME IInv, NEW by \in 0 .. MaxSessions, StopRedial(by)
  PROVE  /\ redialTo' \in Peers \cup {None} /\ redialCancel' \in 0 .. MaxSessions /\ ended' \in Ended /\ live' \subseteq live
         /\ \A k \in 1 .. MaxSessions : ended'[k] = "waits" => ended[k] = "waits" \/ (redial[k] = "waits" /\ k \notin live')
<1>1. ended \in Ended /\ redial \in Redial /\ redialCancel \in 0 .. MaxSessions
  BY DEF IInv, TypeOK
<1>2. redialTo' \in Peers \cup {None} /\ redialCancel' \in 0 .. MaxSessions /\ live' \subseteq live
  BY DEF StopRedial
<1>3. CASE redialCancel \in {0, by}
  BY <1>1, <1>2, <1>3 DEF StopRedial
<1>4. CASE redialCancel \notin {0, by}
  <2>1. ended' = [ended EXCEPT ![redialCancel] = redial[redialCancel]] /\ redialCancel \in 1 .. MaxSessions
    BY <1>1, <1>4 DEF StopRedial
  <2>2. redialCancel \notin live'
    BY DEF StopRedial
  <2>3. ended' \in Ended
    BY <1>1, <2>1 DEF Ended, Redial
  <2> QED
    BY <1>1, <1>2, <2>1, <2>2, <2>3 DEF Ended
<1> QED
  BY <1>3, <1>4

LEMMA StopsTimer ==
  ASSUME IInv
  PROVE  StoppedTimer \in Timers
<1>1. timer \in Timers /\ grace \in 0 .. MaxSessions
  BY DEF IInv, TypeOK
<1> QED
  BY <1>1 DEF StoppedTimer, Timers

-----------------------------------------------------------------------------
(* Steps that take no redial further.                                       *)

\* What a step leaves of the types.
LEMMA TypesOf ==
  ASSUME IInv, Keeps, redial' = redial, trustPeer' \in Peers \cup {None}, reach' \subseteq Peers, stopped' \in BOOLEAN,
         acts' \in Nat, active' \in 0 .. MaxSessions, reconnecting' \in BOOLEAN, grace' \in 0 .. MaxSessions,
         timer' \in Timers, redialTo' \in Peers \cup {None}, redialCancel' \in 0 .. MaxSessions,
         live' \subseteq live, ended' \in Ended
  PROVE  TypeOK'
BY DEF IInv, TypeOK, Keeps

\* The session is left: nothing is active, nothing reconnects.
LEMMA Leaves ==
  ASSUME IInv, StopRedial(0), active' = 0,
         StopGrace \/ UNCHANGED loss,
         NEW i,
         \/ sess' = Closed(sess, active)
         \/ /\ i \in Ids /\ sess[i].reader \notin {"none", "done"}
            /\ sess' = [Closed(sess, active) EXCEPT ![i].reader = "reads"],
         redial' = redial, trustPeer' = trustPeer, reach' = reach, stopped' \in BOOLEAN, acts' \in Nat
  PROVE  IInv'
<1> DEFINE ss == Closed(sess, active)  r == [ss[i] EXCEPT !.reader = "reads"]
<1>1. ss \in Seq(Connections) /\ Len(ss) = Len(sess)
      /\ \A k \in Ids : ss[k] = IF k = active THEN [sess[k] EXCEPT !.st = "closed"] ELSE sess[k]
  BY Closes
<1>2. /\ \A k \in Ids : k \in 1 .. MaxSessions /\ sess[k] \in Connections
      /\ Len(sess) <= MaxSessions
  BY Kinds DEF IInv, TypeOK
<1> HIDE DEF ss
<1>3. \A k \in Ids : /\ ss[k] \in Connections /\ ss[k].by = sess[k].by /\ ss[k].reader = sess[k].reader
                     /\ ss[k].st = IF k = active THEN "closed" ELSE sess[k].st
  <2> SUFFICES ASSUME NEW k \in Ids
               PROVE  /\ ss[k] \in Connections /\ ss[k].by = sess[k].by /\ ss[k].reader = sess[k].reader
                      /\ ss[k].st = IF k = active THEN "closed" ELSE sess[k].st
    OBVIOUS
  <2>1. sess[k] \in Connections
    BY <1>2
  <2>2. CASE k = active
    <3>1. ss[k] = [sess[k] EXCEPT !.st = "closed"]
      BY <1>1, <2>2
    <3> QED
      BY <2>1, <2>2, <3>1 DEF Connections
  <2>3. CASE k # active
    BY <1>1, <2>1, <2>3
  <2> QED
    BY <2>2, <2>3
<1>4. /\ sess' \in Seq(Connections) /\ Len(sess') = Len(sess)
      /\ \A k \in Ids : /\ sess'[k].by = sess[k].by
                        /\ sess'[k].st = IF k = active THEN "closed" ELSE sess[k].st
                        /\ sess'[k].reader = sess[k].reader \/ (sess[k].reader \notin {"none", "done"} /\ sess'[k].reader = "reads")
  <2>1. CASE sess' = ss
    BY <1>1, <1>3, <2>1
  <2>2. CASE i \in Ids /\ sess[i].reader \notin {"none", "done"} /\ sess' = [ss EXCEPT ![i].reader = "reads"]
    <3>1. sess' = [ss EXCEPT ![i] = r]
      BY <2>2
    <3>2. r \in Connections /\ r.by = ss[i].by /\ r.st = ss[i].st /\ r.reader = "reads"
      BY <1>3, <2>2 DEF Connections
    <3> HIDE DEF r
    <3>3. sess' \in Seq(Connections) /\ Len(sess') = Len(ss) /\ \A k \in Ids : sess'[k] = IF k = i THEN r ELSE ss[k]
      <4>1. i \in 1 .. Len(ss) /\ Ids = 1 .. Len(ss)
        BY <1>1, <2>2 DEF Ids
      <4> QED
        BY <1>1, <3>1, <3>2, <4>1, OneChanges
    <3> QED
      BY <1>1, <1>3, <2>2, <3>2, <3>3
  <2> QED
    BY <2>1, <2>2 DEF ss
<1>6. Keeps
  BY <1>4 DEF Keeps
<1>7. /\ redialTo' \in Peers \cup {None} /\ redialCancel' \in 0 .. MaxSessions /\ ended' \in Ended /\ live' \subseteq live
      /\ \A k \in 1 .. MaxSessions : ended'[k] = "waits" => ended[k] = "waits" \/ (redial[k] = "waits" /\ k \notin live')
  BY Stops
<1>8. reconnecting' \in BOOLEAN /\ grace' \in 0 .. MaxSessions /\ timer' \in Timers
  <2>1. CASE StopGrace
    <3>1. 0 \in 0 .. MaxSessions /\ FALSE \in BOOLEAN
      BY BoundAssumption
    <3> QED
      BY <2>1, <3>1, StopsTimer DEF StopGrace
  <2>2. CASE UNCHANGED loss
    <3>1. reconnecting \in BOOLEAN /\ grace \in 0 .. MaxSessions /\ timer \in Timers
      BY DEF IInv, TypeOK
    <3> QED
      BY <2>2, <3>1 DEF loss
  <2> QED
    BY <2>1, <2>2
<1>9. TypeOK'
  <2>1. trustPeer' \in Peers \cup {None} /\ reach' \subseteq Peers /\ active' \in 0 .. MaxSessions
    BY DEF IInv, TypeOK
  <2> QED
    BY <1>6, <1>7, <1>8, <2>1, TypesOf
<1>10. ActiveIsOn'
  BY DEF ActiveIsOn
<1>11. GraceIsTimed'
  <2>1. CASE StopGrace
    BY <2>1 DEF StopGrace, GraceIsTimed
  <2>2. CASE UNCHANGED loss
    BY <1>4, <2>2 DEF loss, GraceIsTimed, IInv, Ids
  <2> QED
    BY <2>1, <2>2
<1>12. active # 0 => active \in Ids /\ sess[active].st = "on"
  BY DEF IInv, ActiveIsOn
<1>14. \A k \in Ids : k # 0 /\ (sess[k].reader # "none" => sess[k].st \in {"on", "closed"})
  BY <1>2 DEF IInv, Readers
<1>13. ASSUME NEW k \in Ids
       PROVE  /\ sess[k].st = "refused" => sess'[k].st = "refused"
              /\ sess'[k].st = "asked" => sess[k].st = "asked"
              /\ sess'[k].reader # "none" => sess'[k].st \in {"on", "closed"}
              /\ sess[k].reader = "done" => sess'[k].reader = "done"
  <2>1. CASE k = active
    BY <1>4, <1>12, <1>14, <2>1
  <2>2. CASE k # active
    BY <1>4, <1>14, <2>2
  <2> QED
    BY <2>1, <2>2
<1> QED
  BY <1>6, <1>7, <1>9, <1>10, <1>11, <1>13, Along

\* One connection changes, and nothing else is done to any session.
LEMMA OneAlong ==
  ASSUME IInv, NEW i \in Ids, NEW r \in Connections, r.by = sess[i].by, sess' = [sess EXCEPT ![i] = r],
         sess[i].st = "refused" => r.st = "refused", r.st = "asked" => sess[i].st = "asked",
         r.reader # "none" => r.st \in {"on", "closed"}, sess[i].reader = "done" => r.reader = "done",
         active = i => r.st = "on",
         UNCHANGED <<active, loss, trustPeer, redialCancel, redial, live, ended, reach, stopped>>,
         redialTo' \in Peers \cup {None}, acts' \in Nat
  PROVE  IInv'
<1>1. Keeps /\ \A k \in Ids : sess'[k] = IF k = i THEN r ELSE sess[k]
  BY Change DEF IInv
<1>2. Ids' = Ids
  BY <1>1 DEF Keeps, Ids
<1>3. TypeOK'
  BY <1>1, TypesOf DEF IInv, TypeOK, loss
<1>4. ActiveIsOn'
  BY <1>1, <1>2 DEF IInv, ActiveIsOn
<1>5. GraceIsTimed'
  BY <1>2 DEF IInv, GraceIsTimed, loss
<1> QED
  BY <1>1, <1>3, <1>4, <1>5, Along DEF IInv, Readers

LEMMA Happened ==
  ASSUME IInv, NEW act, May(act)
  PROVE  acts' \in Nat
<1>1. acts \in Nat
  BY DEF IInv, TypeOK
<1>2. acts' = acts + 1
  BY DEF May
<1> QED
  BY <1>1, <1>2

LEMMA DisconnectStep ==
  ASSUME IInv, Disconnect \/ Stop
  PROVE  IInv'
<1>0. acts' \in Nat
  BY Happened DEF Disconnect, Stop
<1>1. stopped' \in BOOLEAN
  BY DEF Disconnect, Stop, IInv, TypeOK
<1>2. LeaveSession /\ sess' = Closed(sess, active) /\ redial' = redial /\ trustPeer' = trustPeer /\ reach' = reach
  BY DEF Disconnect, Stop
<1> QED
  BY <1>0, <1>1, <1>2, Leaves DEF LeaveSession

LEMMA LeftStep ==
  ASSUME IInv, NEW i \in Ids, Left(i) \/ Rejected(i)
  PROVE  IInv'
<1>0. acts \in Nat /\ stopped \in BOOLEAN
  BY DEF IInv, TypeOK
<1>1. acts' \in Nat /\ stopped' \in BOOLEAN /\ redial' = redial /\ trustPeer' = trustPeer /\ reach' = reach
  <2>1. UNCHANGED <<acts, stopped, redial, trustPeer, reach>>
    BY DEF Left, Rejected, loss
  <2> QED
    BY <1>0, <2>1
<1>2. StopRedial(0) /\ active' = 0 /\ (StopGrace \/ UNCHANGED loss)
  BY DEF Left, Rejected, LeaveSession
<1>3. sess[i].reader \notin {"none", "done"} /\ sess' = [Closed(sess, active) EXCEPT ![i].reader = "reads"]
  BY DEF Left, Rejected
<1> QED
  BY <1>1, <1>2, <1>3, Leaves

LEMMA FailsStep ==
  ASSUME IInv, NEW i \in Ids, Fails(i)
  PROVE  IInv'
<1> DEFINE r == [sess[i] EXCEPT !.st = "refused"]
<1>1. sess[i] \in Connections
  BY Kinds DEF IInv
<1>2. sess[i].st = "asked" /\ sess' = [sess EXCEPT ![i] = r]
  BY DEF Fails
<1>3. r \in Connections /\ r.by = sess[i].by /\ r.st = "refused" /\ r.reader = sess[i].reader
  BY <1>1 DEF Connections
<1>4. r.reader = "none" /\ active # i
  BY <1>2, <1>3, Kinds DEF IInv, Readers, ActiveIsOn
<1>5. UNCHANGED <<active, loss, trustPeer, redialCancel, redial, live, ended, reach, stopped>>
      /\ redialTo' \in Peers \cup {None} /\ acts' \in Nat
  BY DEF Fails, May, again, IInv, TypeOK
<1> HIDE DEF r
<1> QED
  BY <1>2, <1>3, <1>4, <1>5, OneAlong

LEMMA DialedForStep ==
  ASSUME IInv, NEW i \in Ids, DialedFor(i)
  PROVE  IInv'
<1> DEFINE r == [sess[i] EXCEPT !.note = FALSE]
<1>1. sess[i] \in Connections
  BY Kinds DEF IInv
<1>2. sess' = [sess EXCEPT ![i] = r]
  BY DEF DialedFor
<1>3. r \in Connections /\ r.by = sess[i].by /\ r.st = sess[i].st /\ r.reader = sess[i].reader /\ sess[i].peer \in Peers
  BY <1>1 DEF Connections
<1>5. UNCHANGED <<active, loss, trustPeer, redialCancel, redial, live, ended, reach, stopped>>
      /\ redialTo' \in Peers \cup {None} /\ acts' \in Nat
  BY <1>3 DEF DialedFor, IInv, TypeOK
<1>6. (active = i => r.st = "on") /\ (r.reader # "none" => r.st \in {"on", "closed"})
  BY <1>3, Kinds DEF IInv, ActiveIsOn, Readers
<1> HIDE DEF r
<1> QED
  BY <1>2, <1>3, <1>5, <1>6, OneAlong

LEMMA ReadStep ==
  ASSUME IInv, NEW i \in Ids, Read(i)
  PROVE  IInv'
<1> DEFINE r == [sess[i] EXCEPT !.reader = sess[i].inbox, !.inbox = "none"]
<1>1. sess[i] \in Connections
  BY Kinds DEF IInv
<1>2. sess' = [sess EXCEPT ![i] = r] /\ sess[i].reader = "reads"
  BY <1>1 DEF Read, Connections
<1>3. r \in Connections /\ r.by = sess[i].by /\ r.st = sess[i].st
  BY <1>1 DEF Connections
<1>4. sess[i].st \in {"on", "closed"}
  BY <1>2 DEF IInv, Readers
<1>5. UNCHANGED <<active, loss, trustPeer, redialCancel, redial, live, ended, reach, stopped>>
      /\ redialTo' \in Peers \cup {None} /\ acts' \in Nat
  BY DEF Read, again, IInv, TypeOK
<1> HIDE DEF r
<1>6. active = i => r.st = "on"
  BY <1>3, Kinds DEF IInv, ActiveIsOn
<1>7. r.st \in {"on", "closed"}
  BY <1>3, <1>4
<1> QED
  BY <1>2, <1>3, <1>5, <1>6, <1>7, OneAlong

LEMMA SendsStep ==
  ASSUME IInv, NEW i \in Ids, PeerLeaves(i) \/ PeerRejects(i)
  PROVE  IInv'
<1>0. PICK m \in {"disconnect", "pair_reject"} : Sends(i, m)
  BY DEF PeerLeaves, PeerRejects
<1> DEFINE r == [sess[i] EXCEPT !.inbox = m, !.link = "closed"]
<1>1. sess[i] \in Connections
  BY Kinds DEF IInv
<1>2. sess' = [sess EXCEPT ![i] = r]
  BY <1>0, <1>1 DEF Sends, Connections
<1>3. r \in Connections /\ r.by = sess[i].by /\ r.st = sess[i].st /\ r.reader = sess[i].reader
  BY <1>1 DEF Connections
<1>5. UNCHANGED <<active, loss, trustPeer, redialCancel, redial, live, ended, reach, stopped>>
      /\ redialTo' \in Peers \cup {None} /\ acts' \in Nat
  BY <1>0 DEF PeerLeaves, PeerRejects, May, Sends, again, IInv, TypeOK
<1>6. (active = i => r.st = "on") /\ (r.reader # "none" => r.st \in {"on", "closed"})
  BY <1>3, Kinds DEF IInv, ActiveIsOn, Readers
<1> HIDE DEF r
<1> QED
  BY <1>2, <1>3, <1>5, <1>6, OneAlong

\* Nothing but the timer, or who can be reached.
LEMMA SameStep ==
  ASSUME IInv, UNCHANGED <<active, sess, redialTo, redialCancel, redial, live, ended, trustPeer, grace, acts, stopped>>,
         reach' \subseteq Peers, reconnecting' \in BOOLEAN, timer' \in Timers, GraceIsTimed'
  PROVE  IInv'
<1>1. Ids' = Ids /\ Keeps
  BY DEF Ids, Keeps, IInv, TypeOK
<1>2. TypeOK'
  BY <1>1, TypesOf DEF IInv, TypeOK
<1>3. ActiveIsOn'
  BY <1>1 DEF IInv, ActiveIsOn
<1>4. \A k \in Ids : sess'[k].reader # "none" => sess'[k].st \in {"on", "closed"}
  BY DEF IInv, Readers
<1> QED
  BY <1>1, <1>2, <1>3, <1>4, Along

LEMMA TimerStep ==
  ASSUME IInv, NEW i \in Ids, Expires(i)
  PROVE  IInv'
<1>1. timer \in Timers /\ i \in 1 .. MaxSessions /\ reach \subseteq Peers /\ reconnecting \in BOOLEAN
  BY Kinds DEF IInv, TypeOK
<1>2. CASE GraceFires(i)
  <2>1. timer' = [timer EXCEPT ![i] = "fired"] /\ timer' \in Timers /\ timer'[i] = "fired" /\ reconnecting' = reconnecting
        /\ active' = active /\ Ids' = Ids
    BY <1>1, <1>2 DEF GraceFires, Timers, Ids
  <2>2. GraceIsTimed'
    BY <2>1 DEF IInv, GraceIsTimed
  <2> QED
    BY <1>1, <1>2, <2>1, <2>2, SameStep DEF GraceFires, again
<1>3. CASE GraceEnds(i)
  <2>1. timer' \in Timers /\ reconnecting' = FALSE
    BY <1>1, <1>3 DEF GraceEnds, Timers
  <2>2. GraceIsTimed'
    BY <2>1 DEF GraceIsTimed
  <2> QED
    BY <1>1, <1>3, <2>1, <2>2, SameStep DEF GraceEnds, again
<1> QED
  BY <1>2, <1>3 DEF Expires

LEMMA ComesBackStep ==
  ASSUME IInv, NEW p \in Peers, ComesBack(p)
  PROVE  IInv'
<1>1. GraceIsTimed'
  BY DEF ComesBack, IInv, GraceIsTimed, Ids, loss
<1> QED
  BY <1>1, SameStep DEF ComesBack, IInv, TypeOK, loss, again

LEMMA GoesStep ==
  ASSUME IInv, NEW p \in Peers, Goes(p)
  PROVE  IInv'
<1>1. sess \in Seq(Connections) /\ \A k \in Ids : sess[k] \in Connections
  BY Kinds DEF IInv, TypeOK
<1>2. sess' = [i \in Ids |-> IF sess[i].peer = p /\ sess[i].st \in {"asked", "on"}
                             THEN [sess[i] EXCEPT !.link = "dead", !.inbox = "none"] ELSE sess[i]]
  BY DEF Goes
<1>3. \A k \in Ids : /\ sess'[k] \in Connections /\ sess'[k].by = sess[k].by
                     /\ sess'[k].st = sess[k].st /\ sess'[k].reader = sess[k].reader
  <2> SUFFICES ASSUME NEW k \in Ids
               PROVE  /\ sess'[k] \in Connections /\ sess'[k].by = sess[k].by
                      /\ sess'[k].st = sess[k].st /\ sess'[k].reader = sess[k].reader
    OBVIOUS
  <2>1. sess[k] \in Connections
    BY <1>1
  <2>2. sess'[k] = sess[k] \/ sess'[k] = [sess[k] EXCEPT !.link = "dead", !.inbox = "none"]
    BY <1>2
  <2> QED
    BY <2>1, <2>2 DEF Connections
<1>4. sess' \in [1 .. Len(sess) -> Connections]
  BY <1>2, <1>3 DEF Ids
<1>5. Keeps /\ Ids' = Ids
  BY <1>1, <1>3, <1>4, SeqChanges DEF Keeps, Ids
<1>6. TypeOK'
  <2>1. reach' \subseteq Peers /\ acts' \in Nat
    <3>1. reach \subseteq Peers
      BY DEF IInv, TypeOK
    <3> QED
      BY <3>1, Happened DEF Goes
  <2>2. UNCHANGED <<active, loss, trustPeer, again, redial, stopped>>
    BY DEF Goes
  <2> QED
    BY <1>5, <2>1, <2>2, TypesOf DEF loss, again, IInv, TypeOK
<1>7. ActiveIsOn' /\ GraceIsTimed'
  BY <1>3, <1>5 DEF Goes, loss, IInv, ActiveIsOn, GraceIsTimed
<1> QED
  BY <1>3, <1>5, <1>6, <1>7, Along DEF Goes, again, IInv, Readers

-----------------------------------------------------------------------------
(* Sessions that begin, and are lost.                                       *)
LEMMA StartStep ==
  ASSUME IInv, NEW i \in Ids, Start(i)
  PROVE  IInv'
<1> DEFINE ss == Closed(sess, active)  r == [ss[i] EXCEPT !.st = "on", !.reader = "reads", !.note = sess[i].dialed]
<1>1. ss \in Seq(Connections) /\ Len(ss) = Len(sess)
      /\ \A k \in Ids : ss[k] = IF k = active THEN [sess[k] EXCEPT !.st = "closed"] ELSE sess[k]
  BY Closes
<1>2. /\ \A k \in Ids : k \in 1 .. MaxSessions /\ k # 0 /\ sess[k] \in Connections
      /\ Len(sess) <= MaxSessions
  BY Kinds DEF IInv, TypeOK
<1>3. sess[i].st = "asked" /\ i # active /\ sess[i].reader = "none"
  BY <1>2 DEF Start, IInv, ActiveIsOn, Readers
<1>4. ss[i] = sess[i]
  BY <1>1, <1>3
<1>5. sess' = [ss EXCEPT ![i] = r]
  BY DEF Start
<1>6. r \in Connections /\ r.by = sess[i].by /\ r.st = "on" /\ r.reader = "reads"
  BY <1>2, <1>4 DEF Connections
<1> HIDE DEF ss, r
<1>7. sess' \in Seq(Connections) /\ Len(sess') = Len(ss) /\ \A k \in Ids : sess'[k] = IF k = i THEN r ELSE ss[k]
  <2>1. i \in 1 .. Len(ss) /\ Ids = 1 .. Len(ss)
    BY <1>1 DEF Ids
  <2> QED
    BY <1>1, <1>5, <1>6, <2>1, OneChanges
<1>8. ASSUME NEW k \in Ids
      PROVE  /\ sess'[k].by = sess[k].by
             /\ sess[k].st = "refused" => sess'[k].st = "refused"
             /\ sess'[k].st = "asked" => sess[k].st = "asked"
             /\ sess'[k].reader # "none" => sess'[k].st \in {"on", "closed"}
             /\ sess[k].reader = "done" => sess'[k].reader = "done"
  <2>1. CASE k = i
    BY <1>3, <1>6, <1>7, <2>1
  <2>2. CASE k # i /\ k = active
    <3>1. sess'[k] = [sess[k] EXCEPT !.st = "closed"]
      BY <1>1, <1>7, <2>2
    <3>2. sess[k].st = "on" /\ sess[k] \in Connections
      BY <1>2, <2>2 DEF IInv, ActiveIsOn
    <3> QED
      BY <3>1, <3>2 DEF Connections
  <2>3. CASE k # i /\ k # active
    <3>1. sess'[k] = sess[k]
      BY <1>1, <1>7, <2>3
    <3> QED
      BY <3>1 DEF IInv, Readers
  <2> QED
    BY <2>1, <2>2, <2>3
<1>9. Keeps /\ Ids' = Ids
  BY <1>1, <1>7, <1>8 DEF Keeps, Ids
<1>10. sess[i].by \in 0 .. MaxSessions /\ sess[i].peer \in Peers
  BY <1>2 DEF Connections
<1>11. /\ redialTo' \in Peers \cup {None} /\ redialCancel' \in 0 .. MaxSessions /\ ended' \in Ended /\ live' \subseteq live
       /\ \A k \in 1 .. MaxSessions : ended'[k] = "waits" => ended[k] = "waits" \/ (redial[k] = "waits" /\ k \notin live')
  BY <1>10, Stops DEF Start
<1>12. reconnecting' = FALSE /\ grace' = 0 /\ timer' \in Timers
  BY StopsTimer DEF Start, StopGrace
<1>13. active' = i /\ trustPeer' = sess[i].peer /\ UNCHANGED <<redial, reach, stopped, acts>>
  BY DEF Start
<1>14. TypeOK'
  <2>1. 0 \in 0 .. MaxSessions /\ i \in 0 .. MaxSessions
    BY <1>2, BoundAssumption
  <2>2. reach \subseteq Peers /\ stopped \in BOOLEAN /\ acts \in Nat
    BY DEF IInv, TypeOK
  <2> QED
    BY <1>9, <1>10, <1>11, <1>12, <1>13, <2>1, <2>2, TypesOf
<1>15. ActiveIsOn' /\ GraceIsTimed'
  BY <1>6, <1>7, <1>9, <1>12, <1>13 DEF ActiveIsOn, GraceIsTimed
<1> QED
  BY <1>8, <1>9, <1>11, <1>13, <1>14, <1>15, Along

\* A redial of its own may begin: nothing was asked for by it yet, and nothing ended it.
LEMMA LostStep ==
  ASSUME IInv, NEW i \in Ids, Lost(i)
  PROVE  IInv'
<1> DEFINE r == [sess[i] EXCEPT !.st = "closed", !.reader = "done"]
<1>1. sess[i] \in Connections /\ i \in 1 .. MaxSessions /\ i # 0 /\ sess[i].reader = "reads"
  BY Kinds DEF IInv, Lost
<1>2. sess' = [sess EXCEPT ![i] = r]
  BY DEF Lost
<1>3. r \in Connections /\ r.by = sess[i].by /\ r.st = "closed" /\ r.reader = "done"
  BY <1>1 DEF Connections
<1>4. sess[i].st # "refused"
  BY <1>1 DEF IInv, Readers
<1> HIDE DEF r
<1>5. UNCHANGED <<trustPeer, reach, stopped, acts>>
  BY DEF Lost
<1>6. CASE active # i
  <2>1. UNCHANGED <<active, loss, again, redial>>
    BY <1>6 DEF Lost
  <2>2. redialTo' \in Peers \cup {None} /\ acts' \in Nat
    BY <1>5, <2>1 DEF again, IInv, TypeOK
  <2> QED
    BY <1>2, <1>3, <1>4, <1>5, <1>6, <2>1, <2>2, OneAlong DEF again
<1>7. CASE active = i
  <2>1. /\ active' = 0 /\ reconnecting' = TRUE /\ grace' = i /\ timer' = [StoppedTimer EXCEPT ![i] = "set"]
        /\ UNCHANGED <<redialTo, ended>>
        /\ \/ redialCancel' = i /\ redial' = [redial EXCEPT ![i] = "waits"] /\ live' = live \cup {i}
           \/ UNCHANGED <<redialCancel, redial, live>>
    BY <1>7 DEF Lost
  <2>2. Keeps /\ Len(sess') <= MaxSessions /\ \A k \in Ids : sess'[k] = IF k = i THEN r ELSE sess[k]
    BY <1>2, <1>3, Change DEF IInv
  <2>3. Ids' = Ids
    BY <2>2 DEF Keeps, Ids
  <2>4. timer' \in Timers /\ timer'[i] = "set"
    BY <1>1, <2>1, StopsTimer DEF Timers
  <2>5. redial \in Redial /\ redial[i] = "none" /\ ended[i] # "waits"
    BY <1>1 DEF IInv, TypeOK, OncePerLoss, EndedFirst
  <2>6. /\ redial' \in Redial /\ redialCancel' \in 0 .. MaxSessions /\ live' \subseteq 1 .. MaxSessions
        /\ \A k \in 1 .. MaxSessions : k # i => redial'[k] = redial[k] /\ (k \in live' => k \in live)
    <3>1. CASE redialCancel' = i /\ redial' = [redial EXCEPT ![i] = "waits"] /\ live' = live \cup {i}
      <4>1. live \subseteq 1 .. MaxSessions /\ i \in 0 .. MaxSessions
        BY <1>1 DEF IInv, TypeOK
      <4>2. redial' \in Redial /\ \A k \in 1 .. MaxSessions : k # i => redial'[k] = redial[k]
        BY <1>1, <2>5, <3>1 DEF Redial
      <4> QED
        BY <1>1, <3>1, <4>1, <4>2
    <3>2. CASE UNCHANGED <<redialCancel, redial, live>>
      BY <3>2 DEF IInv, TypeOK
    <3> QED
      BY <2>1, <3>1, <3>2
  <2>7. TypeOK'
    <3>1. active' \in 0 .. MaxSessions /\ grace' \in 0 .. MaxSessions /\ reconnecting' \in BOOLEAN
      BY <1>1, <2>1, BoundAssumption
    <3> QED
      BY <1>5, <2>1, <2>2, <2>4, <2>6, <3>1 DEF IInv, TypeOK, Keeps
  <2>8. ActiveIsOn' /\ GraceIsTimed'
    BY <2>1, <2>3, <2>4 DEF ActiveIsOn, GraceIsTimed
  <2>9. Readers' /\ OncePerLoss'
    BY <1>3, <2>2, <2>3, <2>6 DEF IInv, Readers, OncePerLoss
  <2>10. \A k \in Ids : sess[k].by = i => sess[k].st = "refused"
    BY <1>1, <2>5 DEF IInv, Attempts
  <2>11. \A k \in Ids : /\ sess'[k].by = sess[k].by
                        /\ sess[k].st = "refused" => sess'[k].st = "refused"
                        /\ sess'[k].st = "asked" => sess[k].st = "asked"
    BY <1>3, <1>4, <2>2
  <2>12. Attempts'
    <3> SUFFICES ASSUME NEW j \in Ids, sess'[j].by # 0
                 PROVE  \/ sess'[j].st = "refused"
                        \/ redial'[sess'[j].by] = "asked" /\ \A k \in Ids : sess'[k].by = sess'[j].by => k <= j
                        \/ redial'[sess'[j].by] = "over" /\ sess'[j].st # "asked"
      BY <2>3 DEF Attempts, Latest
    <3>1. CASE sess[j].by = i
      BY <2>10, <2>11, <3>1
    <3>2. CASE sess[j].by # i
      <4>1. sess[j].by \in 1 .. MaxSessions
        BY <2>11, Kinds DEF IInv
      <4>2. redial'[sess[j].by] = redial[sess[j].by]
        BY <2>6, <3>2, <4>1
      <4> QED
        BY <2>11, <4>1, <4>2 DEF IInv, Attempts, Latest
    <3> QED
      BY <3>1, <3>2
  <2>13. EndedFirst'
    <3> SUFFICES ASSUME NEW k \in 1 .. MaxSessions, ended[k] = "waits"
                 PROVE  /\ k \notin live' /\ redial'[k] \in {"waits", "over", "gave up"}
                        /\ \A j \in Ids : sess'[j].by = k => sess'[j].st = "refused"
      BY <2>1, <2>3 DEF EndedFirst
    <3>1. /\ k \notin live /\ redial[k] \in {"waits", "over", "gave up"}
          /\ \A j \in Ids : sess[j].by = k => sess[j].st = "refused"
      BY DEF IInv, EndedFirst
    <3> QED
      BY <2>5, <2>6, <2>11, <3>1
  <2> QED
    BY <2>7, <2>8, <2>9, <2>12, <2>13 DEF IInv
<1> QED
  BY <1>6, <1>7

-----------------------------------------------------------------------------
(* Connections asked for, by the user, the other device, or a redial.       *)
LEMMA Asks ==
  ASSUME IInv, Room, NEW r \in Connections, sess' = Append(sess, r), NEW n, n = Len(sess) + 1
  PROVE  /\ sess' \in Seq(Connections) /\ Len(sess') <= MaxSessions
         /\ Ids' = Ids \cup {n} /\ n \notin Ids /\ sess'[n] = r /\ n \in 1 .. MaxSessions
         /\ \A k \in Ids : sess'[k] = sess[k] /\ k <= n
<1>1. sess \in Seq(Connections) /\ Len(sess) \in Nat /\ Len(sess) < MaxSessions /\ MaxSessions \in Nat
  BY Kinds DEF IInv, TypeOK, Room
<1>2. /\ sess' \in Seq(Connections) /\ Len(sess') = Len(sess) + 1 /\ sess'[Len(sess) + 1] = r
      /\ \A k \in 1 .. Len(sess) : sess'[k] = sess[k]
  BY <1>1, AppendProperties
<1> QED
  BY <1>1, <1>2 DEF Ids

\* What it leaves of the invariant, all but the attempts.
LEMMA AsksKeeps ==
  ASSUME IInv, Room, NEW r \in Connections, r.st = "asked", r.reader = "none", sess' = Append(sess, r),
         UNCHANGED <<active, loss, trustPeer, redialTo, redialCancel, live, ended, reach, stopped>>, acts' \in Nat,
         redial' \in Redial, \A k \in 1 .. MaxSessions : redial'[k] # "none" => redial[k] # "none"
  PROVE  TypeOK' /\ ActiveIsOn' /\ Readers' /\ OncePerLoss' /\ GraceIsTimed'
<1> DEFINE n == Len(sess) + 1
<1>1. /\ sess' \in Seq(Connections) /\ Len(sess') <= MaxSessions
      /\ Ids' = Ids \cup {n} /\ n \notin Ids /\ sess'[n] = r
      /\ \A k \in Ids : sess'[k] = sess[k]
  BY Asks
<1> HIDE DEF n
<1>2. TypeOK'
  BY <1>1 DEF IInv, TypeOK, loss
<1>3. ActiveIsOn' /\ GraceIsTimed'
  BY <1>1 DEF IInv, ActiveIsOn, GraceIsTimed, loss
<1>4. Readers' /\ OncePerLoss'
  BY <1>1 DEF IInv, Readers, OncePerLoss
<1> QED
  BY <1>2, <1>3, <1>4

LEMMA PairStep ==
  ASSUME IInv, NEW p \in Peers, Pair(p) \/ Accept(p)
  PROVE  IInv'
<1> DEFINE n == Len(sess) + 1
<1>1. PICK dialed \in BOOLEAN : sess' = Append(sess, Asked(p, dialed, 0))
  BY DEF Pair, Accept
<1> DEFINE r == Asked(p, dialed, 0)
<1>2. 0 \in 0 .. MaxSessions
  BY BoundAssumption
<1>3. r \in Connections /\ r.by = 0 /\ r.st = "asked" /\ r.reader = "none"
  BY <1>2 DEF Asked, Connections
<1>4. Room /\ UNCHANGED <<active, loss, trustPeer, redialTo, redialCancel, redial, live, ended, reach, stopped>>
  BY DEF Pair, Accept, again
<1>5. acts' \in Nat /\ redial \in Redial
  BY Happened DEF Pair, Accept, IInv, TypeOK
<1> HIDE DEF r
<1>6. TypeOK' /\ ActiveIsOn' /\ Readers' /\ OncePerLoss' /\ GraceIsTimed'
  BY <1>1, <1>3, <1>4, <1>5, AsksKeeps DEF r
<1>7. Ids' = Ids \cup {n} /\ sess'[n] = r /\ \A k \in Ids : sess'[k] = sess[k]
  BY <1>1, <1>3, <1>4, Asks DEF r
<1> HIDE DEF n
<1>8. Attempts'
  BY <1>3, <1>4, <1>7 DEF IInv, Attempts, Latest
<1>9. EndedFirst'
  <2> SUFFICES ASSUME NEW k \in 1 .. MaxSessions, ended[k] = "waits"
               PROVE  /\ k \notin live /\ redial[k] \in {"waits", "over", "gave up"}
                      /\ \A j \in Ids \cup {n} : sess'[j].by = k => sess'[j].st = "refused"
    BY <1>4, <1>7 DEF EndedFirst
  <2>1. /\ k \notin live /\ redial[k] \in {"waits", "over", "gave up"}
        /\ \A j \in Ids : sess[j].by = k => sess[j].st = "refused"
    BY DEF IInv, EndedFirst
  <2>2. k # 0
    OBVIOUS
  <2> QED
    BY <1>3, <1>7, <2>1, <2>2
<1> QED
  BY <1>6, <1>8, <1>9 DEF IInv

\* Only a redial whose check is behind it: none it had before is left.
LEMMA AskAgainStep ==
  ASSUME IInv, NEW i \in Ids, AskAgain(i)
  PROVE  IInv'
<1> DEFINE n == Len(sess) + 1  r == Asked(sess[i].peer, TRUE, i)
<1>1. i \in 1 .. MaxSessions /\ sess[i].peer \in Peers /\ i # 0
  BY Kinds DEF IInv, Connections
<1>2. r \in Connections /\ r.by = i /\ r.st = "asked" /\ r.reader = "none"
  BY <1>1 DEF Asked, Connections
<1>3. Room /\ UNCHANGED <<active, loss, trustPeer, redialTo, redialCancel, live, ended, reach, stopped, acts>>
      /\ redial' = [redial EXCEPT ![i] = "asked"] /\ redial[i] = "clear" /\ sess' = Append(sess, r)
  BY DEF AskAgain
<1>4. redial \in Redial /\ acts' \in Nat
  BY <1>3 DEF IInv, TypeOK
<1>5. redial' \in Redial /\ redial'[i] = "asked" /\ \A k \in 1 .. MaxSessions : k # i => redial'[k] = redial[k]
  BY <1>1, <1>3, <1>4 DEF Redial
<1> HIDE DEF r
<1>6. TypeOK' /\ ActiveIsOn' /\ Readers' /\ OncePerLoss' /\ GraceIsTimed'
  BY <1>2, <1>3, <1>4, <1>5, AsksKeeps
<1>7. Ids' = Ids \cup {n} /\ sess'[n] = r /\ (\A k \in Ids : sess'[k] = sess[k] /\ k <= n) /\ n \in 1 .. MaxSessions
  BY <1>2, <1>3, Asks
<1> HIDE DEF n
<1>8. \A k \in Ids : sess[k].by = i => sess[k].st = "refused"
  BY <1>1, <1>3 DEF IInv, Attempts
<1>9. Attempts'
  <2> SUFFICES ASSUME NEW j \in Ids \cup {n}, sess'[j].by # 0
               PROVE  \/ sess'[j].st = "refused"
                      \/ redial'[sess'[j].by] = "asked" /\ \A k \in Ids \cup {n} : sess'[k].by = sess'[j].by => k <= j
                      \/ redial'[sess'[j].by] = "over" /\ sess'[j].st # "asked"
    BY <1>7 DEF Attempts, Latest
  <2>1. CASE j = n
    BY <1>2, <1>5, <1>7, <2>1
  <2>2. CASE j \in Ids /\ sess[j].by = i
    BY <1>7, <1>8, <2>2
  <2>3. CASE j \in Ids /\ sess[j].by # i
    <3>1. sess[j].by \in 1 .. MaxSessions
      BY <1>7, <2>3, Kinds DEF IInv
    <3>2. redial'[sess[j].by] = redial[sess[j].by]
      BY <1>5, <2>3, <3>1
    <3> QED
      BY <1>2, <1>7, <2>3, <3>1, <3>2 DEF IInv, Attempts, Latest
  <2> QED
    BY <2>1, <2>2, <2>3
<1>10. EndedFirst'
  <2> SUFFICES ASSUME NEW k \in 1 .. MaxSessions, ended[k] = "waits"
               PROVE  /\ k \notin live /\ redial'[k] \in {"waits", "over", "gave up"}
                      /\ \A j \in Ids \cup {n} : sess'[j].by = k => sess'[j].st = "refused"
    BY <1>3, <1>7 DEF EndedFirst
  <2>1. /\ k \notin live /\ redial[k] \in {"waits", "over", "gave up"}
        /\ \A j \in Ids : sess[j].by = k => sess[j].st = "refused"
    BY DEF IInv, EndedFirst
  <2>2. k # i
    BY <1>3, <2>1
  <2> QED
    BY <1>2, <1>5, <1>7, <2>1, <2>2
<1> QED
  BY <1>6, <1>9, <1>10 DEF IInv

-----------------------------------------------------------------------------
(* A redial that looks, and what it makes of an answer.                     *)
LEMMA RedialMoves ==
  ASSUME IInv, NEW i \in 1 .. MaxSessions,
         UNCHANGED <<active, sess, loss, trustPeer, redialTo, redialCancel, live, ended, reach, stopped, acts>>,
         redial[i] # "none", redial' \in Redial, \A k \in 1 .. MaxSessions : k # i => redial'[k] = redial[k],
         redial'[i] \in {"waits", "clear", "over", "refused", "gave up"},
         \A k \in Ids : sess[k].by = i => sess[k].st = "refused" \/ (redial'[i] = "over" /\ sess[k].st # "asked"),
         ended[i] = "waits" => redial'[i] \in {"waits", "over", "gave up"}
  PROVE  IInv'
<1>1. redial \in Redial /\ Ids' = Ids
  BY DEF IInv, TypeOK, Ids
<1>3. TypeOK' /\ ActiveIsOn' /\ Readers' /\ OncePerLoss' /\ GraceIsTimed'
  BY <1>1 DEF IInv, TypeOK, ActiveIsOn, Readers, OncePerLoss, GraceIsTimed, loss
<1>4. Attempts'
  <2> SUFFICES ASSUME NEW j \in Ids, sess[j].by # 0
               PROVE  \/ sess[j].st = "refused"
                      \/ redial'[sess[j].by] = "asked" /\ \A k \in Ids : sess[k].by = sess[j].by => k <= j
                      \/ redial'[sess[j].by] = "over" /\ sess[j].st # "asked"
    BY <1>1 DEF Attempts, Latest
  <2>1. CASE sess[j].by = i
    BY <2>1
  <2>2. CASE sess[j].by # i
    <3>1. sess[j].by \in 1 .. MaxSessions
      BY Kinds DEF IInv
    <3> QED
      BY <2>2, <3>1 DEF IInv, Attempts, Latest
  <2> QED
    BY <2>1, <2>2
<1>5. EndedFirst'
  BY <1>1 DEF IInv, EndedFirst
<1> QED
  BY <1>3, <1>4, <1>5 DEF IInv

LEMMA RedialStep ==
  ASSUME IInv, NEW i \in Ids, Check(i) \/ GivesUp(i) \/ Answered(i)
  PROVE  IInv'
<1>1. i \in 1 .. MaxSessions /\ i # 0
  BY Kinds DEF IInv
<1>2. ended[i] = "waits" => i \notin live /\ redial[i] \in {"waits", "over", "gave up"}
  BY <1>1 DEF IInv, EndedFirst
<1>5. redial \in Redial
  BY DEF IInv, TypeOK
<1>3. CASE Check(i) \/ GivesUp(i)
  <2>1. redial[i] = "waits"
    BY <1>3 DEF Check, GivesUp
  <2>2. \A k \in Ids : sess[k].by = i => sess[k].st = "refused"
    BY <1>1, <2>1 DEF IInv, Attempts
  <2>3. PICK to \in {"clear", "over", "gave up"} : redial' = [redial EXCEPT ![i] = to] /\ (to = "clear" => i \in live)
    BY <1>3 DEF Check, GivesUp
  <2>4. UNCHANGED <<active, sess, loss, trustPeer, redialTo, redialCancel, live, ended, reach, stopped, acts>>
    BY <1>3 DEF Check, GivesUp
  <2>5. ended[i] = "waits" => to \in {"waits", "over", "gave up"}
    BY <1>2, <2>3
  <2>6. \A k \in Ids : sess[k].by = i => sess[k].st = "refused" \/ (to = "over" /\ sess[k].st # "asked")
    BY <2>2
  <2>7. redial' \in Redial /\ redial'[i] = to /\ \A k \in 1 .. MaxSessions : k # i => redial'[k] = redial[k]
    BY <1>1, <1>5, <2>3 DEF Redial
  <2>8. redial[i] # "none" /\ redial'[i] \in {"waits", "clear", "over", "refused", "gave up"}
    BY <2>1, <2>7
  <2>9. \A k \in Ids : sess[k].by = i => sess[k].st = "refused" \/ (redial'[i] = "over" /\ sess[k].st # "asked")
    BY <2>6, <2>7
  <2>10. ended[i] = "waits" => redial'[i] \in {"waits", "over", "gave up"}
    BY <2>5, <2>7
  <2> QED
    BY <1>1, <2>4, <2>7, <2>8, <2>9, <2>10, RedialMoves
<1>4. CASE Answered(i)
  <2> DEFINE to == After(sess[Attempt(i)])
  <2>1. redial[i] = "asked" /\ sess[Attempt(i)].st # "asked" /\ redial' = [redial EXCEPT ![i] = to]
    BY <1>4 DEF Answered
  <2>2. UNCHANGED <<active, sess, loss, trustPeer, redialTo, redialCancel, live, ended, reach, stopped, acts>>
    BY <1>4 DEF Answered
  <2>3. to \in {"over", "refused", "waits"} /\ (sess[Attempt(i)].st # "refused" => to = "over")
    BY DEF After
  <2>4. ASSUME NEW k \in Ids, sess[k].by = i, sess[k].st # "refused"
        PROVE  k = Attempt(i)
    <3>1. sess[k].by = i /\ \A j \in Ids : sess[j].by = i => j <= k
      BY <1>1, <2>1, <2>4 DEF IInv, Attempts, Latest
    <3>2. Attempt(i) \in Ids /\ sess[Attempt(i)].by = i /\ \A j \in Ids : sess[j].by = i => j <= Attempt(i)
      BY <3>1 DEF Attempt
    <3>3. k <= Attempt(i) /\ Attempt(i) <= k
      BY <3>1, <3>2
    <3>4. k \in Nat /\ Attempt(i) \in Nat
      BY <3>2, Kinds DEF IInv, Ids
    <3> QED
      BY <3>3, <3>4
  <2> HIDE DEF to
  <2>5. \A k \in Ids : sess[k].by = i => sess[k].st = "refused" \/ (to = "over" /\ sess[k].st # "asked")
    BY <2>1, <2>3, <2>4
  <2>6. ended[i] = "waits" => to \in {"waits", "over", "gave up"}
    BY <1>2, <2>1
  <2>7. redial' \in Redial /\ redial'[i] = to /\ \A k \in 1 .. MaxSessions : k # i => redial'[k] = redial[k]
    <3>1. to \in {"none", "waits", "clear", "asked", "over", "refused", "gave up"}
      BY <2>3
    <3> QED
      BY <1>1, <1>5, <2>1, <3>1 DEF Redial
  <2>8. redial[i] # "none" /\ redial'[i] \in {"waits", "clear", "over", "refused", "gave up"}
    BY <2>1, <2>3, <2>7
  <2>9. \A k \in Ids : sess[k].by = i => sess[k].st = "refused" \/ (redial'[i] = "over" /\ sess[k].st # "asked")
    BY <2>5, <2>7
  <2>10. ended[i] = "waits" => redial'[i] \in {"waits", "over", "gave up"}
    BY <2>6, <2>7
  <2> QED
    BY <1>1, <2>2, <2>7, <2>8, <2>9, <2>10, RedialMoves
<1> QED
  BY <1>3, <1>4

-----------------------------------------------------------------------------
LEMMA Initial ==
  ASSUME Init
  PROVE  IInv
<1>1. sess \in Seq(Connections) /\ Len(sess) = 0 /\ Ids = {} /\ 0 \in 0 .. MaxSessions /\ 0 <= MaxSessions
  BY EmptySeq, BoundAssumption DEF Init, Ids
<1>2. TypeOK
  BY <1>1 DEF Init, TypeOK, Timers, Redial, Ended
<1>3. ActiveIsOn /\ Readers /\ OncePerLoss /\ Attempts /\ EndedFirst /\ GraceIsTimed
  BY <1>1 DEF Init, ActiveIsOn, Readers, OncePerLoss, Attempts, EndedFirst, GraceIsTimed
<1> QED
  BY <1>2, <1>3 DEF IInv

LEMMA Step ==
  ASSUME IInv, [Next]_vars
  PROVE  IInv'
<1>1. CASE UNCHANGED vars
  <2>1. GraceIsTimed' /\ timer \in Timers /\ reconnecting \in BOOLEAN /\ reach \subseteq Peers
    BY <1>1 DEF vars, IInv, TypeOK, GraceIsTimed, Ids
  <2> QED
    BY <1>1, <2>1, SameStep DEF vars
<1>2. ASSUME NEW p \in Peers, Pair(p) \/ Accept(p) \/ Goes(p) \/ ComesBack(p) PROVE IInv'
  BY <1>2, PairStep, GoesStep, ComesBackStep
<1>3. ASSUME NEW i \in Ids, Opens(i) \/ Reader(i) \/ Redials(i) \/ Expires(i) \/ GivesUp(i) \/ PeerLeaves(i) \/ PeerRejects(i)
      PROVE  IInv'
  <2>1. CASE Opens(i)
    BY <2>1, FailsStep, StartStep, DialedForStep DEF Opens
  <2>2. CASE Reader(i)
    BY <2>2, LostStep, ReadStep, LeftStep DEF Reader
  <2>3. CASE Redials(i) \/ GivesUp(i)
    BY <2>3, RedialStep, AskAgainStep DEF Redials
  <2> QED
    BY <1>3, <2>1, <2>2, <2>3, TimerStep, SendsStep
<1> QED
  BY <1>1, <1>2, <1>3, DisconnectStep DEF Next

\* The invariant holds, for any devices and any number of sessions.
THEOREM IInvHolds == Spec => []IInv
<1>1. Init => IInv
  BY Initial
<1>2. IInv /\ [Next]_vars => IInv'
  BY Step
<1> QED
  BY <1>1, <1>2, PTL DEF Spec

(* What each part is: the sessions, their timers and their redials.         *)
THEOREM TypeCorrect == Spec => []TypeOK
<1>1. IInv => TypeOK
  BY DEF IInv
<1> QED
  BY <1>1, IInvHolds, PTL

(* While the daemon reconnects, a timer is to end that (startSession,       *)
(* listenToSession, the grace period's function).                           *)
THEOREM GraceHolds == Spec => []GraceIsTimed
<1>1. IInv => GraceIsTimed
  BY DEF IInv
<1> QED
  BY <1>1, IInvHolds, PTL

(* A redial ended before its check opens no session (redialOnce,            *)
(* stopRedialLocked).                                                       *)
THEOREM YieldHolds == Spec => []RedialYields
<1>1. ASSUME IInv PROVE RedialYields
  <2> SUFFICES ASSUME NEW i \in Ids, sess[i].st = "on", sess[i].by # 0
               PROVE  ended[sess[i].by] # "waits"
    BY DEF RedialYields
  <2>1. sess[i].by \in 1 .. MaxSessions
    BY <1>1, Kinds DEF IInv
  <2> QED
    BY <1>1, <2>1 DEF IInv, EndedFirst
<1> QED
  BY <1>1, IInvHolds, PTL
=============================================================================
