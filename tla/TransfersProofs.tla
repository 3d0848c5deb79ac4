---------------------------- MODULE TransfersProofs ----------------------------
(***************************************************************************)
(* What holds of two daemons and their transfers, for any ids, sessions    *)
(* and plans.                                                              *)
(*                                                                         *)
(* That the open offer is the last one holds whatever happens.  The other  *)
(* two need what the code does not see to: that a run can be cancelled,    *)
(* that one side sends and describes no source while another transfer is   *)
(* accepted (OneSided); that what is shown complete is, that no message    *)
(* of an earlier transfer ends the one in progress (OneTransfer).  TLC has *)
(* a counterexample to each without.                                       *)
(***************************************************************************)
EXTENDS Transfers, SequenceTheorems, TLAPS

OneSided == /\ \E s \in Devices : Senders = {s}
            /\ \A p \in Plans : "slow" \notin p.faults
OneTransfer == \A p \in Plans : \A i, j \in p.ids : i = j

-----------------------------------------------------------------------------
(* Types.                                                                   *)

SomeId == Ids \cup {None}
Daemons == [up : BOOLEAN, sess : 0 .. MaxSessions, last : 1 .. MaxSessions,
            active : SomeId, cancel : SomeId, rx : SomeId, ended : SomeId, sentCompleted : SomeId,
            completed : SomeId, paused : BOOLEAN, offered : SomeId, pending : SomeId]
Outs == {"none", "building", "open", "accepted", "serving", "returned", "told", "closed"}
Ins == {"none", "deciding", "receiving", "ran", "ended", "marked", "over"}
Runs == [by : Devices \cup {None}, out : Outs, outLive : BOOLEAN, outSess : 0 .. MaxSessions,
         finished : BOOLEAN, idle : BOOLEAN, in : Ins, inLive : BOOLEAN, inSess : 0 .. MaxSessions,
         rxPaused : BOOLEAN, allEnded : BOOLEAN, done : {"none", "sent", "taken", "lost"},
         canceled : BOOLEAN]
\* Only these name no transfer: they are about the one in progress, if any.
Messages == [type : {"offer", "accept", "reject", "complete", "failed", "check"}, id : Ids]
            \cup [type : {"cancel", "pause", "resume", "disconnect"}, id : SomeId]
Wires == [Devices -> [1 .. MaxSessions -> Seq(Messages)]]

TypeOK ==
  /\ dev \in [Devices -> Daemons]
  /\ xfer \in [Ids -> Runs]
  /\ wire \in Wires
  /\ cut \subseteq 1 .. MaxSessions
  /\ sessions \in 1 .. MaxSessions
  /\ dialing \in Devices \cup {None}
  /\ told \in [Devices -> [Ids -> Seq({"complete", "failed"})]]
  /\ plan \in Plans

-----------------------------------------------------------------------------
(* The invariant.                                                           *)

\* What a message on its way to d says of the transfers x.
SaysOf(x, d, m) == /\ m.type = "offer" => x[m.id].by = Peer(d)
                   /\ m.type = "complete" => x[m.id].allEnded
AllSay(w, x) == \A d \in Devices : \A n \in 1 .. MaxSessions : \A k \in 1 .. Len(w[d][n]) : SaysOf(x, d, w[d][n][k])

\* What the fields of a daemon say of the transfers.
KeepsOffer(d) == dev[d].offered # None => xfer[dev[d].offered].by = d /\ xfer[dev[d].offered].out = "open"
KeepsPending(d) == dev[d].pending # None => xfer[dev[d].pending].by = Peer(d)
KeepsCompleted(d) == dev[d].completed # None => xfer[dev[d].completed].allEnded
KeepsEnded(d) ==
  LET i == dev[d].ended IN i # None => xfer[i].by # None /\ (xfer[i].by = d => xfer[i].out = "closed")
DaemonHolds(d) == KeepsOffer(d) /\ KeepsPending(d) /\ KeepsCompleted(d) /\ KeepsEnded(d)

\* What the two runs of a transfer say of it.
HasComplete(t, d, i) == \E k \in 1 .. Len(t[d][i]) : t[d][i][k] = "complete"
Described(i) ==
  /\ xfer[i].by = None <=> xfer[i].out = "none"
  /\ xfer[i].by # None => xfer[i].by \in Senders /\ i \in plan.ids
  /\ xfer[i].by = None => /\ xfer[i].in = "none" /\ ~xfer[i].outLive /\ ~xfer[i].allEnded
                          /\ \A d \in Devices : ~HasComplete(told, d, i)
IsLast(i) == xfer[i].out = "open" => dev[xfer[i].by].offered = i
Ended(x) == /\ x.in = "marked" => x.allEnded
            /\ x.done \in {"sent", "taken"} => x.allEnded
            /\ x.out = "returned" => ~x.outLive
RunHolds(i) == Described(i) /\ IsLast(i) /\ Ended(xfer[i])

\* One side sends: it offers nothing while a transfer is active.
CanCancel == RunIsActive /\ \A d \in Devices : dev[d].offered # None => dev[d].cancel = None
\* One transfer: a run of the sender that something else ended is active no more.
Left(x) == x.out \in {"accepted", "serving", "returned"} /\ ~x.outLive /\ ~x.idle /\ ~x.allEnded
WasDropped(i) == Left(xfer[i]) /\ dev[xfer[i].by].up => dev[xfer[i].by].active # i
Confirmed == CompleteIsTrue /\ \A i \in Ids : WasDropped(i)

IInv == /\ TypeOK
        /\ AllSay(wire, xfer)
        /\ \A d \in Devices : DaemonHolds(d)
        /\ \A i \in Ids : RunHolds(i)
        /\ OneSided => CanCancel
        /\ OneTransfer => Confirmed

-----------------------------------------------------------------------------
(* Lemmas on the operators.                                                 *)

\* There are two daemons.
LEMMA Peers ==
  ASSUME NEW d \in Devices
  PROVE  /\ Peer(d) \in Devices /\ Peer(d) # d /\ Peer(Peer(d)) = d
         /\ \A e \in Devices : e = d \/ e = Peer(d)
         /\ d # None
<1>1. PICK a, b \in Devices : a # b /\ Devices = {a, b}
  BY DevicesAssumption
<1>2. ASSUME NEW e \in Devices PROVE \E f \in Devices : f # e
  BY <1>1
<1>3. ASSUME NEW e \in Devices PROVE Peer(e) \in Devices /\ Peer(e) # e
  BY <1>2, <1>3 DEF Peer
<1> QED
  BY <1>1, <1>3, NamesAssumption

\* Fields of a run that neither the end of its contexts nor a closed offer changes.
KeptBut(y, x) ==
  /\ y.by = x.by /\ y.idle = x.idle /\ y.finished = x.finished
  /\ y.allEnded = x.allEnded /\ y.done = x.done /\ y.canceled = x.canceled
  /\ y.outSess = x.outSess /\ y.inSess = x.inSess /\ y.rxPaused = x.rxPaused

Kept(y, x) == KeptBut(y, x) /\ y.in = x.in

\* A run replaced by one of its type.
LEMMA RunReplaced ==
  ASSUME NEW x \in [Ids -> Runs], NEW i \in Ids, NEW r \in Runs
  PROVE  /\ [x EXCEPT ![i] = r] \in [Ids -> Runs]
         /\ [x EXCEPT ![i] = r][i] = r
         /\ \A j \in Ids : j # i => [x EXCEPT ![i] = r][j] = x[j]
  OBVIOUS

\* transferCancel ends the context of one run, on its own side.
LEMMA CancelRunIs ==
  ASSUME TypeOK, NEW x \in [Ids -> Runs], NEW d \in Devices
  PROVE  /\ CancelRun(x, d) \in [Ids -> Runs]
         /\ \A i \in Ids : LET y == CancelRun(x, d)[i] IN
              /\ Kept(y, x[i]) /\ y.out = x[i].out
              /\ y.outLive => x[i].outLive
              /\ y.inLive => x[i].inLive
              /\ x[i].outLive /\ ~y.outLive => i = dev[d].cancel /\ x[i].by = d
              /\ i = dev[d].cancel => IF x[i].by = d THEN ~y.outLive ELSE ~y.inLive
<1> DEFINE c == dev[d].cancel
<1>1. c \in SomeId
  BY DEF TypeOK, Daemons
<1>2. CASE c = None
  <2>1. CancelRun(x, d) = x
    BY <1>2 DEF CancelRun
  <2> QED
    BY <2>1, <1>2, NamesAssumption DEF Kept, KeptBut
<1>3. CASE c # None
  <2>1. c \in Ids
    BY <1>1, <1>3 DEF SomeId
  <2>2. CASE x[c].by = d
    <3> DEFINE r == [x[c] EXCEPT !.outLive = FALSE]
    <3>0. x[c] \in Runs
      BY <2>1
    <3>1. r \in Runs /\ Kept(r, x[c]) /\ r.out = x[c].out /\ ~r.outLive /\ r.inLive = x[c].inLive
      BY <3>0 DEF Runs, Kept, KeptBut
    <3>2. CancelRun(x, d) = [x EXCEPT ![c] = r]
      BY <2>2, <1>3 DEF CancelRun
    <3> HIDE DEF r
    <3> QED
      BY <2>1, <2>2, <3>1, <3>2, RunReplaced DEF Kept, KeptBut
  <2>3. CASE x[c].by # d
    <3> DEFINE r == [x[c] EXCEPT !.inLive = FALSE]
    <3>0. x[c] \in Runs
      BY <2>1
    <3>1. r \in Runs /\ Kept(r, x[c]) /\ r.out = x[c].out /\ ~r.inLive /\ r.outLive = x[c].outLive
      BY <3>0 DEF Runs, Kept, KeptBut
    <3>2. CancelRun(x, d) = [x EXCEPT ![c] = r]
      BY <2>3, <1>3 DEF CancelRun
    <3> HIDE DEF r
    <3> QED
      BY <2>1, <2>3, <3>1, <3>2, RunReplaced DEF Kept, KeptBut
  <2> QED
    BY <2>2, <2>3
<1> QED
  BY <1>2, <1>3

Cancelled(y, s, d, j) ==
  /\ Kept(y, s) /\ y.out = s.out
  /\ y.outLive => s.outLive
  /\ y.inLive => s.inLive
  /\ j = dev[d].cancel => IF s.by = d THEN ~y.outLive ELSE ~y.inLive

LEMMA CancelRunType ==
  ASSUME TypeOK, NEW x \in [Ids -> Runs], NEW d \in Devices
  PROVE  /\ CancelRun(x, d) \in [Ids -> Runs]
         /\ \A j \in Ids : Cancelled(CancelRun(x, d)[j], x[j], d, j)
BY CancelRunIs DEF Cancelled

\* close ends one offer.
LEMMA CloseOfferIs ==
  ASSUME NEW x \in [Ids -> Runs], NEW o \in SomeId
  PROVE  /\ CloseOffer(x, o) \in [Ids -> Runs]
         /\ \A i \in Ids : /\ i # o => CloseOffer(x, o)[i] = x[i]
                           /\ LET y == CloseOffer(x, o)[i] IN
                              /\ Kept(y, x[i]) /\ y.outLive = x[i].outLive /\ y.inLive = x[i].inLive
                              /\ i = o => y.out = "closed"
<1>1. CASE o = None
  BY <1>1, NamesAssumption DEF CloseOffer, Kept, KeptBut
<1>2. CASE o # None
  <2> DEFINE r == [x[o] EXCEPT !.out = "closed"]
  <2>1. o \in Ids
    BY <1>2 DEF SomeId
  <2>2. r \in Runs /\ Kept(r, x[o]) /\ r.outLive = x[o].outLive /\ r.inLive = x[o].inLive /\ r.out = "closed"
    BY <2>1 DEF Runs, Kept, KeptBut, Outs
  <2>3. CloseOffer(x, o) = [x EXCEPT ![o] = r]
    BY <1>2 DEF CloseOffer
  <2> HIDE DEF r
  <2> QED
    BY <2>1, <2>2, <2>3, RunReplaced DEF Kept, KeptBut
<1> QED
  BY <1>1, <1>2

\* dropTransfers: both.
LEMMA DropRunsIs ==
  ASSUME TypeOK, NEW d \in Devices
  PROVE  /\ DropRuns(xfer, d) \in [Ids -> Runs]
         /\ \A i \in Ids : LET y == DropRuns(xfer, d)[i] IN
              /\ Kept(y, xfer[i])
              /\ y.out = IF i = dev[d].offered THEN "closed" ELSE xfer[i].out
              /\ y.outLive => xfer[i].outLive
              /\ y.inLive => xfer[i].inLive
              /\ xfer[i].outLive /\ ~y.outLive => i = dev[d].cancel /\ xfer[i].by = d
              /\ i = dev[d].cancel => IF xfer[i].by = d THEN ~y.outLive ELSE ~y.inLive
<1> DEFINE x == CancelRun(xfer, d)
<1>1. xfer \in [Ids -> Runs] /\ dev[d].offered \in SomeId
  BY DEF TypeOK, Daemons
<1>2. x \in [Ids -> Runs]
  BY <1>1, CancelRunIs
<1>3. \A i \in Ids : LET y == x[i] IN
         /\ Kept(y, xfer[i]) /\ y.out = xfer[i].out
         /\ y.outLive => xfer[i].outLive
         /\ y.inLive => xfer[i].inLive
         /\ xfer[i].outLive /\ ~y.outLive => i = dev[d].cancel /\ xfer[i].by = d
         /\ i = dev[d].cancel => IF xfer[i].by = d THEN ~y.outLive ELSE ~y.inLive
  BY <1>1, CancelRunIs
<1>4. DropRuns(xfer, d) = CloseOffer(x, dev[d].offered)
  BY DEF DropRuns
<1> HIDE DEF x
<1>5. DropRuns(xfer, d) \in [Ids -> Runs]
  BY <1>1, <1>2, <1>4, CloseOfferIs
<1>6. \A i \in Ids : LET y == DropRuns(xfer, d)[i] IN
        /\ Kept(y, x[i]) /\ y.outLive = x[i].outLive /\ y.inLive = x[i].inLive
        /\ y.out = IF i = dev[d].offered THEN "closed" ELSE x[i].out
  BY <1>1, <1>2, <1>4, CloseOfferIs
<1> QED
  BY <1>3, <1>5, <1>6 DEF Kept, KeptBut

-----------------------------------------------------------------------------
(* Lemmas on the wires.                                                     *)

With(w, d, n, q) == [w EXCEPT ![d][n] = q]
QueueSays(x, d, q) == \A k \in 1 .. Len(q) : SaysOf(x, d, q[k])

\* One session of one daemon gets another queue, of messages that say what holds.
LEMMA WireReplaced ==
  ASSUME NEW w \in Wires, NEW x, AllSay(w, x), NEW d \in Devices, NEW n \in 1 .. MaxSessions,
         NEW q \in Seq(Messages), QueueSays(x, d, q)
  PROVE  With(w, d, n, q) \in Wires /\ AllSay(With(w, d, n, q), x)
<1> DEFINE v == With(w, d, n, q)
<1>1. v \in Wires
  BY DEF Wires, With
<1>2. ASSUME NEW e \in Devices, NEW m \in 1 .. MaxSessions
      PROVE  v[e][m] = IF e = d /\ m = n THEN q ELSE w[e][m]
  BY DEF Wires, With
<1>3. ASSUME NEW e \in Devices, NEW m \in 1 .. MaxSessions, NEW k \in 1 .. Len(v[e][m])
      PROVE  SaysOf(x, e, v[e][m][k])
  BY <1>2 DEF AllSay, QueueSays
<1> QED
  BY <1>1, <1>3 DEF AllSay

\* A message sent.
LEMMA SentOnIs ==
  ASSUME NEW w \in Wires, NEW x, AllSay(w, x), NEW d \in Devices, NEW n \in 0 .. MaxSessions,
         NEW type, NEW i, Msg(type, i) \in Messages, SaysOf(x, Peer(d), Msg(type, i))
  PROVE  SentOn(w, d, n, type, i) \in Wires /\ AllSay(SentOn(w, d, n, type, i), x)
<1>1. CASE n = NoSession \/ n \in cut
  BY <1>1 DEF SentOn
<1>2. CASE ~(n = NoSession \/ n \in cut)
  <2> DEFINE q == w[Peer(d)][n]
             m == Msg(type, i)
  <2>1. n \in 1 .. MaxSessions
    BY <1>2, SessionsAssumption DEF NoSession
  <2>2. Peer(d) \in Devices
    BY Peers
  <2>3. q \in Seq(Messages)
    BY <2>1, <2>2 DEF Wires
  <2>4. SentOn(w, d, n, type, i) = With(w, Peer(d), n, Append(q, m))
    BY <1>2 DEF SentOn, With
  <2>5. QueueSays(x, Peer(d), q)
    BY <2>1, <2>2 DEF AllSay, QueueSays
  <2>6. m \in Messages /\ SaysOf(x, Peer(d), m)
    OBVIOUS
  <2> HIDE DEF q, m
  <2>7. Append(q, m) \in Seq(Messages) /\ QueueSays(x, Peer(d), Append(q, m))
    BY <2>3, <2>5, <2>6, AppendProperties DEF QueueSays
  <2> QED
    BY <2>1, <2>2, <2>4, <2>7, WireReplaced
<1> QED
  BY <1>1, <1>2

\* What is left after one was read.
LEMMA TakenIs ==
  ASSUME wire \in Wires, NEW x, AllSay(wire, x), NEW d \in Devices, NEW k \in 1 .. MaxSessions, wire[d][k] # <<>>
  PROVE  /\ Taken(d, k) \in Wires /\ AllSay(Taken(d, k), x)
         /\ Head(wire[d][k]) \in Messages /\ SaysOf(x, d, Head(wire[d][k]))
<1> DEFINE q == wire[d][k]
<1>1. q \in Seq(Messages)
  BY DEF Wires
<1>2. QueueSays(x, d, q)
  BY DEF AllSay, QueueSays
<1>3. Taken(d, k) = With(wire, d, k, Tail(q))
  BY DEF Taken, With
<1>4. q # <<>>
  OBVIOUS
<1> HIDE DEF q
<1>5. Tail(q) \in Seq(Messages) /\ Head(q) \in Messages /\ Len(q) \in Nat \ {0}
      /\ Head(q) = q[1] /\ Len(Tail(q)) = Len(q) - 1 /\ \A j \in 1 .. Len(q) - 1 : Tail(q)[j] = q[j + 1]
  BY <1>1, <1>4, HeadTailProperties, LenProperties
<1>6. QueueSays(x, d, Tail(q))
  BY <1>2, <1>5 DEF QueueSays
<1>7. SaysOf(x, d, Head(q))
  BY <1>2, <1>5 DEF QueueSays
<1>8. Taken(d, k) \in Wires /\ AllSay(Taken(d, k), x)
  BY <1>3, <1>5, <1>6, WireReplaced
<1> QED
  BY <1>5, <1>7, <1>8 DEF q

\* A prefix says what the whole did.
LEMMA PrefixSays ==
  ASSUME NEW q \in Seq(Messages), NEW x, NEW d, QueueSays(x, d, q), NEW j \in 0 .. Len(q)
  PROVE  /\ SubSeq(q, 1, j) \in Seq(Messages)
         /\ QueueSays(x, d, SubSeq(q, 1, j))
<1>1. Len(q) \in Nat
  BY LenProperties
<1>2. SubSeq(q, 1, j) \in Seq(Messages) /\ Len(SubSeq(q, 1, j)) = j
      /\ \A k \in 1 .. j : SubSeq(q, 1, j)[k] = q[k]
  BY <1>1, SubSeqProperties
<1> QED
  BY <1>1, <1>2 DEF QueueSays

\* What is left on a session closed here.
LEMMA ClosingIs ==
  ASSUME NEW w \in Wires, NEW x, AllSay(w, x), NEW d \in Devices, NEW n \in 0 .. MaxSessions,
         NEW v \in Closing(w, d, n)
  PROVE  v \in Wires /\ AllSay(v, x)
<1>1. CASE n = NoSession
  BY <1>1 DEF Closing
<1>2. CASE n # NoSession
  <2> DEFINE q == w[d][n]
  <2>1. n \in 1 .. MaxSessions
    BY <1>2, SessionsAssumption DEF NoSession
  <2>2. q \in Seq(Messages) /\ QueueSays(x, d, q)
    BY <2>1 DEF Wires, AllSay, QueueSays
  <2>3. PICK j \in 0 .. IF Len(q) = 0 THEN 0 ELSE 1 : v = With(w, d, n, SubSeq(q, 1, j))
    BY <1>2 DEF Closing, With
  <2>4. j \in 0 .. Len(q)
    BY <2>2, <2>3, LenProperties
  <2> HIDE DEF q
  <2> QED
    BY <2>1, <2>2, <2>3, <2>4, PrefixSays, WireReplaced
<1> QED
  BY <1>1, <1>2

\* Nothing is taken back: a transfer keeps its sender, and its items stay ended.
Later(y, x) == /\ x.by # None => y.by = x.by
               /\ x.allEnded => y.allEnded
LEMMA StillSay ==
  ASSUME NEW w \in Wires, NEW x, NEW y, AllSay(w, x), \A i \in Ids : Later(y[i], x[i])
  PROVE  AllSay(w, y)
<1> SUFFICES ASSUME NEW d \in Devices, NEW n \in 1 .. MaxSessions, NEW k \in 1 .. Len(w[d][n])
             PROVE  SaysOf(y, d, w[d][n][k])
  BY DEF AllSay
<1>1. SaysOf(x, d, w[d][n][k])
  BY DEF AllSay
<1>2. w[d][n][k] \in Messages
  <2>1. w[d][n] \in Seq(Messages)
    BY DEF Wires
  <2> QED
    BY <2>1, LenProperties
<1>3. Peer(d) # None
  BY Peers, NamesAssumption
<1>4. w[d][n][k].type \in {"offer", "complete"} => w[d][n][k].id \in Ids
  BY <1>2 DEF Messages
<1> QED
  BY <1>1, <1>3, <1>4 DEF SaysOf, Later

-----------------------------------------------------------------------------
(* What a step keeps.                                                       *)

\* A run goes on: it is never offered again, nor reopened.
GoesOn(y, x) == /\ y.by = x.by
                /\ x.out = "closed" => y.out = "closed"
                /\ y.out = "none" <=> x.out = "none"
                /\ x.by = None => y.in = "none" /\ ~y.outLive /\ ~y.allEnded
                /\ x.allEnded => y.allEnded
                /\ Ended(y)
Forward(y, x) == GoesOn(y, x) /\ (y.out = "open" => x.out = "open")
\* What daemon d holds goes on: its offer is open as long as it has it.
HoldsOffer(d) == IF dev'[d].offered = None THEN dev[d].offered # None => xfer'[dev[d].offered].out # "open"
                 ELSE dev'[d].offered = dev[d].offered /\ xfer'[dev[d].offered].out = "open"
HoldsRest(d) ==
  /\ dev'[d].pending \in {None, dev[d].pending} \/ KeepsPending(d)'
  /\ dev'[d].completed = dev[d].completed \/ KeepsCompleted(d)'
  /\ dev'[d].ended \in {None, dev[d].ended} \/ KeepsEnded(d)'
  /\ dev'[d].up => dev[d].up
HoldsOn(d) == HoldsOffer(d) /\ HoldsRest(d)
\* What was shown: nothing complete that is not.
ToldTruly ==
  \A d \in Devices : \A i \in Ids :
    HasComplete(told', d, i) =>
      \/ HasComplete(told, d, i)
      \/ xfer[i].by # None /\ (OneTransfer /\ xfer[i].by = d => xfer'[i].allEnded \/ ~dev'[d].up)

LEMMA FieldTypes ==
  ASSUME TypeOK
  PROVE  /\ \A d \in Devices :
              /\ dev[d] \in Daemons
              /\ dev[d].offered \in SomeId /\ dev[d].pending \in SomeId /\ dev[d].completed \in SomeId
              /\ dev[d].ended \in SomeId /\ dev[d].cancel \in SomeId /\ dev[d].active \in SomeId
              /\ dev[d].rx \in SomeId /\ dev[d].sess \in 0 .. MaxSessions /\ dev[d].up \in BOOLEAN
              /\ dev[d].last \in 1 .. MaxSessions
         /\ \A i \in Ids :
              /\ xfer[i] \in Runs /\ xfer[i].by \in Devices \cup {None}
              /\ xfer[i].inSess \in 0 .. MaxSessions /\ xfer[i].outSess \in 0 .. MaxSessions
              /\ xfer[i].outLive \in BOOLEAN /\ xfer[i].inLive \in BOOLEAN /\ xfer[i].allEnded \in BOOLEAN
         /\ \A i \in SomeId : i # None => i \in Ids
         /\ None \notin Ids /\ None \notin Devices
  BY NamesAssumption DEF TypeOK, Daemons, Runs, SomeId

\* All that a step has to show.
LEMMA FrameAny ==
  ASSUME IInv, TypeOK', plan' = plan, AllSay(wire', xfer),
         \A i \in Ids : GoesOn(xfer'[i], xfer[i]),
         \A d \in Devices : HoldsRest(d) /\ KeepsOffer(d)',
         \A i \in Ids : IsLast(i)',
         ToldTruly,
         OneSided => CanCancel',
         OneTransfer => \A i \in Ids : WasDropped(i)'
  PROVE  IInv'
<1>1. TypeOK /\ AllSay(wire', xfer) /\ (\A d \in Devices : DaemonHolds(d)) /\ (\A i \in Ids : RunHolds(i))
  BY DEF IInv
<1>2. AllSay(wire, xfer)'
  <2>1. wire' \in Wires
    BY DEF TypeOK
  <2>2. \A i \in Ids : Later(xfer'[i], xfer[i])
    BY DEF Later, GoesOn
  <2> QED
    BY <2>1, <2>2, StillSay
<1>3. ASSUME NEW d \in Devices PROVE DaemonHolds(d)'
  <2>1. HoldsRest(d) /\ DaemonHolds(d) /\ KeepsOffer(d)'
    BY <1>1
  <2>2. KeepsPending(d)'
    BY <2>1, <1>1, FieldTypes DEF HoldsRest, DaemonHolds, KeepsPending, GoesOn
  <2>3. KeepsCompleted(d)'
    BY <2>1, <1>1, FieldTypes DEF HoldsRest, DaemonHolds, KeepsCompleted, GoesOn
  <2>4. KeepsEnded(d)'
    BY <2>1, <1>1, FieldTypes DEF HoldsRest, DaemonHolds, KeepsEnded, GoesOn
  <2> QED
    BY <2>1, <2>2, <2>3, <2>4 DEF DaemonHolds
<1>4. ASSUME NEW i \in Ids PROVE RunHolds(i)'
  <2>1. GoesOn(xfer'[i], xfer[i]) /\ RunHolds(i) /\ IsLast(i)'
    BY <1>1
  <2>2. Described(i)'
    BY <2>1 DEF ToldTruly, RunHolds, Described, GoesOn
  <2> QED
    BY <2>1, <2>2 DEF RunHolds, GoesOn
<1>5. OneTransfer => Confirmed'
  <2> SUFFICES ASSUME OneTransfer, NEW i \in Ids, Shows(i, "complete")', dev'[xfer'[i].by].up
               PROVE  xfer'[i].allEnded
    BY DEF Confirmed, CompleteIsTrue
  <2> DEFINE d == xfer[i].by
  <2>1. xfer'[i].by = d /\ (xfer[i].allEnded => xfer'[i].allEnded)
    BY DEF GoesOn
  <2>2. d # None /\ HasComplete(told', d, i)
    BY <2>1 DEF Shows, Shown, HasComplete
  <2>3. d \in Devices
    BY <2>2, <1>1, FieldTypes
  <2>4. HasComplete(told, d, i) => xfer[i].allEnded
    BY <2>1, <2>2, <2>3 DEF IInv, Confirmed, CompleteIsTrue, Shows, Shown, HasComplete, HoldsRest
  <2> QED
    BY <2>1, <2>2, <2>3, <2>4 DEF ToldTruly
<1> QED
  BY <1>2, <1>3, <1>4, <1>5 DEF IInv

LEMMA Frame ==
  ASSUME IInv, TypeOK', plan' = plan, AllSay(wire', xfer),
         \A i \in Ids : Forward(xfer'[i], xfer[i]),
         \A d \in Devices : HoldsOn(d),
         ToldTruly,
         OneSided => CanCancel',
         OneTransfer => \A i \in Ids : WasDropped(i)'
  PROVE  IInv'
<1>1. TypeOK /\ (\A d \in Devices : DaemonHolds(d)) /\ (\A i \in Ids : RunHolds(i))
  BY DEF IInv
<1>2. ASSUME NEW d \in Devices PROVE KeepsOffer(d)'
  <2>1. HoldsOffer(d) /\ KeepsOffer(d)
    BY <1>1 DEF HoldsOn, DaemonHolds
  <2> QED
    BY <2>1, <1>1, FieldTypes DEF HoldsOffer, KeepsOffer, Forward, GoesOn
<1>3. ASSUME NEW i \in Ids PROVE IsLast(i)'
  <2> SUFFICES ASSUME xfer'[i].out = "open" PROVE dev'[xfer'[i].by].offered = i
    BY DEF IsLast
  <2> DEFINE d == xfer[i].by
  <2>1. Forward(xfer'[i], xfer[i]) /\ RunHolds(i)
    BY <1>1
  <2>2. xfer[i].out = "open" /\ xfer'[i].by = d /\ dev[d].offered = i
    BY <2>1 DEF RunHolds, IsLast, Forward, GoesOn
  <2>3. d \in Devices
    BY <2>1, <2>2, <1>1, FieldTypes DEF RunHolds, Described
  <2>4. HoldsOffer(d) /\ i # None
    BY <2>3, FieldTypes, <1>1 DEF HoldsOn
  <2> QED
    BY <2>2, <2>4 DEF HoldsOffer
<1>4. (\A i \in Ids : GoesOn(xfer'[i], xfer[i])) /\ \A d \in Devices : HoldsRest(d)
  BY DEF Forward, HoldsOn
<1> QED
  BY <1>2, <1>3, <1>4, FrameAny

\* Runs that do not come to life, and daemons that keep what is active or have no run left.
Alive(x, d) == \/ x.by = d /\ x.outLive
               \/ x.by = Peer(d) /\ x.inLive /\ x.in = "receiving"
LEMMA StillActive ==
  ASSUME IInv, OneSided,
         \A i \in Ids : \A d \in Devices : Alive(xfer'[i], d) => Alive(xfer[i], d),
         \A d \in Devices : dev'[d].offered \in {None, dev[d].offered},
         \A d \in Devices : \/ dev'[d].cancel = dev[d].cancel /\ dev'[d].active = dev[d].active
                            \/ /\ \A i \in Ids : ~Alive(xfer'[i], d)
                               /\ dev'[d].cancel = None
  PROVE  CanCancel'
<1>1. \A d \in Devices : \A i \in Ids : Alive(xfer[i], d) => dev[d].cancel = i /\ dev[d].active = i
  BY DEF IInv, CanCancel, RunIsActive, LiveRuns, Alive
<1>2. \A d \in Devices : \A i \in Ids : Alive(xfer'[i], d) => dev'[d].cancel = i /\ dev'[d].active = i
  BY <1>1
<1>3. RunIsActive'
  BY <1>2 DEF RunIsActive, LiveRuns, Alive
<1>4. \A d \in Devices : dev[d].offered # None => dev[d].cancel = None
  BY DEF IInv, CanCancel
<1>5. \A d \in Devices : dev'[d].offered # None => dev'[d].cancel = None
  BY <1>4
<1> QED
  BY <1>3, <1>5 DEF CanCancel

\* The end of transferCancel leaves no run alive on its side.
LEMMA NoneAlive ==
  ASSUME IInv, OneSided, NEW d \in Devices, NEW i \in Ids, dev[d].cancel # i
  PROVE  ~Alive(xfer[i], d)
  BY DEF IInv, CanCancel, RunIsActive, LiveRuns, Alive

\* What is left of the sender's runs was left before, or is active no more.
LEMMA StillLeft ==
  ASSUME IInv, OneTransfer,
         \A i \in Ids : xfer'[i].by = xfer[i].by,
         \A i \in Ids : Left(xfer'[i]) /\ dev'[xfer[i].by].up =>
            \/ Left(xfer[i]) /\ dev[xfer[i].by].up /\ (dev'[xfer[i].by].active = i => dev[xfer[i].by].active = i)
            \/ dev'[xfer[i].by].active # i
  PROVE  \A i \in Ids : WasDropped(i)'
<1>1. \A i \in Ids : WasDropped(i)
  BY DEF IInv, Confirmed
<1> QED
  BY <1>1 DEF WasDropped

-----------------------------------------------------------------------------
(* The steps of a run that change the run alone.                            *)

LEMMA OneRun ==
  ASSUME IInv, NEW i \in Ids, NEW r \in Runs,
         UNCHANGED <<dev, cut, sessions, dialing, plan>>,
         xfer' = [xfer EXCEPT ![i] = r],
         wire' \in Wires, AllSay(wire', xfer),
         told' \in [Devices -> [Ids -> Seq({"complete", "failed"})]], ToldTruly,
         Forward(r, xfer[i]), xfer[i].out = "open" => r.out = "open",
         \A d \in Devices : Alive(r, d) => Alive(xfer[i], d),
         Left(r) => Left(xfer[i])
  PROVE  IInv'
<1>1. TypeOK /\ (\A d \in Devices : DaemonHolds(d)) /\ (\A j \in Ids : RunHolds(j))
  BY DEF IInv
<1>2. xfer \in [Ids -> Runs]
  BY <1>1 DEF TypeOK
<1>3. xfer'[i] = r /\ \A j \in Ids : j # i => xfer'[j] = xfer[j]
  BY <1>2
<1>4. TypeOK'
  <2>1. xfer' \in [Ids -> Runs]
    BY <1>2
  <2> QED
    BY <1>1, <2>1 DEF TypeOK
<1>5. \A j \in Ids : Forward(xfer'[j], xfer[j])
  <2>1. \A j \in Ids : Forward(xfer[j], xfer[j])
    BY <1>1 DEF Forward, GoesOn, RunHolds, Described
  <2> QED
    BY <1>3, <2>1
<1>6. ASSUME NEW d \in Devices PROVE HoldsOn(d)
  <2>1. dev[d].offered # None => dev[d].offered \in Ids /\ xfer[dev[d].offered].out = "open"
    BY <1>1, FieldTypes DEF DaemonHolds, KeepsOffer
  <2> QED
    BY <1>3, <2>1 DEF HoldsOn, HoldsOffer, HoldsRest
<1>7. OneSided => CanCancel'
  <2>1. \A j \in Ids : \A d \in Devices : Alive(xfer'[j], d) => Alive(xfer[j], d)
    BY <1>3
  <2> QED
    BY <2>1, StillActive
<1>8. OneTransfer => \A j \in Ids : WasDropped(j)'
  <2>1. \A j \in Ids : xfer'[j].by = xfer[j].by
    BY <1>5 DEF Forward, GoesOn
  <2>2. \A j \in Ids : Left(xfer'[j]) => Left(xfer[j])
    BY <1>3
  <2> QED
    BY <2>1, <2>2, StillLeft
<1> QED
  BY <1>4, <1>5, <1>6, <1>7, <1>8, Frame

\* Nothing was said.
LEMMA Silent ==
  ASSUME IInv, UNCHANGED <<wire, told>>
  PROVE  /\ wire' \in Wires /\ AllSay(wire', xfer)
         /\ told' \in [Devices -> [Ids -> Seq({"complete", "failed"})]] /\ ToldTruly
  BY DEF IInv, TypeOK, ToldTruly

LEMMA ServesStep ==
  ASSUME IInv, NEW i \in Ids, Serves(i)
  PROVE  IInv'
<1> DEFINE x == xfer[i]
           r == [xfer[i] EXCEPT !.out = "serving"]
<1>1. x \in Runs /\ RunHolds(i)
  BY FieldTypes DEF IInv
<1>2. r \in Runs /\ xfer' = [xfer EXCEPT ![i] = r]
  BY <1>1 DEF Serves, Runs, Outs
<1>3. x.out = "accepted"
  BY DEF Serves
<1>4. Forward(r, x) /\ (\A d \in Devices : Alive(r, d) => Alive(x, d)) /\ (Left(r) => Left(x))
  BY <1>1, <1>3 DEF Runs, Forward, GoesOn, RunHolds, Described, Ended, Alive, Left
<1>5. UNCHANGED <<dev, wire, cut, sessions, dialing, told, plan>>
  BY DEF Serves
<1> HIDE DEF r
<1> QED
  BY <1>2, <1>3, <1>4, <1>5, Silent, OneRun

LEMMA GiveUpStep ==
  ASSUME IInv, NEW i \in Ids, GiveUp(i)
  PROVE  IInv'
<1> DEFINE x == xfer[i]
           r == [xfer[i] EXCEPT !.finished = TRUE, !.idle = TRUE, !.outLive = FALSE]
<1>1. x \in Runs /\ RunHolds(i)
  BY FieldTypes DEF IInv
<1>2. r \in Runs /\ xfer' = [xfer EXCEPT ![i] = r]
  BY <1>1 DEF GiveUp, Runs, TypeOK, IInv
<1>3. x.out = "serving"
  BY DEF GiveUp
<1>4. Forward(r, x) /\ (\A d \in Devices : Alive(r, d) => Alive(x, d)) /\ (Left(r) => Left(x))
  BY <1>1, <1>3 DEF Runs, Forward, GoesOn, RunHolds, Described, Ended, Alive, Left
<1>5. UNCHANGED <<dev, wire, cut, sessions, dialing, told, plan>>
  BY DEF GiveUp
<1> HIDE DEF r
<1> QED
  BY <1>2, <1>3, <1>4, <1>5, Silent, OneRun

LEMMA DoneArrivesStep ==
  ASSUME IInv, NEW i \in Ids, DoneArrives(i)
  PROVE  IInv'
<1> DEFINE x == xfer[i]
           r == [xfer[i] EXCEPT !.done = "taken", !.finished = TRUE, !.outLive = FALSE]
<1>1. x \in Runs /\ RunHolds(i)
  BY FieldTypes DEF IInv
<1>2. r \in Runs /\ xfer' = [xfer EXCEPT ![i] = r]
  BY <1>1 DEF DoneArrives, Runs, Outs, Ins, TypeOK, IInv
<1>3. x.out = "serving" /\ x.done = "sent"
  BY DEF DoneArrives
<1>4. Forward(r, x) /\ (\A d \in Devices : Alive(r, d) => Alive(x, d)) /\ (Left(r) => Left(x))
  BY <1>1, <1>3 DEF Runs, Forward, GoesOn, RunHolds, Described, Ended, Alive, Left
<1>5. UNCHANGED <<dev, wire, cut, sessions, dialing, told, plan>>
  BY DEF DoneArrives
<1> HIDE DEF r
<1> QED
  BY <1>2, <1>3, <1>4, <1>5, Silent, OneRun

LEMMA ServeReturnsStep ==
  ASSUME IInv, NEW i \in Ids, ServeReturns(i)
  PROVE  IInv'
<1> DEFINE x == xfer[i]
           r == [xfer[i] EXCEPT !.out = "returned", !.finished = TRUE]
<1>1. x \in Runs /\ RunHolds(i)
  BY FieldTypes DEF IInv
<1>2. r \in Runs /\ xfer' = [xfer EXCEPT ![i] = r]
  BY <1>1 DEF ServeReturns, Runs, Outs, Ins, TypeOK, IInv
<1>3. x.out = "serving" /\ ~x.outLive
  BY DEF ServeReturns
<1>4. Forward(r, x) /\ (\A d \in Devices : Alive(r, d) => Alive(x, d)) /\ (Left(r) => Left(x))
  BY <1>1, <1>3 DEF Runs, Forward, GoesOn, RunHolds, Described, Ended, Alive, Left
<1>5. UNCHANGED <<dev, wire, cut, sessions, dialing, told, plan>>
  BY DEF ServeReturns
<1> HIDE DEF r
<1> QED
  BY <1>2, <1>3, <1>4, <1>5, Silent, OneRun

LEMMA RunReturnsStep ==
  ASSUME IInv, NEW i \in Ids, RunReturns(i)
  PROVE  IInv'
<1> DEFINE x == xfer[i]
           r == [xfer[i] EXCEPT !.in = "ran", !.canceled = ~xfer[i].inLive]
<1>1. x \in Runs /\ RunHolds(i)
  BY FieldTypes DEF IInv
<1>2. r \in Runs /\ xfer' = [xfer EXCEPT ![i] = r]
  BY <1>1 DEF RunReturns, Runs, Outs, Ins, TypeOK, IInv
<1>3. x.in = "receiving"
  BY DEF RunReturns
<1>4. Forward(r, x) /\ (\A d \in Devices : Alive(r, d) => Alive(x, d)) /\ (Left(r) => Left(x)) /\ r.out = x.out
  BY <1>1, <1>3 DEF Runs, Forward, GoesOn, RunHolds, Described, Ended, Alive, Left
<1>5. UNCHANGED <<dev, wire, cut, sessions, dialing, told, plan>>
  BY DEF RunReturns
<1> HIDE DEF r
<1> QED
  BY <1>2, <1>3, <1>4, <1>5, Silent, OneRun

LEMMA ItemsEndStep ==
  ASSUME IInv, NEW i \in Ids, ItemsEnd(i)
  PROVE  IInv'
<1> DEFINE x == xfer[i]
<1>0. PICK done \in {"sent", "lost"} : xfer' = [xfer EXCEPT ![i].allEnded = TRUE, ![i].done = done]
  BY DEF ItemsEnd
<1> DEFINE r == [xfer[i] EXCEPT !.allEnded = TRUE, !.done = done]
<1>1. x \in Runs /\ RunHolds(i)
  BY FieldTypes DEF IInv
<1>2. r \in Runs /\ xfer' = [xfer EXCEPT ![i] = r]
  BY <1>0, <1>1 DEF Runs, TypeOK, IInv
<1>3. x.in = "receiving" /\ x.out = "serving"
  BY DEF ItemsEnd
<1>4. Forward(r, x) /\ (\A d \in Devices : Alive(r, d) => Alive(x, d)) /\ (Left(r) => Left(x))
  BY <1>1, <1>3 DEF Runs, Forward, GoesOn, RunHolds, Described, Ended, Alive, Left
<1>5. UNCHANGED <<dev, wire, cut, sessions, dialing, told, plan>>
  BY DEF ItemsEnd
<1> HIDE DEF r
<1> QED
  BY <1>2, <1>3, <1>4, <1>5, Silent, OneRun

\* A message of daemon d about transfer i, on its session.
LEMMA SentIs ==
  ASSUME TypeOK, NEW w \in Wires, NEW x, AllSay(w, x), NEW d \in Devices, NEW type, NEW i,
         Msg(type, i) \in Messages, SaysOf(x, Peer(d), Msg(type, i))
  PROVE  Sent(w, d, type, i) \in Wires /\ AllSay(Sent(w, d, type, i), x)
  BY FieldTypes, SentOnIs DEF Sent

\* Messages that say nothing of a transfer.
LEMMA PlainMessage ==
  ASSUME NEW x, NEW d, NEW i \in SomeId, NEW type
  PROVE  /\ type \in {"cancel", "pause", "resume", "disconnect"} => Msg(type, i) \in Messages /\ SaysOf(x, d, Msg(type, i))
         /\ type \in {"accept", "reject", "failed", "check"} /\ i # None => Msg(type, i) \in Messages /\ SaysOf(x, d, Msg(type, i))
         /\ type = "complete" /\ i # None /\ x[i].allEnded => Msg(type, i) \in Messages /\ SaysOf(x, d, Msg(type, i))
         /\ type = "offer" /\ i # None /\ x[i].by = Peer(d) => Msg(type, i) \in Messages /\ SaysOf(x, d, Msg(type, i))
<1>1. i # None => i \in Ids
  BY DEF SomeId
<1> QED
  BY <1>1 DEF Msg, Messages, SaysOf

\* What the user is told.
LEMMA TellIs ==
  ASSUME IInv, NEW d \in Devices, NEW i \in Ids, NEW what \in {"complete", "failed"}, Tell(d, i, what),
         what = "complete" =>
           xfer[i].by # None /\ (OneTransfer /\ xfer[i].by = d => xfer'[i].allEnded \/ ~dev'[d].up)
  PROVE  told' \in [Devices -> [Ids -> Seq({"complete", "failed"})]] /\ ToldTruly
<1> DEFINE Shown2 == {"complete", "failed"}
           q == told[d][i]
<1>1. told \in [Devices -> [Ids -> Seq(Shown2)]]
  BY DEF IInv, TypeOK
<1>2. q \in Seq(Shown2)
  BY <1>1
<1>3. Append(q, what) \in Seq(Shown2)
  BY <1>2, AppendProperties
<1>4. told' = [told EXCEPT ![d][i] = Append(q, what)]
  BY DEF Tell
<1>5. ASSUME NEW e \in Devices, NEW j \in Ids
      PROVE  told'[e][j] = IF e = d /\ j = i THEN Append(q, what) ELSE told[e][j]
  BY <1>1, <1>4
<1>6. told' \in [Devices -> [Ids -> Seq(Shown2)]]
  BY <1>1, <1>3, <1>4
<1>7. ASSUME HasComplete(told', d, i) PROVE HasComplete(told, d, i) \/ what = "complete"
  <2>1. PICK k \in 1 .. Len(Append(q, what)) : Append(q, what)[k] = "complete"
    BY <1>5, <1>7 DEF HasComplete
  <2> HIDE DEF q
  <2>2. Len(Append(q, what)) = Len(q) + 1 /\ Len(q) \in Nat
        /\ Append(q, what)[Len(q) + 1] = what /\ \A m \in 1 .. Len(q) : Append(q, what)[m] = q[m]
    BY <1>2, AppendProperties, LenProperties
  <2>3. what = "complete" \/ \E m \in 1 .. Len(q) : q[m] = "complete"
    BY <2>1, <2>2
  <2> QED
    BY <2>3 DEF HasComplete, q
<1>8. ASSUME NEW e \in Devices, NEW j \in Ids, ~(e = d /\ j = i)
      PROVE  HasComplete(told', e, j) => HasComplete(told, e, j)
  BY <1>5, <1>8 DEF HasComplete
<1> QED
  BY <1>6, <1>7, <1>8 DEF ToldTruly

LEMMA SourceGoneStep ==
  ASSUME IInv, NEW i \in Ids, SourceGone(i)
  PROVE  IInv'
<1> DEFINE x == xfer[i]
           r == [xfer[i] EXCEPT !.out = "told"]
<1>1. x \in Runs /\ RunHolds(i) /\ TypeOK /\ wire \in Wires /\ AllSay(wire, xfer) /\ i \in SomeId /\ i # None
  BY FieldTypes DEF IInv, TypeOK, SomeId
<1>2. r \in Runs /\ xfer' = [xfer EXCEPT ![i] = r]
  BY <1>1 DEF SourceGone, Runs, Outs
<1>3. x.out = "accepted"
  BY DEF SourceGone
<1>4. Forward(r, x) /\ (\A d \in Devices : Alive(r, d) => Alive(x, d)) /\ (Left(r) => Left(x))
  BY <1>1, <1>3 DEF Runs, Forward, GoesOn, RunHolds, Described, Ended, Alive, Left
<1>5. x.by \in Devices
  BY <1>1, <1>3, FieldTypes DEF RunHolds, Described
<1>6. UNCHANGED <<dev, cut, sessions, dialing, plan>> /\ Tell(x.by, i, "failed") /\ wire' = Sent(wire, x.by, "failed", i)
  BY DEF SourceGone, TransferFailed
<1> HIDE DEF r
<1>7. wire' \in Wires /\ AllSay(wire', xfer)
  BY <1>1, <1>5, <1>6, SentIs, PlainMessage
<1>8. told' \in [Devices -> [Ids -> Seq({"complete", "failed"})]] /\ ToldTruly
  BY <1>5, <1>6, TellIs
<1> QED
  BY <1>2, <1>3, <1>4, <1>6, <1>7, <1>8, OneRun

LEMMA RunFailedStep ==
  ASSUME IInv, NEW i \in Ids, RunFailed(i)
  PROVE  IInv'
<1> DEFINE x == xfer[i]
           r == [xfer[i] EXCEPT !.in = "over"]
           d == Peer(x.by)
<1>1. x \in Runs /\ RunHolds(i) /\ TypeOK /\ wire \in Wires /\ AllSay(wire, xfer) /\ i \in SomeId /\ i # None
  BY FieldTypes DEF IInv, TypeOK, SomeId
<1>2. r \in Runs /\ xfer' = [xfer EXCEPT ![i] = r]
  BY <1>1 DEF RunFailed, Runs, Ins
<1>3. x.in = "ended"
  BY DEF RunFailed
<1>4. Forward(r, x) /\ (\A e \in Devices : Alive(r, e) => Alive(x, e)) /\ (Left(r) => Left(x)) /\ r.out = x.out
  BY <1>1, <1>3 DEF Runs, Forward, GoesOn, RunHolds, Described, Ended, Alive, Left
<1>5. d \in Devices
  BY <1>1, <1>3, FieldTypes, Peers DEF RunHolds, Described
<1>6. UNCHANGED <<dev, cut, sessions, dialing, plan>>
      /\ (UNCHANGED <<wire, told>> \/ (Tell(d, i, "failed") /\ wire' = Sent(wire, d, "failed", i)))
  BY DEF RunFailed, TransferFailed
<1> HIDE DEF r
<1>7. CASE UNCHANGED <<wire, told>>
  BY <1>2, <1>4, <1>6, <1>7, Silent, OneRun
<1>8. CASE Tell(d, i, "failed") /\ wire' = Sent(wire, d, "failed", i)
  <2> HIDE DEF d
  <2>1. wire' \in Wires /\ AllSay(wire', xfer)
    BY <1>1, <1>5, <1>8, SentIs, PlainMessage
  <2>2. told' \in [Devices -> [Ids -> Seq({"complete", "failed"})]] /\ ToldTruly
    BY <1>5, <1>8, TellIs
  <2> QED
    BY <1>2, <1>4, <1>6, <2>1, <2>2, OneRun
<1> QED
  BY <1>6, <1>7, <1>8

LEMMA SaysCompleteStep ==
  ASSUME IInv, NEW i \in Ids, SaysComplete(i)
  PROVE  IInv'
<1> DEFINE x == xfer[i]
           r == [xfer[i] EXCEPT !.in = "over"]
           d == Peer(x.by)
<1>1. x \in Runs /\ RunHolds(i) /\ TypeOK /\ wire \in Wires /\ AllSay(wire, xfer) /\ i \in SomeId /\ i # None
  BY FieldTypes DEF IInv, TypeOK, SomeId
<1>2. r \in Runs /\ xfer' = [xfer EXCEPT ![i] = r]
  BY <1>1 DEF SaysComplete, Runs, Ins
<1>3. x.in = "marked" /\ x.allEnded
  BY <1>1 DEF SaysComplete, RunHolds, Ended
<1>4. Forward(r, x) /\ (\A e \in Devices : Alive(r, e) => Alive(x, e)) /\ (Left(r) => Left(x)) /\ r.out = x.out
  BY <1>1, <1>3 DEF Runs, Forward, GoesOn, RunHolds, Described, Ended, Alive, Left
<1>5. d \in Devices /\ x.by \in Devices /\ x.by # d /\ x.by # None /\ x.inSess \in 0 .. MaxSessions
  BY <1>1, <1>3, FieldTypes, Peers DEF RunHolds, Described
<1>6. UNCHANGED <<dev, cut, sessions, dialing, plan>>
      /\ Tell(d, i, "complete") /\ wire' = SentOn(wire, d, x.inSess, "complete", i)
  BY DEF SaysComplete
<1> HIDE DEF r, d
<1>7. wire' \in Wires /\ AllSay(wire', xfer)
  BY <1>1, <1>3, <1>5, <1>6, SentOnIs, PlainMessage
<1>8. told' \in [Devices -> [Ids -> Seq({"complete", "failed"})]] /\ ToldTruly
  BY <1>5, <1>6, TellIs
<1> QED
  BY <1>2, <1>4, <1>6, <1>7, <1>8, OneRun

-----------------------------------------------------------------------------
(* The steps of a daemon that change nothing it has active or offered.      *)

\* The runs go on, and no offer, accept or end is among it.
RunsGoOn ==
  /\ xfer' \in [Ids -> Runs]
  /\ \A j \in Ids : /\ Forward(xfer'[j], xfer[j])
                    /\ xfer'[j].out = xfer[j].out
                    /\ \A e \in Devices : Alive(xfer'[j], e) => Alive(xfer[j], e)
                    /\ Left(xfer'[j]) => Left(xfer[j])

LEMMA DaemonStill ==
  ASSUME IInv, NEW d \in Devices, NEW q \in Daemons,
         dev' = [dev EXCEPT ![d] = q], plan' = plan,
         cut' \subseteq 1 .. MaxSessions, sessions' \in 1 .. MaxSessions, dialing' \in Devices \cup {None},
         wire' \in Wires, AllSay(wire', xfer), told' = told,
         RunsGoOn,
         q.up = dev[d].up, q.active = dev[d].active, q.cancel = dev[d].cancel,
         q.offered = dev[d].offered, q.ended = dev[d].ended,
         q.pending \in {None, dev[d].pending} \/ xfer[q.pending].by = Peer(d),
         q.completed = dev[d].completed \/ xfer[q.completed].allEnded
  PROVE  IInv'
<1>1. TypeOK /\ (\A e \in Devices : DaemonHolds(e)) /\ (\A j \in Ids : RunHolds(j))
  BY DEF IInv
<1>2. dev \in [Devices -> Daemons]
  BY <1>1 DEF TypeOK
<1>3. dev'[d] = q /\ \A e \in Devices : e # d => dev'[e] = dev[e]
  BY <1>2
<1>4. TypeOK'
  <2>1. dev' \in [Devices -> Daemons]
    BY <1>2
  <2>2. told' \in [Devices -> [Ids -> Seq({"complete", "failed"})]] /\ plan' \in Plans
    BY <1>1 DEF TypeOK
  <2> QED
    BY <2>1, <2>2 DEF TypeOK, RunsGoOn
<1>5. ASSUME NEW e \in Devices PROVE HoldsOn(e)
  <2>1. dev[e].offered # None => dev[e].offered \in Ids /\ xfer[dev[e].offered].out = "open"
    BY <1>1, FieldTypes DEF DaemonHolds, KeepsOffer
  <2>2. CASE e # d
    BY <1>3, <2>1, <2>2 DEF HoldsOn, HoldsOffer, HoldsRest, RunsGoOn
  <2>3. CASE e = d
    <3>1. q.pending # None => q.pending \in Ids
      BY DEF Daemons, SomeId
    <3>2. q.pending \in {None, dev[d].pending} \/ KeepsPending(d)'
      BY <1>3, <3>1 DEF KeepsPending, Forward, GoesOn, RunsGoOn
    <3>3. q.completed # None => q.completed \in Ids
      BY DEF Daemons, SomeId
    <3>4. q.completed = dev[d].completed \/ KeepsCompleted(d)'
      BY <1>3, <3>3 DEF KeepsCompleted, Forward, GoesOn, RunsGoOn
    <3> QED
      BY <1>3, <2>1, <2>3, <3>2, <3>4 DEF HoldsOn, HoldsOffer, HoldsRest, RunsGoOn
  <2> QED
    BY <2>2, <2>3
<1>6. OneSided => CanCancel'
  <2>1. \A e \in Devices : dev'[e].offered = dev[e].offered /\ dev'[e].cancel = dev[e].cancel /\ dev'[e].active = dev[e].active
    BY <1>3
  <2> QED
    BY <2>1, StillActive DEF RunsGoOn
<1>7. OneTransfer => \A j \in Ids : WasDropped(j)'
  <2>1. \A j \in Ids : xfer'[j].by = xfer[j].by
    BY DEF Forward, GoesOn, RunsGoOn
  <2>2. \A j \in Ids : Left(xfer[j]) => xfer[j].by \in Devices
    BY <1>1, FieldTypes DEF Left, RunHolds, Described
  <2>3. \A e \in Devices : dev'[e].up = dev[e].up /\ dev'[e].active = dev[e].active
    BY <1>3
  <2> QED
    BY <2>1, <2>2, <2>3, StillLeft DEF RunsGoOn
<1>8. ToldTruly
  BY DEF ToldTruly
<1> QED
  BY <1>4, <1>5, <1>6, <1>7, <1>8, Frame DEF RunsGoOn

\* The runs stay as they are.
LEMMA RunsStay ==
  ASSUME IInv, xfer' = xfer
  PROVE  RunsGoOn
  BY DEF IInv, TypeOK, RunsGoOn, Forward, GoesOn, RunHolds, Described

\* One of them changes.
LEMMA RunGoesOn ==
  ASSUME IInv, NEW i \in Ids, NEW r \in Runs, xfer' = [xfer EXCEPT ![i] = r],
         Forward(r, xfer[i]), r.out = xfer[i].out,
         \A e \in Devices : Alive(r, e) => Alive(xfer[i], e),
         Left(r) => Left(xfer[i])
  PROVE  RunsGoOn
<1>1. xfer \in [Ids -> Runs] /\ \A j \in Ids : RunHolds(j)
  BY DEF IInv, TypeOK
<1>2. xfer' \in [Ids -> Runs] /\ xfer'[i] = r /\ \A j \in Ids : j # i => xfer'[j] = xfer[j]
  BY <1>1
<1>3. \A j \in Ids : Forward(xfer[j], xfer[j])
  BY <1>1 DEF Forward, GoesOn, RunHolds, Described
<1> QED
  BY <1>2, <1>3 DEF RunsGoOn

\* What IInv says of everything else that a step may leave alone.
LEMMA Rest ==
  ASSUME IInv
  PROVE  /\ TypeOK /\ wire \in Wires /\ AllSay(wire, xfer)
         /\ cut \subseteq 1 .. MaxSessions /\ sessions \in 1 .. MaxSessions /\ dialing \in Devices \cup {None}
         /\ plan \in Plans /\ dev \in [Devices -> Daemons] /\ xfer \in [Ids -> Runs]
  BY DEF IInv, TypeOK

LEMMA AcceptStep ==
  ASSUME IInv, NEW d \in Devices, Accept(d)
  PROVE  IInv'
<1> DEFINE q == [dev[d] EXCEPT !.pending = None]
           i == dev[d].pending
           r == [xfer[i] EXCEPT !.in = "deciding", !.inSess = dev[d].sess]
<1>1. i \in Ids /\ dev[d] \in Daemons /\ dev[d].sess \in 0 .. MaxSessions
  BY Rest, FieldTypes DEF Accept
<1>2. xfer[i] \in Runs /\ RunHolds(i) /\ xfer[i].by = Peer(d) /\ i # None
  BY <1>1, FieldTypes DEF IInv, DaemonHolds, KeepsPending, Accept
<1>3. q \in Daemons /\ dev' = [dev EXCEPT ![d] = q]
  BY <1>1 DEF Accept, Daemons, SomeId
<1>4. q.up = dev[d].up /\ q.active = dev[d].active /\ q.cancel = dev[d].cancel /\ q.offered = dev[d].offered
      /\ q.ended = dev[d].ended /\ q.pending = None /\ q.completed = dev[d].completed
  BY <1>1 DEF Daemons
<1>5. UNCHANGED <<wire, cut, sessions, dialing, told, plan>>
  BY DEF Accept
<1>6. RunsGoOn
  <2>1. CASE xfer' = xfer
    BY <2>1, RunsStay
  <2>2. CASE xfer' = [xfer EXCEPT ![i].in = "deciding", ![i].inSess = dev[d].sess]
    <3>1. r \in Runs /\ xfer' = [xfer EXCEPT ![i] = r]
      BY <1>1, <1>2, <2>2, Rest DEF Runs, Ins
    <3>2. xfer[i].by # None
      BY <1>2, Peers
    <3>3. Forward(r, xfer[i]) /\ r.out = xfer[i].out /\ (\A e \in Devices : Alive(r, e) => Alive(xfer[i], e))
          /\ (Left(r) => Left(xfer[i]))
      BY <1>2, <3>2 DEF Runs, Forward, GoesOn, RunHolds, Described, Ended, Alive, Left
    <3> HIDE DEF r
    <3> QED
      BY <1>1, <3>1, <3>3, RunGoesOn
  <2> QED
    BY <2>1, <2>2 DEF Accept
<1> HIDE DEF q, r, i
<1> QED
  BY <1>3, <1>4, <1>5, <1>6, Rest, DaemonStill

LEMMA RejectStep ==
  ASSUME IInv, NEW d \in Devices, Reject(d)
  PROVE  IInv'
<1> DEFINE q == [dev[d] EXCEPT !.pending = None]
           i == dev[d].pending
<1>1. i \in SomeId /\ i # None /\ dev[d] \in Daemons
  BY Rest, FieldTypes DEF Reject
<1>2. q \in Daemons /\ dev' = [dev EXCEPT ![d] = q]
  BY <1>1 DEF Reject, Daemons, SomeId
<1>3. q.up = dev[d].up /\ q.active = dev[d].active /\ q.cancel = dev[d].cancel /\ q.offered = dev[d].offered
      /\ q.ended = dev[d].ended /\ q.pending = None /\ q.completed = dev[d].completed
  BY <1>1 DEF Daemons
<1>4. UNCHANGED <<xfer, cut, sessions, dialing, told, plan>> /\ wire' = Sent(wire, d, "reject", i)
  BY DEF Reject, Acts
<1> HIDE DEF q, i
<1>5. wire' \in Wires /\ AllSay(wire', xfer)
  BY <1>1, <1>4, Rest, SentIs, PlainMessage
<1> QED
  BY <1>2, <1>3, <1>4, <1>5, Rest, RunsStay, DaemonStill

LEMMA NoSpaceStep ==
  ASSUME IInv, NEW d \in Devices, NEW i \in Ids, NoSpace(d, i)
  PROVE  IInv'
<1> DEFINE q == [dev[d] EXCEPT !.pending = IF @ = None THEN i ELSE @]
           r == [xfer[i] EXCEPT !.in = "none"]
<1>1. dev[d] \in Daemons /\ xfer[i] \in Runs /\ RunHolds(i)
  BY Rest, FieldTypes DEF IInv
<1>2. xfer[i].in = "deciding" /\ xfer[i].by # d
  BY DEF NoSpace
<1>3. xfer[i].by = Peer(d)
  BY <1>1, <1>2, Rest, FieldTypes, Peers DEF RunHolds, Described
<1>4. q \in Daemons /\ dev' = [dev EXCEPT ![d] = q]
  BY <1>1 DEF NoSpace, Daemons, SomeId
<1>5. q.up = dev[d].up /\ q.active = dev[d].active /\ q.cancel = dev[d].cancel /\ q.offered = dev[d].offered
      /\ q.ended = dev[d].ended /\ q.pending \in {i, dev[d].pending} /\ q.completed = dev[d].completed
  BY <1>1 DEF Daemons
<1>6. r \in Runs /\ xfer' = [xfer EXCEPT ![i] = r]
  BY <1>1, Rest DEF NoSpace, Runs, Ins
<1>7. Forward(r, xfer[i]) /\ r.out = xfer[i].out /\ (\A e \in Devices : Alive(r, e) => Alive(xfer[i], e))
      /\ (Left(r) => Left(xfer[i]))
  BY <1>1, <1>2 DEF Runs, Forward, GoesOn, RunHolds, Described, Ended, Alive, Left
<1>8. UNCHANGED <<wire, cut, sessions, dialing, told, plan>>
  BY DEF NoSpace, Acts
<1> HIDE DEF q, r
<1>9. RunsGoOn
  BY <1>6, <1>7, RunGoesOn
<1> QED
  BY <1>3, <1>4, <1>5, <1>8, <1>9, Rest, DaemonStill

LEMMA MarksCompletedStep ==
  ASSUME IInv, NEW i \in Ids, MarksCompleted(i)
  PROVE  IInv'
<1> DEFINE d == Peer(xfer[i].by)
           q == [dev[d] EXCEPT !.completed = i]
           r == [xfer[i] EXCEPT !.in = "marked"]
<1>1. xfer[i] \in Runs /\ RunHolds(i) /\ xfer[i].in = "ended" /\ xfer[i].allEnded
  BY Rest, FieldTypes DEF IInv, MarksCompleted
<1>2. d \in Devices /\ dev[d] \in Daemons
  BY <1>1, Rest, FieldTypes, Peers DEF RunHolds, Described
<1>3. q \in Daemons /\ dev' = [dev EXCEPT ![d] = q]
  BY <1>2 DEF MarksCompleted, Daemons, SomeId
<1>4. q.up = dev[d].up /\ q.active = dev[d].active /\ q.cancel = dev[d].cancel /\ q.offered = dev[d].offered
      /\ q.ended = dev[d].ended /\ q.pending = dev[d].pending /\ q.completed = i
  BY <1>2 DEF Daemons
<1>5. r \in Runs /\ xfer' = [xfer EXCEPT ![i] = r]
  BY <1>1, Rest DEF MarksCompleted, Runs, Ins
<1>6. Forward(r, xfer[i]) /\ r.out = xfer[i].out /\ (\A e \in Devices : Alive(r, e) => Alive(xfer[i], e))
      /\ (Left(r) => Left(xfer[i]))
  BY <1>1 DEF Runs, Forward, GoesOn, RunHolds, Described, Ended, Alive, Left
<1>7. UNCHANGED <<wire, cut, sessions, dialing, told, plan>>
  BY DEF MarksCompleted
<1> HIDE DEF d, q, r
<1>8. RunsGoOn
  BY <1>5, <1>6, RunGoesOn
<1> QED
  BY <1>1, <1>2, <1>3, <1>4, <1>7, <1>8, Rest, DaemonStill

\* A pause tells the Receiver in progress.
LEMMA PauseAllStep ==
  ASSUME IInv, NEW d \in Devices, NEW p \in BOOLEAN, PauseAll(d, p),
         UNCHANGED <<cut, sessions, dialing, told, plan>>, wire' \in Wires, AllSay(wire', xfer)
  PROVE  IInv'
<1> DEFINE q == [dev[d] EXCEPT !.paused = p]
           i == dev[d].rx
           r == [xfer[i] EXCEPT !.rxPaused = p]
<1>1. dev[d] \in Daemons /\ i \in SomeId
  BY Rest, FieldTypes
<1>2. q \in Daemons /\ dev' = [dev EXCEPT ![d] = q]
  BY <1>1 DEF PauseAll, Daemons
<1>3. q.up = dev[d].up /\ q.active = dev[d].active /\ q.cancel = dev[d].cancel /\ q.offered = dev[d].offered
      /\ q.ended = dev[d].ended /\ q.pending = dev[d].pending /\ q.completed = dev[d].completed
  BY <1>1 DEF Daemons
<1>4. CASE i = None
  <2>1. xfer' = xfer
    BY <1>4 DEF PauseAll
  <2> HIDE DEF q, i
  <2> QED
    BY <2>1, <1>2, <1>3, Rest, RunsStay, DaemonStill
<1>5. CASE i # None
  <2>1. i \in Ids /\ xfer[i] \in Runs /\ RunHolds(i)
    BY <1>1, <1>5, Rest, FieldTypes DEF IInv
  <2>2. r \in Runs /\ xfer' = [xfer EXCEPT ![i] = r]
    BY <1>5, <2>1, Rest DEF PauseAll, Runs
  <2>3. Forward(r, xfer[i]) /\ r.out = xfer[i].out /\ (\A e \in Devices : Alive(r, e) => Alive(xfer[i], e))
        /\ (Left(r) => Left(xfer[i]))
    BY <2>1 DEF Runs, Forward, GoesOn, RunHolds, Described, Ended, Alive, Left
  <2> HIDE DEF q, i, r
  <2>4. RunsGoOn
    BY <2>1, <2>2, <2>3, RunGoesOn
  <2> QED
    BY <2>4, <1>2, <1>3, Rest, DaemonStill
<1> QED
  BY <1>4, <1>5

LEMMA PauseStep ==
  ASSUME IInv, NEW d \in Devices, Pause(d)
  PROVE  IInv'
<1> DEFINE type == IF dev[d].paused THEN "resume" ELSE "pause"
           i == dev[d].active
<1>1. UNCHANGED <<cut, sessions, dialing, told, plan>> /\ PauseAll(d, ~dev[d].paused) /\ wire' = Sent(wire, d, type, i)
  BY DEF Pause, Acts
<1>2. i \in SomeId /\ type \in {"pause", "resume"}
  BY Rest, FieldTypes
<1> HIDE DEF type, i
<1>3. wire' \in Wires /\ AllSay(wire', xfer)
  BY <1>1, <1>2, Rest, SentIs, PlainMessage
<1>4. (~dev[d].paused) \in BOOLEAN
  OBVIOUS
<1> QED
  BY <1>1, <1>3, <1>4, PauseAllStep

-----------------------------------------------------------------------------
(* Messages read.                                                           *)

\* What a message read says, and what is left to read.
LEMMA ReadIs ==
  ASSUME IInv, NEW d \in Devices, NEW k \in 1 .. MaxSessions, wire[d][k] # <<>>
  PROVE  LET m == Head(wire[d][k]) IN
         /\ Taken(d, k) \in Wires /\ AllSay(Taken(d, k), xfer)
         /\ m.id \in SomeId
         /\ m.type \in {"offer", "accept", "reject", "complete", "failed", "check"} => m.id \in Ids
         /\ m.type = "offer" => xfer[m.id].by = Peer(d)
         /\ m.type = "complete" => xfer[m.id].allEnded
<1>1. /\ Taken(d, k) \in Wires /\ AllSay(Taken(d, k), xfer)
      /\ Head(wire[d][k]) \in Messages /\ SaysOf(xfer, d, Head(wire[d][k]))
  BY Rest, TakenIs
<1> QED
  BY <1>1 DEF Messages, SaysOf, SomeId

LEMMA TakePauseStep ==
  ASSUME IInv, NEW d \in Devices, NEW k \in 1 .. MaxSessions, wire[d][k] # <<>>, NEW p \in BOOLEAN,
         TakePause(d, k, p), UNCHANGED <<sessions, dialing, plan>>
  PROVE  IInv'
<1>1. wire' \in Wires /\ AllSay(wire', xfer)
  BY ReadIs DEF TakePause
<1>2. PauseAll(d, p) /\ UNCHANGED <<cut, sessions, dialing, told, plan>>
  BY DEF TakePause
<1> QED
  BY <1>1, <1>2, PauseAllStep

LEMMA TakeOfferStep ==
  ASSUME IInv, NEW d \in Devices, NEW k \in 1 .. MaxSessions, wire[d][k] # <<>>, NEW i,
         Head(wire[d][k]).type = "offer", i = Head(wire[d][k]).id,
         TakeOffer(d, k, i), UNCHANGED <<sessions, dialing, plan>>
  PROVE  IInv'
<1> DEFINE q == [dev[d] EXCEPT !.pending = i, !.paused = FALSE]
<1>1. i \in Ids /\ xfer[i].by = Peer(d) /\ Taken(d, k) \in Wires /\ AllSay(Taken(d, k), xfer)
  BY ReadIs
<1>2. dev[d] \in Daemons /\ i \in SomeId /\ i # None
  BY <1>1, Rest, FieldTypes DEF SomeId
<1>3. UNCHANGED <<xfer, cut, told>>
  BY DEF TakeOffer
<1>4. CASE UNCHANGED dev /\ wire' = Sent(Taken(d, k), d, "reject", i)
  <2>1. wire' \in Wires /\ AllSay(wire', xfer)
    BY <1>1, <1>2, <1>4, Rest, SentIs, PlainMessage
  <2>2. dev' = [dev EXCEPT ![d] = dev[d]]
    BY <1>4, Rest
  <2> QED
    BY <1>2, <1>3, <2>1, <2>2, Rest, RunsStay, DaemonStill
<1>5. CASE wire' = Taken(d, k) /\ dev' = [dev EXCEPT ![d].pending = i, ![d].paused = FALSE]
  <2>1. q \in Daemons /\ dev' = [dev EXCEPT ![d] = q]
    BY <1>2, <1>5, Rest DEF Daemons
  <2>2. q.up = dev[d].up /\ q.active = dev[d].active /\ q.cancel = dev[d].cancel /\ q.offered = dev[d].offered
        /\ q.ended = dev[d].ended /\ q.pending = i /\ q.completed = dev[d].completed
    BY <1>2 DEF Daemons
  <2> HIDE DEF q
  <2>3. wire' \in Wires /\ AllSay(wire', xfer)
    BY <1>1, <1>5
  <2>4. xfer[q.pending].by = Peer(d)
    BY <1>1, <2>2
  <2> QED
    BY <1>3, <2>1, <2>2, <2>3, <2>4, Rest, RunsStay, DaemonStill
<1>6. dev[d].cancel # None => UNCHANGED dev /\ wire' = Sent(Taken(d, k), d, "reject", i)
  BY DEF TakeOffer
<1>7. dev[d].cancel = None => wire' = Taken(d, k) /\ dev' = [dev EXCEPT ![d].pending = i, ![d].paused = FALSE]
  BY DEF TakeOffer
<1> QED
  BY <1>4, <1>5, <1>6, <1>7

LEMMA AnswerCheckStep ==
  ASSUME IInv, NEW d \in Devices, NEW k \in 1 .. MaxSessions, wire[d][k] # <<>>, NEW i,
         Head(wire[d][k]).type = "check", i = Head(wire[d][k]).id,
         AnswerCheck(d, k, i), UNCHANGED <<sessions, dialing, plan>>
  PROVE  IInv'
<1>1. i \in Ids /\ Taken(d, k) \in Wires /\ AllSay(Taken(d, k), xfer)
  BY ReadIs
<1>2. dev[d] \in Daemons /\ i \in SomeId /\ i # None
  BY <1>1, Rest, FieldTypes DEF SomeId
<1>3. UNCHANGED <<dev, xfer, cut, told>>
  BY DEF AnswerCheck
<1>4. i = dev[d].completed => xfer[i].allEnded
  BY <1>2 DEF IInv, DaemonHolds, KeepsCompleted
<1> DEFINE type == IF i = dev[d].completed THEN "complete" ELSE "failed"
<1>5. wire' = Taken(d, k) \/ wire' = Sent(Taken(d, k), d, type, i)
  BY DEF AnswerCheck
<1>6. Msg(type, i) \in Messages /\ SaysOf(xfer, Peer(d), Msg(type, i))
  BY <1>2, <1>4, PlainMessage
<1> HIDE DEF type
<1>7. wire' \in Wires /\ AllSay(wire', xfer)
  BY <1>1, <1>2, <1>5, <1>6, Rest, SentIs
<1>8. dev' = [dev EXCEPT ![d] = dev[d]]
  BY <1>3, Rest
<1> QED
  BY <1>2, <1>3, <1>7, <1>8, Rest, RunsStay, DaemonStill

-----------------------------------------------------------------------------
(* Sessions.                                                                *)

LEMMA StartSessionStep ==
  ASSUME IInv, NEW d \in Devices, NEW n \in 1 .. MaxSessions, NEW closed \in SUBSET (1 .. MaxSessions),
         StartSession(d, n, closed), UNCHANGED <<xfer, told, plan>>,
         sessions' \in 1 .. MaxSessions, dialing' \in Devices \cup {None}
  PROVE  IInv'
<1> DEFINE q == [dev[d] EXCEPT !.sess = n, !.last = n]
           w == CheckTransfer(d, n)
<1>0. n \in 0 .. MaxSessions
  BY SessionsAssumption
<1>1. dev[d] \in Daemons /\ dev[d].sess \in 0 .. MaxSessions /\ dev[d].active \in SomeId
  BY Rest, FieldTypes
<1>2. q \in Daemons /\ dev' = [dev EXCEPT ![d] = q]
  BY <1>0, <1>1, Rest DEF StartSession, Daemons
<1>3. q.up = dev[d].up /\ q.active = dev[d].active /\ q.cancel = dev[d].cancel /\ q.offered = dev[d].offered
      /\ q.ended = dev[d].ended /\ q.pending = dev[d].pending /\ q.completed = dev[d].completed
  BY <1>1 DEF Daemons
<1> HIDE DEF q
<1>4. w \in Wires /\ AllSay(w, xfer)
  BY <1>0, <1>1, Rest, SentOnIs, PlainMessage DEF CheckTransfer
<1>5. wire' \in Closing(w, d, dev[d].sess)
  BY DEF StartSession
<1> HIDE DEF w
<1>6. wire' \in Wires /\ AllSay(wire', xfer)
  BY <1>1, <1>4, <1>5, ClosingIs
<1>7. cut' \subseteq 1 .. MaxSessions
  BY <1>1, SessionsAssumption DEF StartSession, NoSession
<1> QED
  BY <1>2, <1>3, <1>6, <1>7, Rest, RunsStay, DaemonStill

LEMMA DialStep ==
  ASSUME IInv, NEW d \in Devices, Dial(d)
  PROVE  IInv'
<1>1. plan.sessions \in 1 .. MaxSessions /\ sessions \in 1 .. MaxSessions /\ cut \in SUBSET (1 .. MaxSessions)
  BY Rest, PlansAssumption
<1>2. sessions' \in 1 .. MaxSessions /\ sessions' = sessions + 1 /\ dialing' \in Devices \cup {None}
  BY <1>1, SessionsAssumption DEF Dial
<1>3. StartSession(Peer(d), sessions', cut) /\ UNCHANGED <<xfer, told, plan>>
  BY DEF Dial
<1> QED
  BY <1>1, <1>2, <1>3, Peers, StartSessionStep

LEMMA DialedStep ==
  ASSUME IInv, NEW d \in Devices, Dialed(d)
  PROVE  IInv'
<1>1. sessions \in 1 .. MaxSessions /\ cut \in SUBSET (1 .. MaxSessions) /\ dev[d] \in Daemons
  BY Rest
<1>2. UNCHANGED <<xfer, told, plan, sessions>> /\ dialing' \in Devices \cup {None}
  BY DEF Dialed
<1>3. CASE StartSession(d, sessions, cut)
  BY <1>1, <1>2, <1>3, StartSessionStep
<1>4. CASE cut' = cut \cup {sessions} /\ UNCHANGED <<dev, wire>>
  <2>1. cut' \subseteq 1 .. MaxSessions /\ dev' = [dev EXCEPT ![d] = dev[d]]
    BY <1>1, <1>4, Rest
  <2> QED
    BY <1>1, <1>2, <1>4, <2>1, Rest, RunsStay, DaemonStill
<1> QED
  BY <1>3, <1>4 DEF Dialed

LEMMA SessionLostStep ==
  ASSUME IInv, NEW d \in Devices, SessionLost(d)
  PROVE  IInv'
<1> DEFINE q == [dev[d] EXCEPT !.sess = NoSession]
<1>1. dev[d] \in Daemons
  BY Rest
<1>2. q \in Daemons /\ dev' = [dev EXCEPT ![d] = q]
  BY <1>1, SessionsAssumption DEF SessionLost, Daemons, NoSession
<1>3. q.up = dev[d].up /\ q.active = dev[d].active /\ q.cancel = dev[d].cancel /\ q.offered = dev[d].offered
      /\ q.ended = dev[d].ended /\ q.pending = dev[d].pending /\ q.completed = dev[d].completed
  BY <1>1 DEF Daemons
<1> HIDE DEF q
<1>4. UNCHANGED <<xfer, wire, cut, sessions, dialing, told, plan>>
  BY DEF SessionLost
<1> QED
  BY <1>2, <1>3, <1>4, Rest, RunsStay, DaemonStill

LEMMA CutStep ==
  ASSUME IInv, NEW n \in 1 .. MaxSessions, Cut(n)
  PROVE  IInv'
<1>1. PICK p \in [Devices -> UNION {Prefixes(wire[d][n]) : d \in Devices}] :
        /\ \A d \in Devices : p[d] \in Prefixes(wire[d][n])
        /\ wire' = [d \in Devices |-> [wire[d] EXCEPT ![n] = p[d]]]
  BY DEF Cut
<1>2. ASSUME NEW d \in Devices
      PROVE  /\ wire'[d] \in [1 .. MaxSessions -> Seq(Messages)]
             /\ \A m \in 1 .. MaxSessions : QueueSays(xfer, d, wire'[d][m])
  <2>1. wire[d] \in [1 .. MaxSessions -> Seq(Messages)] /\ \A m \in 1 .. MaxSessions : QueueSays(xfer, d, wire[d][m])
    BY Rest DEF Wires, AllSay, QueueSays
  <2>2. PICK j \in 0 .. Len(wire[d][n]) : p[d] = SubSeq(wire[d][n], 1, j)
    BY <1>1 DEF Prefixes
  <2>3. p[d] \in Seq(Messages) /\ QueueSays(xfer, d, p[d])
    BY <2>1, <2>2, PrefixSays
  <2>4. wire'[d] = [wire[d] EXCEPT ![n] = p[d]]
    BY <1>1
  <2> HIDE <1>1
  <2> QED
    BY <2>1, <2>3, <2>4
<1>3. wire' \in Wires /\ AllSay(wire', xfer)
  <2>1. wire' \in [Devices -> [1 .. MaxSessions -> Seq(Messages)]]
    BY <1>1, <1>2
  <2> QED
    BY <1>2, <2>1 DEF Wires, AllSay, QueueSays
<1>4. cut' \subseteq 1 .. MaxSessions /\ UNCHANGED <<dev, xfer, sessions, dialing, told, plan>>
  BY Rest DEF Cut
<1>5. PICK d \in Devices : TRUE
  BY DevicesAssumption
<1>6. dev[d] \in Daemons /\ dev' = [dev EXCEPT ![d] = dev[d]]
  BY <1>4, Rest
<1> QED
  BY <1>3, <1>4, <1>6, Rest, RunsStay, DaemonStill

-----------------------------------------------------------------------------
(* The steps that end what a daemon has active.                             *)

\* What is open stays so, but the offer of d, which closes when d has it no more.
OnlyOffer(d, q) ==
  /\ \A j \in Ids : xfer[j].out = "open" /\ j # dev[d].offered => xfer'[j].out = "open"
  /\ IF q.offered = None THEN dev[d].offered # None => xfer'[dev[d].offered].out # "open"
     ELSE q.offered = dev[d].offered /\ xfer'[q.offered].out = "open"

LEMMA DaemonEnds ==
  ASSUME IInv, NEW d \in Devices, NEW q \in Daemons,
         dev' = [dev EXCEPT ![d] = q], plan' = plan,
         cut' \subseteq 1 .. MaxSessions, sessions' \in 1 .. MaxSessions, dialing' \in Devices \cup {None},
         wire' \in Wires, AllSay(wire', xfer),
         told' \in [Devices -> [Ids -> Seq({"complete", "failed"})]], ToldTruly,
         xfer' \in [Ids -> Runs],
         \A j \in Ids : Forward(xfer'[j], xfer[j]),
         \A j \in Ids : \A e \in Devices : Alive(xfer'[j], e) => Alive(xfer[j], e),
         OneSided => \A j \in Ids : ~Alive(xfer'[j], d),
         OnlyOffer(d, q),
         q.up = dev[d].up, q.cancel = None, q.active \in {None, dev[d].active},
         q.pending \in {None, dev[d].pending}, q.completed = dev[d].completed,
         q.ended \in {None, dev[d].ended} \/ KeepsEnded(d)',
         OneTransfer => \A j \in Ids : Left(xfer'[j]) => Left(xfer[j]) \/ (xfer[j].by = d /\ q.active # j)
  PROVE  IInv'
<1>1. TypeOK /\ (\A e \in Devices : DaemonHolds(e)) /\ (\A j \in Ids : RunHolds(j))
  BY DEF IInv
<1>2. dev \in [Devices -> Daemons]
  BY <1>1 DEF TypeOK
<1>3. dev'[d] = q /\ \A e \in Devices : e # d => dev'[e] = dev[e]
  BY <1>2
<1>4. TypeOK'
  <2>1. dev' \in [Devices -> Daemons]
    BY <1>2
  <2>2. plan' \in Plans
    BY <1>1 DEF TypeOK
  <2> QED
    BY <2>1, <2>2 DEF TypeOK
<1>5. ASSUME NEW e \in Devices PROVE HoldsOn(e)
  <2>1. dev[e].offered # None =>
          dev[e].offered \in Ids /\ xfer[dev[e].offered].out = "open" /\ xfer[dev[e].offered].by = e
    BY <1>1, FieldTypes DEF DaemonHolds, KeepsOffer
  <2>2. CASE e # d
    <3>1. dev[e].offered # None => dev[e].offered # dev[d].offered
      <4>1. dev[d].offered # None => xfer[dev[d].offered].by = d
        BY <1>1 DEF DaemonHolds, KeepsOffer
      <4> QED
        BY <2>1, <2>2, <4>1
    <3>2. dev[e].offered # None => xfer'[dev[e].offered].out = "open"
      BY <2>1, <3>1 DEF OnlyOffer
    <3> QED
      BY <1>3, <2>2, <3>2 DEF HoldsOn, HoldsOffer, HoldsRest
  <2>3. CASE e = d
    BY <1>3, <2>3 DEF HoldsOn, HoldsOffer, HoldsRest, OnlyOffer
  <2> QED
    BY <2>2, <2>3
<1>6. OneSided => CanCancel'
  <2>1. \A e \in Devices : dev'[e].offered \in {None, dev[e].offered}
    BY <1>3 DEF OnlyOffer
  <2>2. OneSided =>
          \A e \in Devices :
            \/ dev'[e].cancel = dev[e].cancel /\ dev'[e].active = dev[e].active
            \/ (\A j \in Ids : ~Alive(xfer'[j], e)) /\ dev'[e].cancel = None
    BY <1>3
  <2> QED
    BY <2>1, <2>2, StillActive
<1>7. OneTransfer => \A j \in Ids : WasDropped(j)'
  <2>1. \A j \in Ids : xfer'[j].by = xfer[j].by
    BY DEF Forward, GoesOn
  <2>2. \A j \in Ids : Left(xfer'[j]) => xfer[j].by \in Devices
    <3>1. \A j \in Ids : Left(xfer'[j]) => xfer'[j].out # "none"
      BY DEF Left
    <3> QED
      BY <3>1, <1>1, FieldTypes DEF Forward, GoesOn, RunHolds, Described
  <2>3. \A e \in Devices : dev'[e].up = dev[e].up
    BY <1>3
  <2>4. \A e \in Devices : \A j \in Ids : dev'[e].active = j => dev[e].active = j
    BY <1>3, NamesAssumption
  <2> QED
    BY <1>3, <2>1, <2>2, <2>3, <2>4, StillLeft
<1> QED
  BY <1>4, <1>5, <1>6, <1>7, Frame

\* The run transferCancel ends was the only one.
LEMMA EndsAlive ==
  ASSUME IInv, OneSided, NEW d \in Devices, NEW y,
         \A i \in Ids : /\ Kept(y[i], xfer[i])
                        /\ y[i].outLive => xfer[i].outLive
                        /\ y[i].inLive => xfer[i].inLive
                        /\ i = dev[d].cancel => IF xfer[i].by = d THEN ~y[i].outLive ELSE ~y[i].inLive
  PROVE  \A i \in Ids : ~Alive(y[i], d)
<1> SUFFICES ASSUME NEW i \in Ids, Alive(y[i], d) PROVE FALSE
  OBVIOUS
<1>1. Alive(xfer[i], d)
  BY DEF Alive, Kept, KeptBut
<1>2. dev[d].cancel = i
  BY <1>1, NoneAlive
<1> QED
  BY <1>2, Peers DEF Alive, Kept, KeptBut

\* dropTransfers and cancelTransfer.
LEMMA DropStep ==
  ASSUME IInv, NEW d \in Devices, NEW q \in Daemons,
         dev' = [dev EXCEPT ![d] = q], xfer' = DropRuns(xfer, d),
         q.up = dev[d].up, q.cancel = None, q.active = None, q.offered = None,
         q.pending \in {None, dev[d].pending}, q.completed = dev[d].completed, q.ended \in {None, dev[d].ended},
         cut' \subseteq 1 .. MaxSessions, UNCHANGED <<sessions, dialing, told, plan>>,
         wire' \in Wires, AllSay(wire', xfer)
  PROVE  IInv'
<1> DEFINE o == dev[d].offered
<1>1. /\ xfer' \in [Ids -> Runs]
      /\ \A i \in Ids : /\ Kept(xfer'[i], xfer[i])
                        /\ xfer'[i].out = IF i = o THEN "closed" ELSE xfer[i].out
                        /\ xfer'[i].outLive => xfer[i].outLive
                        /\ xfer'[i].inLive => xfer[i].inLive
                        /\ xfer[i].outLive /\ ~xfer'[i].outLive => i = dev[d].cancel /\ xfer[i].by = d
                        /\ i = dev[d].cancel => IF xfer[i].by = d THEN ~xfer'[i].outLive ELSE ~xfer'[i].inLive
  BY Rest, DropRunsIs
<1>2. o # None => o \in Ids /\ xfer[o].out = "open"
  BY Rest, FieldTypes DEF IInv, DaemonHolds, KeepsOffer
<1>3. \A i \in Ids : RunHolds(i)
  BY DEF IInv
<1>4. \A i \in Ids : Forward(xfer'[i], xfer[i])
  BY <1>1, <1>2, <1>3, NamesAssumption DEF Kept, KeptBut, Forward, GoesOn, RunHolds, Described, Ended
<1>5. \A i \in Ids : \A e \in Devices : Alive(xfer'[i], e) => Alive(xfer[i], e)
  BY <1>1 DEF Kept, KeptBut, Alive
<1>6. OneSided => \A i \in Ids : ~Alive(xfer'[i], d)
  BY <1>1, EndsAlive
<1>7. OnlyOffer(d, q)
  BY <1>1, <1>2 DEF OnlyOffer
<1>8. \A i \in Ids : Left(xfer'[i]) => Left(xfer[i]) \/ (xfer[i].by = d /\ q.active # i)
  BY <1>1, NamesAssumption DEF Left, Kept, KeptBut
<1>9. told' \in [Devices -> [Ids -> Seq({"complete", "failed"})]] /\ ToldTruly
  BY DEF IInv, TypeOK, ToldTruly
<1> QED
  BY <1>1, <1>4, <1>5, <1>6, <1>7, <1>8, <1>9, Rest, DaemonEnds

LEMMA CancelTransferStep ==
  ASSUME IInv, NEW d \in Devices, CancelTransfer(d),
         UNCHANGED <<cut, sessions, dialing, told, plan>>, wire' \in Wires, AllSay(wire', xfer)
  PROVE  IInv'
<1> DEFINE q == [dev[d] EXCEPT !.paused = FALSE, !.cancel = None, !.rx = None, !.active = None, !.offered = None]
<1>1. dev[d] \in Daemons
  BY Rest
<1>2. q \in Daemons /\ dev' = [dev EXCEPT ![d] = q]
  BY <1>1, Rest DEF CancelTransfer, Daemons, SomeId
<1>3. q.up = dev[d].up /\ q.cancel = None /\ q.active = None /\ q.offered = None
      /\ q.ended = dev[d].ended /\ q.pending = dev[d].pending /\ q.completed = dev[d].completed
  BY <1>1 DEF Daemons
<1>4. xfer' = DropRuns(xfer, d)
  BY DEF CancelTransfer, DropRuns
<1> HIDE DEF q
<1> QED
  BY <1>2, <1>3, <1>4, Rest, DropStep

LEMMA CancelStep ==
  ASSUME IInv, NEW d \in Devices, Cancel(d)
  PROVE  IInv'
<1> DEFINE i == dev[d].active
<1>1. UNCHANGED <<cut, sessions, dialing, told, plan>> /\ CancelTransfer(d) /\ wire' = Sent(wire, d, "cancel", i)
  BY DEF Cancel, Acts
<1>2. i \in SomeId
  BY Rest, FieldTypes
<1> HIDE DEF i
<1>3. wire' \in Wires /\ AllSay(wire', xfer)
  BY <1>1, <1>2, Rest, SentIs, PlainMessage
<1> QED
  BY <1>1, <1>3, CancelTransferStep

LEMMA TakeCancelStep ==
  ASSUME IInv, NEW d \in Devices, NEW k \in 1 .. MaxSessions, wire[d][k] # <<>>, NEW i,
         TakeCancel(d, k, i), UNCHANGED <<sessions, dialing, plan>>
  PROVE  IInv'
<1>1. CancelTransfer(d) /\ wire' = Taken(d, k) /\ UNCHANGED <<cut, told>>
  BY DEF TakeCancel
<1>2. wire' \in Wires /\ AllSay(wire', xfer)
  BY <1>1, ReadIs
<1> QED
  BY <1>1, <1>2, CancelTransferStep

\* A session left, by either side.
LEMMA LeaveStep ==
  ASSUME IInv, NEW d \in Devices,
         dev' = [dev EXCEPT ![d] = [Dropped(@) EXCEPT !.sess = NoSession]], xfer' = DropRuns(xfer, d),
         cut' = IF dev[d].sess = NoSession THEN cut ELSE cut \cup {dev[d].sess},
         UNCHANGED <<sessions, dialing, told, plan>>, wire' \in Wires, AllSay(wire', xfer)
  PROVE  IInv'
<1> DEFINE q == [Dropped(dev[d]) EXCEPT !.sess = NoSession]
<1>1. dev[d] \in Daemons /\ dev[d].sess \in 0 .. MaxSessions /\ NoSession \in 0 .. MaxSessions
  BY Rest, FieldTypes, SessionsAssumption DEF NoSession
<1>2. q \in Daemons
  BY <1>1 DEF Daemons, SomeId, Dropped
<1>3. dev' = [dev EXCEPT ![d] = q]
  BY Rest
<1>4. q.up = dev[d].up /\ q.cancel = None /\ q.active = None /\ q.offered = None
      /\ q.ended = None /\ q.pending = None /\ q.completed = dev[d].completed
  BY <1>1 DEF Daemons, Dropped
<1> HIDE DEF q
<1>5. cut' \subseteq 1 .. MaxSessions
  BY <1>1, Rest, SessionsAssumption DEF NoSession
<1> QED
  BY <1>2, <1>3, <1>4, <1>5, Rest, DropStep

LEMMA LeavesIs ==
  ASSUME IInv, NEW d \in Devices, Leaves(d, wire)
  PROVE  /\ wire' \in Wires /\ AllSay(wire', xfer)
         /\ cut' = IF dev[d].sess = NoSession THEN cut ELSE cut \cup {dev[d].sess}
<1>1. dev[d].sess \in 0 .. MaxSessions /\ None \in SomeId
  BY Rest, FieldTypes DEF SomeId
<1>2. Sent(wire, d, "disconnect", None) \in Wires /\ AllSay(Sent(wire, d, "disconnect", None), xfer)
  BY <1>1, Rest, SentIs, PlainMessage
<1>3. wire' \in Closing(Sent(wire, d, "disconnect", None), d, dev[d].sess)
      /\ cut' = IF dev[d].sess = NoSession THEN cut ELSE cut \cup {dev[d].sess}
  BY DEF Leaves
<1> QED
  BY <1>1, <1>2, <1>3, ClosingIs

LEMMA DisconnectStep ==
  ASSUME IInv, NEW d \in Devices, Disconnect(d)
  PROVE  IInv'
<1>1. /\ dev' = [dev EXCEPT ![d] = [Dropped(@) EXCEPT !.sess = NoSession]] /\ xfer' = DropRuns(xfer, d)
      /\ Leaves(d, wire) /\ UNCHANGED <<sessions, dialing, told, plan>>
  BY DEF Disconnect, Acts
<1> QED
  BY <1>1, LeavesIs, LeaveStep

LEMMA TakeDisconnectStep ==
  ASSUME IInv, NEW d \in Devices, NEW k \in 1 .. MaxSessions, wire[d][k] # <<>>, NEW i,
         TakeDisconnect(d, k, i), UNCHANGED <<sessions, dialing, plan>>
  PROVE  IInv'
<1>1. /\ dev' = [dev EXCEPT ![d] = [Dropped(@) EXCEPT !.sess = NoSession]] /\ xfer' = DropRuns(xfer, d)
      /\ wire' \in Closing(Taken(d, k), d, dev[d].sess) /\ UNCHANGED told
      /\ cut' = IF dev[d].sess = NoSession THEN cut ELSE cut \cup {dev[d].sess}
  BY DEF TakeDisconnect
<1>2. Taken(d, k) \in Wires /\ AllSay(Taken(d, k), xfer) /\ dev[d].sess \in 0 .. MaxSessions
  BY ReadIs, Rest, FieldTypes
<1>3. wire' \in Wires /\ AllSay(wire', xfer)
  BY <1>1, <1>2, ClosingIs
<1> QED
  BY <1>1, <1>3, LeaveStep

\* transferCancel alone: the offer stays.
LEMMA EndRunStep ==
  ASSUME IInv, NEW d \in Devices, NEW q \in Daemons,
         dev' = [dev EXCEPT ![d] = q], xfer' = CancelRun(xfer, d),
         q.up = dev[d].up, q.cancel = None, q.active \in {None, dev[d].active}, q.offered = dev[d].offered,
         q.pending = dev[d].pending, q.completed = dev[d].completed, q.ended \in {None, dev[d].ended},
         UNCHANGED <<cut, sessions, dialing, plan>>,
         wire' \in Wires, AllSay(wire', xfer),
         told' \in [Devices -> [Ids -> Seq({"complete", "failed"})]], ToldTruly,
         OneTransfer => \A i \in Ids : Left(xfer'[i]) => q.active # i
  PROVE  IInv'
<1> DEFINE o == dev[d].offered
<1>1. /\ xfer' \in [Ids -> Runs]
      /\ \A i \in Ids : /\ Kept(xfer'[i], xfer[i])
                        /\ xfer'[i].out = xfer[i].out
                        /\ xfer'[i].outLive => xfer[i].outLive
                        /\ xfer'[i].inLive => xfer[i].inLive
                        /\ xfer[i].outLive /\ ~xfer'[i].outLive => i = dev[d].cancel /\ xfer[i].by = d
                        /\ i = dev[d].cancel => IF xfer[i].by = d THEN ~xfer'[i].outLive ELSE ~xfer'[i].inLive
  <2>1. xfer \in [Ids -> Runs] /\ TypeOK
    BY Rest
  <2> QED
    BY <2>1, CancelRunIs
<1>2. o # None => o \in Ids /\ xfer[o].out = "open"
  BY Rest, FieldTypes DEF IInv, DaemonHolds, KeepsOffer
<1>3. \A i \in Ids : RunHolds(i)
  BY DEF IInv
<1>4. ASSUME NEW i \in Ids PROVE Forward(xfer'[i], xfer[i])
  <2>1. Kept(xfer'[i], xfer[i]) /\ xfer'[i].out = xfer[i].out /\ (xfer'[i].outLive => xfer[i].outLive) /\ RunHolds(i)
    BY <1>1, <1>3
  <2> QED
    BY <2>1 DEF Kept, KeptBut, Forward, GoesOn, RunHolds, Described, Ended
<1>5. \A i \in Ids : \A e \in Devices : Alive(xfer'[i], e) => Alive(xfer[i], e)
  BY <1>1 DEF Kept, KeptBut, Alive
<1>6. OneSided => \A i \in Ids : ~Alive(xfer'[i], d)
  BY <1>1, EndsAlive
<1>7. OnlyOffer(d, q)
  BY <1>1, <1>2 DEF OnlyOffer
<1>8. OneTransfer => \A i \in Ids : Left(xfer'[i]) => Left(xfer[i]) \/ (xfer[i].by = d /\ q.active # i)
  BY <1>1 DEF Left, Kept, KeptBut
<1> QED
  BY <1>1, <1>4, <1>5, <1>6, <1>7, <1>8, Rest, DaemonEnds

LEMMA PeerFailedStep ==
  ASSUME IInv, NEW d \in Devices, NEW k \in 1 .. MaxSessions, wire[d][k] # <<>>, NEW i \in Ids,
         PeerFailed(d, k, i), UNCHANGED <<sessions, dialing, plan>>
  PROVE  IInv'
<1> DEFINE q == [dev[d] EXCEPT !.cancel = None, !.rx = None, !.active = None, !.paused = FALSE]
<1>1. dev[d] \in Daemons
  BY Rest
<1>2. wire' \in Wires /\ AllSay(wire', xfer) /\ cut' = cut
  BY ReadIs DEF PeerFailed
<1>3. CASE UNCHANGED <<dev, xfer, told>>
  <2>1. dev' = [dev EXCEPT ![d] = dev[d]]
    BY <1>3, Rest
  <2> QED
    BY <1>1, <1>2, <1>3, <2>1, Rest, RunsStay, DaemonStill
<1>4. CASE ~UNCHANGED <<dev, xfer, told>>
  <2>1. dev' = [dev EXCEPT ![d].cancel = None, ![d].rx = None, ![d].active = None, ![d].paused = FALSE]
        /\ xfer' = CancelRun(xfer, d) /\ Tell(d, i, "failed")
    BY <1>4 DEF PeerFailed
  <2>2. q \in Daemons /\ dev' = [dev EXCEPT ![d] = q]
    BY <1>1, <2>1, Rest DEF Daemons, SomeId
  <2>3. q.up = dev[d].up /\ q.cancel = None /\ q.active = None /\ q.offered = dev[d].offered
        /\ q.ended = dev[d].ended /\ q.pending = dev[d].pending /\ q.completed = dev[d].completed
    BY <1>1 DEF Daemons
  <2>4. told' \in [Devices -> [Ids -> Seq({"complete", "failed"})]] /\ ToldTruly
    BY <2>1, TellIs
  <2>5. \A j \in Ids : q.active # j
    BY <2>3, NamesAssumption
  <2> HIDE DEF q
  <2> QED
    BY <1>2, <2>1, <2>2, <2>3, <2>4, <2>5, EndRunStep
<1> QED
  BY <1>3, <1>4

\* Of one transfer alone, the items ended are all there are.
LEMMA OneOnly ==
  ASSUME IInv, OneTransfer, NEW i \in Ids, NEW j \in Ids, xfer[i].by # None, xfer[j].by # None
  PROVE  i = j
  BY Rest DEF IInv, RunHolds, Described, OneTransfer

LEMMA TakeCompleteStep ==
  ASSUME IInv, NEW d \in Devices, NEW k \in 1 .. MaxSessions, wire[d][k] # <<>>, NEW i,
         Head(wire[d][k]).type = "complete", i = Head(wire[d][k]).id,
         TakeComplete(d, k, i), UNCHANGED <<sessions, dialing, plan>>
  PROVE  IInv'
<1> DEFINE q == [dev[d] EXCEPT !.ended = IF @ = i THEN None ELSE @, !.sentCompleted = i, !.cancel = None]
<1>1. i \in Ids /\ xfer[i].allEnded /\ dev[d] \in Daemons /\ RunHolds(i)
  BY ReadIs, Rest DEF IInv
<1>2. wire' \in Wires /\ AllSay(wire', xfer) /\ cut' = cut
  BY ReadIs DEF TakeComplete
<1>3. CASE ~Completable(d, i)
  <2>1. UNCHANGED <<dev, xfer, told>>
    BY <1>3 DEF TakeComplete, CompleteSent
  <2>2. dev' = [dev EXCEPT ![d] = dev[d]]
    BY <2>1, Rest
  <2> QED
    BY <1>1, <1>2, <2>1, <2>2, Rest, RunsStay, DaemonStill
<1>4. CASE Completable(d, i)
  <2>1. dev' = [dev EXCEPT ![d].ended = IF @ = i THEN None ELSE @, ![d].sentCompleted = i, ![d].cancel = None]
        /\ xfer' = CancelRun(xfer, d) /\ Tell(d, i, "complete")
    BY <1>4 DEF TakeComplete, CompleteSent
  <2>2. q \in Daemons
    <3> DEFINE e == IF dev[d].ended = i THEN None ELSE dev[d].ended
    <3>1. e \in SomeId /\ i \in SomeId /\ None \in SomeId
      BY <1>1 DEF Daemons, SomeId
    <3>2. q = [dev[d] EXCEPT !.ended = e, !.sentCompleted = i, !.cancel = None]
      OBVIOUS
    <3> HIDE DEF e, q
    <3> QED
      BY <1>1, <3>1, <3>2 DEF Daemons
  <2>3. dev' = [dev EXCEPT ![d] = q]
    BY <1>1, <2>1, Rest DEF Daemons
  <2>4. q.up = dev[d].up /\ q.cancel = None /\ q.active = dev[d].active /\ q.offered = dev[d].offered
        /\ q.ended \in {None, dev[d].ended} /\ q.pending = dev[d].pending /\ q.completed = dev[d].completed
    BY <1>1 DEF Daemons
  <2>5. xfer[i].by # None
    BY <1>1 DEF RunHolds, Described
  <2>6. \A j \in Ids : Kept(xfer'[j], xfer[j]) /\ xfer'[j].out = xfer[j].out
    <3>1. xfer \in [Ids -> Runs] /\ TypeOK
      BY Rest
    <3> QED
      BY <2>1, <3>1, CancelRunIs
  <2>7. told' \in [Devices -> [Ids -> Seq({"complete", "failed"})]] /\ ToldTruly
    BY <1>1, <2>1, <2>6, <2>5, TellIs DEF Kept, KeptBut
  <2>8. OneTransfer => \A j \in Ids : Left(xfer'[j]) => q.active # j
    <3> SUFFICES ASSUME OneTransfer, NEW j \in Ids, Left(xfer'[j]) PROVE FALSE
      OBVIOUS
    <3>1. xfer[j].out \in {"accepted", "serving", "returned"} /\ ~xfer[j].allEnded
      BY <2>6 DEF Left, Kept, KeptBut
    <3>2. xfer[j].by # None
      BY <3>1 DEF IInv, RunHolds, Described
    <3> QED
      BY <1>1, <2>5, <3>1, <3>2, OneOnly
  <2> HIDE DEF q
  <2> QED
    BY <1>2, <2>1, <2>2, <2>3, <2>4, <2>7, <2>8, EndRunStep
<1> QED
  BY <1>3, <1>4

\* transferCancel ends a run, of transfers of which i has gone on besides.
LEMMA EndsBoth ==
  ASSUME IInv, NEW d \in Devices, NEW q \in Daemons, NEW i \in Ids, NEW r \in Runs,
         dev' = [dev EXCEPT ![d] = q],
         xfer' \in [Ids -> Runs], xfer'[i] = r, \A j \in Ids : j # i => xfer'[j] = CancelRun(xfer, d)[j],
         KeptBut(r, CancelRun(xfer, d)[i]), r.in \in {"ended", CancelRun(xfer, d)[i].in},
         r.outLive = CancelRun(xfer, d)[i].outLive, r.inLive = CancelRun(xfer, d)[i].inLive,
         Forward(r, xfer[i]), xfer[i].out = "open" => r.out = "open",
         q.up = dev[d].up, q.cancel = None, q.active \in {None, dev[d].active}, q.offered = dev[d].offered,
         q.pending = dev[d].pending, q.completed = dev[d].completed,
         q.ended \in {None, dev[d].ended} \/ KeepsEnded(d)',
         UNCHANGED <<cut, sessions, dialing, plan>>,
         wire' \in Wires, AllSay(wire', xfer),
         told' \in [Devices -> [Ids -> Seq({"complete", "failed"})]], ToldTruly,
         OneTransfer => \A j \in Ids : Left(xfer'[j]) => Left(xfer[j]) \/ (xfer[j].by = d /\ q.active # j)
  PROVE  IInv'
<1> DEFINE x == CancelRun(xfer, d)
           o == dev[d].offered
<1>1. xfer \in [Ids -> Runs] /\ TypeOK
  BY Rest
<1>2. /\ x \in [Ids -> Runs]
      /\ \A j \in Ids : /\ Kept(x[j], xfer[j])
                        /\ x[j].out = xfer[j].out
                        /\ x[j].outLive => xfer[j].outLive
                        /\ x[j].inLive => xfer[j].inLive
                        /\ j = dev[d].cancel => IF xfer[j].by = d THEN ~x[j].outLive ELSE ~x[j].inLive
  <2>1. x \in [Ids -> Runs]
    BY <1>1, CancelRunType
  <2>2. ASSUME NEW j \in Ids
        PROVE  /\ Kept(x[j], xfer[j])
               /\ x[j].out = xfer[j].out
               /\ x[j].outLive => xfer[j].outLive
               /\ x[j].inLive => xfer[j].inLive
               /\ j = dev[d].cancel => IF xfer[j].by = d THEN ~x[j].outLive ELSE ~x[j].inLive
    <3>1. Cancelled(x[j], xfer[j], d, j)
      BY <1>1, CancelRunType
    <3> HIDE DEF x
    <3> QED
      BY <3>1 DEF Cancelled
  <2> HIDE DEF x
  <2> QED
    BY <2>1, <2>2
<1>3. (\A j \in Ids : j # i => xfer'[j] = x[j]) /\ r.outLive = x[i].outLive /\ r.inLive = x[i].inLive
      /\ KeptBut(r, x[i]) /\ r.in \in {"ended", x[i].in}
  OBVIOUS
<1> HIDE DEF x
<1>4. xfer' \in [Ids -> Runs] /\ xfer'[i] = r /\ \A j \in Ids : j # i => xfer'[j] = x[j]
  BY <1>3
<1>5. \A j \in Ids : RunHolds(j)
  BY DEF IInv
<1>6. ASSUME NEW j \in Ids PROVE Forward(xfer'[j], xfer[j])
  <2>1. CASE j = i
    BY <1>4, <2>1
  <2>2. CASE j # i
    <3>1. Kept(xfer'[j], xfer[j]) /\ xfer'[j].out = xfer[j].out /\ (xfer'[j].outLive => xfer[j].outLive) /\ RunHolds(j)
      BY <1>2, <1>4, <1>5, <2>2
    <3> QED
      BY <3>1 DEF Kept, KeptBut, Forward, GoesOn, RunHolds, Described, Ended
  <2> QED
    BY <2>1, <2>2
<1>7. ASSUME NEW j \in Ids, NEW e \in Devices, Alive(xfer'[j], e) PROVE Alive(x[j], e)
  <2>1. CASE j = i
    BY <1>3, <1>4, <1>7, <2>1 DEF Alive, KeptBut
  <2> QED
    BY <1>4, <1>7, <2>1
<1>8. \A j \in Ids : \A e \in Devices : Alive(x[j], e) => Alive(xfer[j], e)
  BY <1>2 DEF Alive, Kept, KeptBut
<1>9. OneSided => \A j \in Ids : ~Alive(xfer'[j], d)
  BY <1>2, <1>7, EndsAlive
<1>10. OnlyOffer(d, q)
  <2>1. o # None => o \in Ids /\ xfer[o].out = "open"
    BY Rest, FieldTypes DEF IInv, DaemonHolds, KeepsOffer
  <2>2. ASSUME NEW j \in Ids, xfer[j].out = "open" PROVE xfer'[j].out = "open"
    <3>1. CASE j = i
      BY <1>4, <2>2, <3>1
    <3>2. CASE j # i
      BY <1>2, <1>4, <2>2, <3>2
    <3> QED
      BY <3>1, <3>2
  <2> QED
    BY <2>1, <2>2 DEF OnlyOffer
<1> QED
  BY <1>4, <1>6, <1>7, <1>8, <1>9, <1>10, Rest, DaemonEnds

LEMMA ServeEndsStep ==
  ASSUME IInv, NEW i \in Ids, ServeEnds(i)
  PROVE  IInv'
<1>0. xfer[i].out = "told" /\ xfer[i] \in Runs /\ RunHolds(i) /\ xfer \in [Ids -> Runs] /\ TypeOK /\ i \in SomeId
  BY Rest, FieldTypes DEF ServeEnds, IInv, SomeId
<1> PICK d \in Devices : d = xfer[i].by
  BY <1>0, FieldTypes DEF RunHolds, Described
<1> DEFINE x == CancelRun(xfer, d)
<1>1. xfer[i].by = d /\ dev[d] \in Daemons
  BY Rest
<1>2. UNCHANGED <<wire, cut, sessions, dialing, told, plan>>
  BY DEF ServeEnds
<1>3. CASE dev[d].active # i
  <2> DEFINE r == [xfer[i] EXCEPT !.out = "closed"]
  <2>1. UNCHANGED dev /\ xfer' = [xfer EXCEPT ![i] = r]
    BY <1>1, <1>3 DEF ServeEnds, EndTransfer, EndedRun
  <2>2. r \in Runs /\ Forward(r, xfer[i]) /\ (\A e \in Devices : Alive(r, e) => Alive(xfer[i], e)) /\ (Left(r) => Left(xfer[i]))
    BY <1>0 DEF Runs, Outs, Forward, GoesOn, RunHolds, Described, Ended, Alive, Left
  <2> HIDE DEF r
  <2> QED
    BY <1>0, <1>2, <2>1, <2>2, Silent, OneRun
<1>4. CASE dev[d].active = i
  <2> DEFINE r == [x[i] EXCEPT !.out = "closed"]
             q == [dev[d] EXCEPT !.cancel = None, !.rx = None, !.active = None, !.ended = i, !.paused = FALSE]
  <2>1. dev' = [dev EXCEPT ![d].cancel = None, ![d].rx = None, ![d].active = None, ![d].ended = i, ![d].paused = FALSE]
        /\ xfer' = [x EXCEPT ![i].out = "closed"]
    BY <1>1, <1>4 DEF ServeEnds, EndTransfer, EndedRun
  <2>2. q \in Daemons
    BY <1>0, <1>1 DEF Daemons, SomeId
  <2>3. dev' = [dev EXCEPT ![d] = q]
    BY <1>1, <2>1, Rest DEF Daemons
  <2>4. q.up = dev[d].up /\ q.cancel = None /\ q.active = None /\ q.offered = dev[d].offered
        /\ q.ended = i /\ q.pending = dev[d].pending /\ q.completed = dev[d].completed
    BY <1>1 DEF Daemons
  <2>5. x \in [Ids -> Runs] /\ \A j \in Ids : /\ Kept(x[j], xfer[j])
                                              /\ x[j].out = xfer[j].out
                                              /\ x[j].outLive => xfer[j].outLive
                                              /\ xfer[j].outLive /\ ~x[j].outLive => j = dev[d].cancel /\ xfer[j].by = d
    BY <1>0, CancelRunIs
  <2> HIDE DEF x, q
  <2>6. r \in Runs /\ KeptBut(r, x[i]) /\ r.in = x[i].in /\ r.outLive = x[i].outLive /\ r.inLive = x[i].inLive /\ r.out = "closed"
    BY <2>5 DEF Runs, Outs, Kept, KeptBut
  <2>7. xfer' = [x EXCEPT ![i] = r]
    BY <2>1, <2>5
  <2> HIDE DEF r
  <2>8. Forward(r, xfer[i])
    BY <1>0, <2>5, <2>6 DEF Kept, KeptBut, Forward, GoesOn, RunHolds, Described, Ended
  <2>9. xfer' \in [Ids -> Runs] /\ xfer'[i] = r /\ \A j \in Ids : j # i => xfer'[j] = x[j]
    BY <2>5, <2>6, <2>7
  <2>10. KeepsEnded(d)'
    BY <1>1, <2>3, <2>4, <2>5, <2>6, <2>9, Rest, FieldTypes DEF KeepsEnded, Kept, KeptBut
  <2>11. \A j \in Ids : Left(xfer'[j]) => Left(xfer[j]) \/ (xfer[j].by = d /\ q.active # j)
    BY <2>4, <2>5, <2>6, <2>9, NamesAssumption DEF Left, Kept, KeptBut
  <2> QED
    BY <1>0, <1>2, <2>2, <2>3, <2>4, <2>6, <2>8, <2>9, <2>10, <2>11, Rest, Silent, EndsBoth DEF x
<1> QED
  BY <1>3, <1>4

LEMMA RunEndedStep ==
  ASSUME IInv, NEW i \in Ids, RunEnded(i)
  PROVE  IInv'
<1>0. xfer[i].in = "ran" /\ xfer[i] \in Runs /\ RunHolds(i) /\ xfer \in [Ids -> Runs] /\ TypeOK /\ i \in SomeId
  BY Rest, FieldTypes DEF RunEnded, IInv, SomeId
<1> PICK d \in Devices : d = Peer(xfer[i].by)
  BY <1>0, FieldTypes, Peers DEF RunHolds, Described
<1> DEFINE x == CancelRun(xfer, d)
<1>1. Peer(xfer[i].by) = d /\ dev[d] \in Daemons
  BY Rest
<1>2. xfer[i].by # d /\ xfer[i].by # None
  BY <1>0, FieldTypes, Peers DEF RunHolds, Described
<1>3. UNCHANGED <<wire, cut, sessions, dialing, told, plan>>
  BY DEF RunEnded
<1>4. CASE dev[d].active # i
  <2> DEFINE r == [xfer[i] EXCEPT !.in = "ended"]
  <2>1. UNCHANGED dev /\ xfer' = [xfer EXCEPT ![i] = r]
    BY <1>1, <1>4 DEF RunEnded, EndTransfer, EndedRun
  <2>2. r \in Runs /\ Forward(r, xfer[i]) /\ (\A e \in Devices : Alive(r, e) => Alive(xfer[i], e)) /\ (Left(r) => Left(xfer[i]))
        /\ r.out = xfer[i].out
    BY <1>0 DEF Runs, Ins, Forward, GoesOn, RunHolds, Described, Ended, Alive, Left
  <2> HIDE DEF r
  <2> QED
    BY <1>0, <1>3, <2>1, <2>2, Silent, OneRun
<1>5. CASE dev[d].active = i
  <2> DEFINE r == [x[i] EXCEPT !.in = "ended"]
             q == [dev[d] EXCEPT !.cancel = None, !.rx = None, !.active = None, !.ended = i, !.paused = FALSE]
  <2>1. dev' = [dev EXCEPT ![d].cancel = None, ![d].rx = None, ![d].active = None, ![d].ended = i, ![d].paused = FALSE]
        /\ xfer' = [x EXCEPT ![i].in = "ended"]
    BY <1>1, <1>5 DEF RunEnded, EndTransfer, EndedRun
  <2>2. q \in Daemons
    BY <1>0, <1>1 DEF Daemons, SomeId
  <2>3. dev' = [dev EXCEPT ![d] = q]
    BY <1>1, <2>1, Rest DEF Daemons
  <2>4. q.up = dev[d].up /\ q.cancel = None /\ q.active = None /\ q.offered = dev[d].offered
        /\ q.ended = i /\ q.pending = dev[d].pending /\ q.completed = dev[d].completed
    BY <1>1 DEF Daemons
  <2>5. x \in [Ids -> Runs] /\ \A j \in Ids : /\ Kept(x[j], xfer[j])
                                              /\ x[j].out = xfer[j].out
                                              /\ x[j].outLive => xfer[j].outLive
                                              /\ xfer[j].outLive /\ ~x[j].outLive => j = dev[d].cancel /\ xfer[j].by = d
    BY <1>0, CancelRunIs
  <2> HIDE DEF x, q
  <2>6. r \in Runs /\ KeptBut(r, x[i]) /\ r.outLive = x[i].outLive /\ r.inLive = x[i].inLive
        /\ r.out = x[i].out /\ r.in = "ended"
    BY <2>5 DEF Runs, Ins, Kept, KeptBut
  <2>7. xfer' = [x EXCEPT ![i] = r]
    BY <2>1, <2>5
  <2> HIDE DEF r
  <2>8. Forward(r, xfer[i])
    BY <1>0, <2>5, <2>6 DEF Kept, KeptBut, Forward, GoesOn, RunHolds, Described, Ended
  <2>9. xfer' \in [Ids -> Runs] /\ xfer'[i] = r /\ \A j \in Ids : j # i => xfer'[j] = x[j]
    BY <2>5, <2>6, <2>7
  <2>10. KeepsEnded(d)'
    BY <1>2, <2>3, <2>4, <2>5, <2>6, <2>9, Rest DEF KeepsEnded, Kept, KeptBut
  <2>11. \A j \in Ids : Left(xfer'[j]) => Left(xfer[j]) \/ (xfer[j].by = d /\ q.active # j)
    BY <2>4, <2>5, <2>6, <2>9, NamesAssumption DEF Left, Kept, KeptBut
  <2>12. r.out = xfer[i].out /\ r.in = "ended"
    BY <2>5, <2>6
  <2>13. q \in Daemons /\ i \in Ids /\ r \in Runs
    BY <1>0, <2>2, <2>6
  <2>14. xfer' \in [Ids -> Runs] /\ xfer'[i] = r /\ \A j \in Ids : j # i => xfer'[j] = CancelRun(xfer, d)[j]
    BY <2>9 DEF x
  <2>15. KeptBut(r, CancelRun(xfer, d)[i]) /\ r.in \in {"ended", CancelRun(xfer, d)[i].in}
    BY <2>6 DEF x
  <2>16. r.outLive = CancelRun(xfer, d)[i].outLive /\ r.inLive = CancelRun(xfer, d)[i].inLive
    BY <2>6 DEF x
  <2>17. Forward(r, xfer[i]) /\ (xfer[i].out = "open" => r.out = "open")
    BY <2>8, <2>12
  <2>18. wire' \in Wires /\ AllSay(wire', xfer) /\ told' \in [Devices -> [Ids -> Seq({"complete", "failed"})]] /\ ToldTruly
    BY <1>0, <1>3, Rest, Silent
  <2> QED
    BY <1>3, <2>3, <2>4, <2>10, <2>11, <2>13, <2>14, <2>15, <2>16, <2>17, <2>18, EndsBoth
<1> QED
  BY <1>4, <1>5

\* receiverDone: what is active is this transfer, whose items ended if it is the only one.
LEMMA ServedOutcomeStep ==
  ASSUME IInv, NEW i \in Ids, ServedOutcome(i)
  PROVE  IInv'
<1>0. xfer[i].out = "returned" /\ xfer[i] \in Runs /\ RunHolds(i) /\ xfer \in [Ids -> Runs] /\ TypeOK
      /\ i \in SomeId /\ i # None
  BY Rest, FieldTypes DEF ServedOutcome, IInv, SomeId
<1> PICK d \in Devices : d = xfer[i].by
  BY <1>0, FieldTypes DEF RunHolds, Described
<1> DEFINE s == [xfer[i] EXCEPT !.out = "told"]
           x == [xfer EXCEPT ![i] = s]
<1>1. xfer[i].by = d /\ dev[d] \in Daemons /\ xfer[i].by # None
  BY Rest, Peers
<1>2. UNCHANGED <<cut, sessions, dialing, plan>>
  BY DEF ServedOutcome
<1>3. s \in Runs /\ KeptBut(s, xfer[i]) /\ s.in = xfer[i].in /\ s.outLive = xfer[i].outLive /\ s.inLive = xfer[i].inLive
      /\ s.out = "told"
  BY <1>0 DEF Runs, Outs, KeptBut
<1>4. x = [xfer EXCEPT ![i].out = "told"]
  BY <1>0
<1>5. Forward(s, xfer[i]) /\ (\A e \in Devices : Alive(s, e) => Alive(xfer[i], e)) /\ ~Left(s)
  BY <1>0, <1>1, <1>3 DEF KeptBut, Forward, GoesOn, RunHolds, Described, Ended, Alive, Left
<1>6. ReceiverDone(i) /\ Completable(d, i) =>
        /\ dev' = [dev EXCEPT ![d].ended = IF @ = i THEN None ELSE @, ![d].sentCompleted = i, ![d].cancel = None]
        /\ xfer' = CancelRun(x, d) /\ Tell(d, i, "complete") /\ wire' = wire
  BY <1>1, <1>4 DEF ServedOutcome, CompleteSent
<1>7. ReceiverDone(i) /\ ~Completable(d, i) => xfer' = x /\ UNCHANGED <<dev, told, wire>>
  BY <1>1, <1>4 DEF ServedOutcome, CompleteSent
<1>8. ~ReceiverDone(i) => xfer' = x /\ UNCHANGED dev /\ Tell(d, i, "failed") /\ wire' = Sent(wire, d, "failed", i)
  BY <1>1, <1>4 DEF ServedOutcome, TransferFailed
<1> HIDE DEF s
<1>9. CASE ~ReceiverDone(i)
  <2>0. Msg("failed", i) \in Messages /\ SaysOf(xfer, Peer(d), Msg("failed", i))
    BY <1>0, PlainMessage
  <2>1. Sent(wire, d, "failed", i) \in Wires /\ AllSay(Sent(wire, d, "failed", i), xfer)
    BY <1>0, <2>0, Rest, SentIs
  <2>2. wire' \in Wires /\ AllSay(wire', xfer)
    BY <1>8, <1>9, <2>1
  <2>3. told' \in [Devices -> [Ids -> Seq({"complete", "failed"})]] /\ ToldTruly
    BY <1>8, <1>9, TellIs
  <2> QED
    BY <1>0, <1>2, <1>3, <1>5, <1>8, <1>9, <2>2, <2>3, OneRun
<1>10. CASE ReceiverDone(i) /\ ~Completable(d, i)
  BY <1>0, <1>2, <1>3, <1>5, <1>7, <1>10, Silent, OneRun
<1>11. CASE ReceiverDone(i) /\ Completable(d, i)
  <2> DEFINE q == [dev[d] EXCEPT !.ended = IF @ = i THEN None ELSE @, !.sentCompleted = i, !.cancel = None]
             o == dev[d].offered
  <2>1. q \in Daemons
    <3> DEFINE e == IF dev[d].ended = i THEN None ELSE dev[d].ended
    <3>1. e \in SomeId /\ i \in SomeId /\ None \in SomeId
      BY <1>0, <1>1 DEF Daemons, SomeId
    <3>2. q = [dev[d] EXCEPT !.ended = e, !.sentCompleted = i, !.cancel = None]
      OBVIOUS
    <3> HIDE DEF e, q
    <3> QED
      BY <1>1, <3>1, <3>2 DEF Daemons
  <2>2. dev' = [dev EXCEPT ![d] = q]
    BY <1>1, <1>6, <1>11, Rest DEF Daemons
  <2>3. q.up = dev[d].up /\ q.cancel = None /\ q.active = dev[d].active /\ q.offered = dev[d].offered
        /\ q.ended \in {None, dev[d].ended} /\ q.pending = dev[d].pending /\ q.completed = dev[d].completed
    BY <1>1 DEF Daemons
  <2>4. x \in [Ids -> Runs] /\ x[i] = s /\ \A j \in Ids : j # i => x[j] = xfer[j]
    BY <1>0, <1>3
  <2> HIDE DEF x, q
  <2>5. /\ xfer' \in [Ids -> Runs]
        /\ \A j \in Ids : /\ Kept(xfer'[j], x[j]) /\ xfer'[j].out = x[j].out
                          /\ xfer'[j].outLive => x[j].outLive
                          /\ xfer'[j].inLive => x[j].inLive
                          /\ j = dev[d].cancel => IF x[j].by = d THEN ~xfer'[j].outLive ELSE ~xfer'[j].inLive
    BY <1>0, <1>6, <1>11, <2>4, CancelRunIs
  <2>6. \A j \in Ids : /\ Kept(xfer'[j], xfer[j])
                       /\ xfer'[j].out = IF j = i THEN "told" ELSE xfer[j].out
                       /\ xfer'[j].outLive => xfer[j].outLive
                       /\ xfer'[j].inLive => xfer[j].inLive
                       /\ j = dev[d].cancel => IF xfer[j].by = d THEN ~xfer'[j].outLive ELSE ~xfer'[j].inLive
    BY <1>3, <2>4, <2>5 DEF Kept, KeptBut
  <2>7. ASSUME NEW j \in Ids PROVE Forward(xfer'[j], xfer[j])
    <3>1. RunHolds(j)
      BY DEF IInv
    <3> QED
      BY <1>0, <1>1, <2>6, <3>1 DEF Kept, KeptBut, Forward, GoesOn, RunHolds, Described, Ended
  <2>8. \A j \in Ids : \A e \in Devices : Alive(xfer'[j], e) => Alive(xfer[j], e)
    BY <2>6 DEF Kept, KeptBut, Alive
  <2>9. OneSided => \A j \in Ids : ~Alive(xfer'[j], d)
    BY <2>6, EndsAlive
  <2>10. OnlyOffer(d, q)
    <3>1. o # None => o \in Ids /\ xfer[o].out = "open"
      BY Rest, FieldTypes DEF IInv, DaemonHolds, KeepsOffer
    <3> QED
      BY <1>0, <2>3, <2>6, <3>1 DEF OnlyOffer
  <2>11. OneTransfer => \A j \in Ids : ~Left(xfer'[j])
    <3> SUFFICES ASSUME OneTransfer, NEW j \in Ids, Left(xfer'[j]) PROVE FALSE
      OBVIOUS
    <3>1. j # i /\ xfer[j].out \in {"accepted", "serving", "returned"}
      BY <2>6 DEF Left
    <3>2. xfer[j].by # None
      BY <3>1 DEF IInv, RunHolds, Described
    <3> QED
      BY <1>1, <3>1, <3>2, OneOnly
  <2>12. OneTransfer => xfer[i].allEnded \/ ~dev[d].up
    <3>1. dev[d].active = i
      BY <1>0, <1>1, <1>11, FieldTypes DEF Completable, IInv, DaemonHolds, KeepsEnded
    <3>2. OneTransfer => WasDropped(i)
      BY DEF IInv, Confirmed
    <3>3. ~xfer[i].outLive /\ ~xfer[i].idle
      BY <1>0, <1>11 DEF RunHolds, Ended, ReceiverDone
    <3> QED
      BY <1>0, <1>1, <3>1, <3>2, <3>3 DEF WasDropped, Left
  <2>13. dev'[d].up = dev[d].up
    BY <2>2, <2>3, Rest
  <2>14. told' \in [Devices -> [Ids -> Seq({"complete", "failed"})]] /\ ToldTruly
    BY <1>1, <1>6, <1>11, <2>6, <2>12, <2>13, TellIs DEF Kept, KeptBut
  <2>15. wire' \in Wires /\ AllSay(wire', xfer)
    BY <1>6, <1>11, Rest
  <2> QED
    BY <1>2, <2>1, <2>2, <2>3, <2>5, <2>7, <2>8, <2>9, <2>10, <2>11, <2>14, <2>15, Rest, DaemonEnds
<1> QED
  BY <1>9, <1>10, <1>11

\* The offer of d is closed, and nothing else ends.
LEMMA OfferClosed ==
  ASSUME IInv, NEW d \in Devices, dev' = [dev EXCEPT ![d].offered = None],
         xfer' = CloseOffer(xfer, dev[d].offered),
         UNCHANGED <<cut, sessions, dialing, told, plan>>, wire' \in Wires, AllSay(wire', xfer)
  PROVE  IInv'
<1> DEFINE o == dev[d].offered
           q == [dev[d] EXCEPT !.offered = None]
<1>1. o \in SomeId /\ dev[d] \in Daemons /\ xfer \in [Ids -> Runs] /\ TypeOK /\ (\A i \in Ids : RunHolds(i))
  BY Rest, FieldTypes DEF IInv
<1>2. q \in Daemons /\ q.offered = None /\ q.up = dev[d].up /\ q.active = dev[d].active /\ q.cancel = dev[d].cancel
      /\ q.ended = dev[d].ended /\ q.pending = dev[d].pending /\ q.completed = dev[d].completed
  BY <1>1 DEF Daemons, SomeId
<1>3. dev' \in [Devices -> Daemons] /\ dev'[d] = q /\ \A e \in Devices : e # d => dev'[e] = dev[e]
  BY <1>2, Rest
<1> HIDE DEF q
<1>4. /\ xfer' \in [Ids -> Runs]
      /\ \A i \in Ids : /\ i # o => xfer'[i] = xfer[i]
                        /\ Kept(xfer'[i], xfer[i]) /\ xfer'[i].outLive = xfer[i].outLive /\ xfer'[i].inLive = xfer[i].inLive
                        /\ i = o => xfer'[i].out = "closed"
  BY <1>1, CloseOfferIs
<1>5. o # None => o \in Ids /\ xfer[o].out = "open" /\ xfer[o].by = d
  BY <1>1, FieldTypes DEF IInv, DaemonHolds, KeepsOffer
<1>6. TypeOK'
  BY <1>1, <1>3, <1>4 DEF TypeOK
<1>7. ASSUME NEW i \in Ids PROVE Forward(xfer'[i], xfer[i])
  <2>1. RunHolds(i)
    BY <1>1
  <2>2. CASE i = o
    <3>1. xfer[i].out = "open" /\ xfer[i].by = d /\ d # None /\ xfer'[i].out = "closed"
      BY <1>4, <1>5, <2>2, Peers, NamesAssumption
    <3>2. Kept(xfer'[i], xfer[i])
      BY <1>4
    <3> QED
      BY <2>1, <3>1, <3>2 DEF Kept, KeptBut, Forward, GoesOn, RunHolds, Described, Ended
  <2>3. CASE i # o
    <3>1. xfer'[i] = xfer[i]
      BY <1>4, <2>3
    <3> QED
      BY <2>1, <3>1 DEF Forward, GoesOn, RunHolds, Described, Ended
  <2> QED
    BY <2>2, <2>3
<1>8. ASSUME NEW e \in Devices PROVE HoldsOn(e)
  <2>1. dev[e].offered # None => dev[e].offered \in Ids /\ xfer[dev[e].offered].out = "open" /\ xfer[dev[e].offered].by = e
    BY <1>1, FieldTypes DEF IInv, DaemonHolds, KeepsOffer
  <2>2. HoldsRest(e)
    BY <1>2, <1>3 DEF HoldsRest
  <2>3. HoldsOffer(e)
    BY <1>2, <1>3, <1>4, <1>5, <2>1 DEF HoldsOffer
  <2> QED
    BY <2>2, <2>3 DEF HoldsOn
<1>9. ToldTruly
  BY DEF ToldTruly
<1>10. \A e \in Devices : /\ dev'[e].offered \in {None, dev[e].offered}
                          /\ dev'[e].cancel = dev[e].cancel /\ dev'[e].active = dev[e].active /\ dev'[e].up = dev[e].up
  BY <1>2, <1>3
<1>11. OneSided => CanCancel'
  <2>1. \A i \in Ids : \A e \in Devices : Alive(xfer'[i], e) => Alive(xfer[i], e)
    BY <1>4 DEF Kept, KeptBut, Alive
  <2> QED
    BY <1>10, <2>1, StillActive
<1>12. OneTransfer => \A i \in Ids : WasDropped(i)'
  <2>1. \A i \in Ids : Left(xfer'[i]) => Left(xfer[i]) /\ xfer[i].by \in Devices
    <3> SUFFICES ASSUME NEW i \in Ids, Left(xfer'[i]) PROVE Left(xfer[i]) /\ xfer[i].by \in Devices
      OBVIOUS
    <3>1. Left(xfer[i]) /\ RunHolds(i)
      BY <1>1, <1>4 DEF Left
    <3> QED
      BY <1>1, <3>1, FieldTypes DEF Left, RunHolds, Described
  <2>2. \A i \in Ids : xfer'[i].by = xfer[i].by
    BY <1>4 DEF Kept, KeptBut
  <2> QED
    BY <1>10, <2>1, <2>2, StillLeft
<1> QED
  BY <1>6, <1>7, <1>8, <1>9, <1>11, <1>12, Frame

LEMMA TakeRejectStep ==
  ASSUME IInv, NEW d \in Devices, NEW k \in 1 .. MaxSessions, wire[d][k] # <<>>, NEW i \in Ids,
         TakeReject(d, k, i), UNCHANGED <<sessions, dialing, plan>>
  PROVE  IInv'
<1>1. wire' \in Wires /\ AllSay(wire', xfer) /\ UNCHANGED <<cut, told>>
  BY ReadIs DEF TakeReject
<1>2. CASE dev[d].offered = i
  <2>1. xfer' = CloseOffer(xfer, dev[d].offered) /\ dev' = [dev EXCEPT ![d].offered = None]
    BY <1>2 DEF TakeReject
  <2> QED
    BY <1>1, <2>1, OfferClosed
<1>3. CASE dev[d].offered # i
  <2>1. UNCHANGED <<xfer, dev>>
    BY <1>3 DEF TakeReject
  <2>2. dev' = [dev EXCEPT ![d] = dev[d]] /\ dev[d] \in Daemons
    BY <2>1, Rest
  <2> QED
    BY <1>1, <2>1, <2>2, Rest, RunsStay, DaemonStill
<1> QED
  BY <1>2, <1>3

\* An offer accepted is active, and nothing else was.
LEMMA ServeAcceptedStep ==
  ASSUME IInv, NEW d \in Devices, NEW k \in 1 .. MaxSessions, wire[d][k] # <<>>, NEW i \in Ids,
         ServeAccepted(d, k, i), UNCHANGED <<sessions, dialing, plan>>
  PROVE  IInv'
<1>1. wire' \in Wires /\ AllSay(wire', xfer) /\ UNCHANGED <<cut, told>>
  BY ReadIs DEF ServeAccepted
<1>2. CASE dev[d].offered # i
  <2>1. xfer' = CloseOffer(xfer, dev[d].offered) /\ dev' = [dev EXCEPT ![d].offered = None]
    BY <1>2 DEF ServeAccepted
  <2> QED
    BY <1>1, <2>1, OfferClosed
<1>3. CASE dev[d].offered = i
  <2> DEFINE q == [dev[d] EXCEPT !.offered = None, !.cancel = i, !.active = i]
             r == [xfer[i] EXCEPT !.out = "accepted", !.outLive = TRUE]
  <2>1. dev[d] \in Daemons /\ xfer[i] \in Runs /\ TypeOK /\ (\A j \in Ids : RunHolds(j)) /\ i # None
    BY Rest, FieldTypes DEF IInv
  <2>2. xfer[i].out = "open" /\ xfer[i].by = d
    BY <1>3, <2>1 DEF IInv, DaemonHolds, KeepsOffer
  <2>3. q \in Daemons /\ q.offered = None /\ q.up = dev[d].up /\ q.active = i /\ q.cancel = i
        /\ q.ended = dev[d].ended /\ q.pending = dev[d].pending /\ q.completed = dev[d].completed
    BY <2>1 DEF Daemons, SomeId
  <2>4. dev' = [dev EXCEPT ![d] = q] /\ xfer' = [xfer EXCEPT ![i] = r]
    BY <1>3, <2>1, Rest DEF ServeAccepted, Daemons
  <2>5. r \in Runs /\ KeptBut(r, xfer[i]) /\ r.in = xfer[i].in /\ r.inLive = xfer[i].inLive
        /\ r.outLive /\ r.out = "accepted"
    BY <2>1 DEF Runs, Outs, KeptBut
  <2> HIDE DEF q, r
  <2>6. /\ dev' \in [Devices -> Daemons] /\ dev'[d] = q /\ \A e \in Devices : e # d => dev'[e] = dev[e]
        /\ xfer' \in [Ids -> Runs] /\ xfer'[i] = r /\ \A j \in Ids : j # i => xfer'[j] = xfer[j]
    BY <2>3, <2>4, <2>5, Rest
  <2>7. TypeOK'
    BY <1>1, <2>1, <2>6 DEF TypeOK
  <2>8. ASSUME NEW j \in Ids PROVE Forward(xfer'[j], xfer[j])
    <3>1. RunHolds(j)
      BY <2>1
    <3>2. CASE j = i
      BY <2>2, <2>5, <2>6, <3>1, <3>2, Peers DEF KeptBut, Forward, GoesOn, RunHolds, Described, Ended
    <3>3. CASE j # i
      BY <2>6, <3>1, <3>3 DEF Forward, GoesOn, RunHolds, Described, Ended
    <3> QED
      BY <3>2, <3>3
  <2>9. ASSUME NEW e \in Devices PROVE HoldsOn(e)
    <3>1. dev[e].offered # None => dev[e].offered \in Ids /\ xfer[dev[e].offered].out = "open" /\ xfer[dev[e].offered].by = e
      BY <2>1, FieldTypes DEF IInv, DaemonHolds, KeepsOffer
    <3>2. HoldsRest(e)
      BY <2>3, <2>6 DEF HoldsRest
    <3>3. HoldsOffer(e)
      BY <1>3, <2>2, <2>3, <2>5, <2>6, <3>1 DEF HoldsOffer
    <3> QED
      BY <3>2, <3>3 DEF HoldsOn
  <2>10. ToldTruly
    BY <1>1 DEF ToldTruly
  <2>11. OneSided => CanCancel'
    <3> SUFFICES ASSUME OneSided PROVE CanCancel'
      OBVIOUS
    <3>1. dev[d].cancel = None
      BY <1>3, <2>1 DEF IInv, CanCancel
    <3>2. ASSUME NEW j \in Ids, Alive(xfer'[j], d) PROVE dev'[d].cancel = j /\ dev'[d].active = j
      <4>1. ~Alive(xfer[j], d)
        BY <3>1, NoneAlive, NamesAssumption
      <4> QED
        BY <2>3, <2>6, <3>2, <4>1
    <3>3. ASSUME NEW e \in Devices, e # d, NEW j \in Ids, Alive(xfer'[j], e) PROVE Alive(xfer[j], e)
      BY <2>2, <2>5, <2>6, <3>3 DEF Alive, KeptBut
    <3>4. ASSUME NEW e \in Devices, NEW j \in Ids, Alive(xfer'[j], e) PROVE dev'[e].cancel = j /\ dev'[e].active = j
      BY <2>6, <3>2, <3>3, <3>4 DEF IInv, CanCancel, RunIsActive, LiveRuns, Alive
    <3>5. RunIsActive'
      BY <3>4 DEF RunIsActive, LiveRuns, Alive
    <3>6. \A e \in Devices : dev'[e].offered # None => dev'[e].cancel = None
      BY <2>3, <2>6 DEF IInv, CanCancel
    <3> QED
      BY <3>5, <3>6 DEF CanCancel
  <2>12. OneTransfer => \A j \in Ids : WasDropped(j)'
    <3>1. \A j \in Ids : Left(xfer'[j]) => j # i /\ Left(xfer[j]) /\ xfer[j].by \in Devices
      <4> SUFFICES ASSUME NEW j \in Ids, Left(xfer'[j]) PROVE j # i /\ Left(xfer[j]) /\ xfer[j].by \in Devices
        OBVIOUS
      <4>1. j # i /\ Left(xfer[j]) /\ RunHolds(j)
        BY <2>1, <2>5, <2>6 DEF Left
      <4> QED
        BY <2>1, <4>1, FieldTypes DEF Left, RunHolds, Described
    <3>2. \A j \in Ids : xfer'[j].by = xfer[j].by
      BY <2>5, <2>6 DEF KeptBut
    <3>3. \A e \in Devices : dev'[e].up = dev[e].up /\ (dev'[e].active = dev[e].active \/ dev'[e].active = i)
      BY <2>3, <2>6
    <3> QED
      BY <3>1, <3>2, <3>3, StillLeft
  <2> QED
    BY <1>1, <2>7, <2>8, <2>9, <2>10, <2>11, <2>12, Frame
<1> QED
  BY <1>2, <1>3

\* A transfer received is active, where none was; the side that receives offers nothing.
LEMMA ReceiveStep ==
  ASSUME IInv, NEW d \in Devices, NEW i \in Ids, Receive(d, i)
  PROVE  IInv'
<1>1. dev[d] \in Daemons /\ xfer[i] \in Runs /\ TypeOK /\ (\A j \in Ids : RunHolds(j)) /\ i # None /\ i \in SomeId
      /\ wire \in Wires /\ AllSay(wire, xfer)
  BY Rest, FieldTypes DEF IInv, SomeId
<1>2. UNCHANGED <<cut, sessions, dialing, told, plan>> /\ xfer[i].in = "deciding" /\ xfer[i].by # d
  BY DEF Receive
<1>3. xfer[i].by = Peer(d) /\ xfer[i].by # None /\ xfer[i].inSess \in 0 .. MaxSessions
  BY <1>1, <1>2, FieldTypes, Peers DEF RunHolds, Described
<1>4. CASE ~MayReceive(d)
  <2> DEFINE r == [xfer[i] EXCEPT !.in = "over"]
  <2>1. UNCHANGED dev /\ xfer' = [xfer EXCEPT ![i] = r] /\ wire' = Sent(wire, d, "reject", i)
    BY <1>4, Rest DEF Receive
  <2>2. r \in Runs /\ Forward(r, xfer[i]) /\ (\A e \in Devices : Alive(r, e) => Alive(xfer[i], e)) /\ (Left(r) => Left(xfer[i]))
        /\ r.out = xfer[i].out
    BY <1>1, <1>3 DEF Runs, Ins, Forward, GoesOn, RunHolds, Described, Ended, Alive, Left
  <2> HIDE DEF r
  <2>3. wire' \in Wires /\ AllSay(wire', xfer)
    BY <1>1, <2>1, SentIs, PlainMessage
  <2>4. told' \in [Devices -> [Ids -> Seq({"complete", "failed"})]] /\ ToldTruly
    BY <1>1, <1>2 DEF TypeOK, ToldTruly
  <2> QED
    BY <1>2, <2>1, <2>2, <2>3, <2>4, OneRun
<1>5. CASE MayReceive(d)
  <2> DEFINE q == [dev[d] EXCEPT !.cancel = i, !.rx = i, !.active = i]
             r == [xfer[i] EXCEPT !.in = "receiving", !.inLive = TRUE, !.rxPaused = dev[d].paused]
  <2>1. q \in Daemons /\ q.offered = dev[d].offered /\ q.up = dev[d].up /\ q.active = i /\ q.cancel = i
        /\ q.ended = dev[d].ended /\ q.pending = dev[d].pending /\ q.completed = dev[d].completed
    BY <1>1 DEF Daemons, SomeId
  <2>2. dev' = [dev EXCEPT ![d] = q] /\ xfer' = [xfer EXCEPT ![i] = r] /\ wire' = SentOn(wire, d, xfer[i].inSess, "accept", i)
    BY <1>1, <1>5, Rest DEF Receive, Daemons
  <2>3. r \in Runs /\ r.by = xfer[i].by /\ r.allEnded = xfer[i].allEnded /\ r.done = xfer[i].done /\ r.out = xfer[i].out
        /\ r.outLive = xfer[i].outLive /\ r.idle = xfer[i].idle /\ r.in = "receiving"
    BY <1>1 DEF Runs, Ins, Daemons
  <2> HIDE DEF q, r
  <2>4. /\ dev' \in [Devices -> Daemons] /\ dev'[d] = q /\ \A e \in Devices : e # d => dev'[e] = dev[e]
        /\ xfer' \in [Ids -> Runs] /\ xfer'[i] = r /\ \A j \in Ids : j # i => xfer'[j] = xfer[j]
    BY <2>1, <2>2, <2>3, Rest
  <2>5. wire' \in Wires /\ AllSay(wire', xfer)
    BY <1>1, <1>3, <2>2, SentOnIs, PlainMessage
  <2>6. TypeOK'
    BY <1>1, <1>2, <2>4, <2>5 DEF TypeOK
  <2>7. ASSUME NEW j \in Ids PROVE Forward(xfer'[j], xfer[j])
    <3>1. RunHolds(j)
      BY <1>1
    <3>2. CASE j = i
      BY <1>3, <2>3, <2>4, <3>1, <3>2 DEF Forward, GoesOn, RunHolds, Described, Ended
    <3>3. CASE j # i
      BY <2>4, <3>1, <3>3 DEF Forward, GoesOn, RunHolds, Described, Ended
    <3> QED
      BY <3>2, <3>3
  <2>8. ASSUME NEW e \in Devices PROVE HoldsOn(e)
    <3>1. dev[e].offered # None => dev[e].offered \in Ids /\ xfer[dev[e].offered].out = "open"
      BY <1>1, FieldTypes DEF IInv, DaemonHolds, KeepsOffer
    <3>2. HoldsRest(e)
      BY <2>1, <2>4 DEF HoldsRest
    <3>3. HoldsOffer(e)
      BY <2>1, <2>3, <2>4, <3>1 DEF HoldsOffer
    <3> QED
      BY <3>2, <3>3 DEF HoldsOn
  <2>9. ToldTruly
    BY <1>2 DEF ToldTruly
  <2>10. OneSided => CanCancel'
    <3> SUFFICES ASSUME OneSided PROVE CanCancel'
      OBVIOUS
    <3>1. dev[d].cancel = None
      BY <1>5 DEF MayReceive
    <3>2. dev[d].offered = None
      <4>1. PICK s \in Devices : Senders = {s}
        BY DEF OneSided
      <4>2. xfer[i].by = s
        BY <1>1, <1>3, <4>1 DEF RunHolds, Described
      <4>3. ASSUME dev[d].offered # None PROVE FALSE
        <5>1. dev[d].offered \in Ids /\ xfer[dev[d].offered].by = d
          BY <1>1, <4>3, FieldTypes DEF IInv, DaemonHolds, KeepsOffer
        <5>2. d = s
          BY <1>1, <4>1, <5>1, FieldTypes DEF RunHolds, Described
        <5> QED
          BY <1>2, <4>2, <5>2
      <4> QED
        BY <4>3
    <3>3. ASSUME NEW j \in Ids, Alive(xfer'[j], d) PROVE dev'[d].cancel = j /\ dev'[d].active = j
      <4>1. ~Alive(xfer[j], d)
        BY <3>1, NoneAlive, NamesAssumption
      <4> QED
        BY <2>1, <2>4, <3>3, <4>1
    <3>4. ASSUME NEW e \in Devices, e # d, NEW j \in Ids, Alive(xfer'[j], e) PROVE Alive(xfer[j], e)
      BY <1>3, <2>3, <2>4, <3>4, Peers DEF Alive
    <3>5. ASSUME NEW e \in Devices, NEW j \in Ids, Alive(xfer'[j], e) PROVE dev'[e].cancel = j /\ dev'[e].active = j
      BY <2>4, <3>3, <3>4, <3>5 DEF IInv, CanCancel, RunIsActive, LiveRuns, Alive
    <3>6. RunIsActive'
      BY <3>5 DEF RunIsActive, LiveRuns, Alive
    <3>7. \A e \in Devices : dev'[e].offered # None => dev'[e].cancel = None
      BY <2>1, <2>4, <3>2 DEF IInv, CanCancel
    <3> QED
      BY <3>6, <3>7 DEF CanCancel
  <2>11. OneTransfer => \A j \in Ids : WasDropped(j)'
    <3>1. \A j \in Ids : Left(xfer'[j]) => Left(xfer[j]) /\ xfer[j].by \in Devices /\ (xfer[j].by = d => j # i)
      <4> SUFFICES ASSUME NEW j \in Ids, Left(xfer'[j])
                   PROVE  Left(xfer[j]) /\ xfer[j].by \in Devices /\ (xfer[j].by = d => j # i)
        OBVIOUS
      <4>1. Left(xfer[j]) /\ RunHolds(j)
        BY <1>1, <2>3, <2>4 DEF Left
      <4> QED
        BY <1>1, <1>2, <4>1, FieldTypes DEF Left, RunHolds, Described
    <3>2. \A j \in Ids : xfer'[j].by = xfer[j].by
      BY <2>3, <2>4
    <3>3. \A e \in Devices : dev'[e].up = dev[e].up /\ (dev'[e].active = dev[e].active \/ (e = d /\ dev'[e].active = i))
      BY <2>1, <2>4
    <3> QED
      BY <3>1, <3>2, <3>3, StillLeft
  <2> QED
    BY <1>2, <2>5, <2>6, <2>7, <2>8, <2>9, <2>10, <2>11, Frame
<1> QED
  BY <1>4, <1>5

\* Stop ends every run of a daemon, that shows nothing any more.
LEMMA StopStep ==
  ASSUME IInv, NEW d \in Devices, Stop(d)
  PROVE  IInv'
<1> DEFINE q == [dev[d] EXCEPT !.up = FALSE, !.sess = NoSession]
<1>1. dev[d] \in Daemons /\ TypeOK /\ (\A j \in Ids : RunHolds(j)) /\ xfer \in [Ids -> Runs]
  BY Rest DEF IInv
<1>2. UNCHANGED <<sessions, dialing, told, plan>> /\ Leaves(d, wire)
  BY DEF Stop
<1>3. q \in Daemons /\ q.offered = dev[d].offered /\ ~q.up /\ q.active = dev[d].active /\ q.cancel = dev[d].cancel
      /\ q.ended = dev[d].ended /\ q.pending = dev[d].pending /\ q.completed = dev[d].completed
  <2>1. NoSession \in 0 .. MaxSessions
    BY SessionsAssumption DEF NoSession
  <2>2. q \in Daemons
    BY <1>1, <2>1 DEF Daemons
  <2> QED
    BY <1>1, <2>2 DEF Daemons
<1>4. dev' = [dev EXCEPT ![d] = q]
  BY <1>1, Rest DEF Stop, Daemons
<1> HIDE DEF q
<1>5. dev' \in [Devices -> Daemons] /\ dev'[d] = q /\ \A e \in Devices : e # d => dev'[e] = dev[e]
  BY <1>3, <1>4, Rest
<1>6. ASSUME NEW i \in Ids
      PROVE  /\ xfer'[i] \in Runs /\ Kept(xfer'[i], xfer[i]) /\ xfer'[i].out = xfer[i].out
             /\ xfer'[i].outLive => xfer[i].outLive
             /\ xfer'[i].inLive => xfer[i].inLive
             /\ xfer[i].by # d => xfer'[i].outLive = xfer[i].outLive
  <2>1. xfer'[i] = [xfer[i] EXCEPT !.outLive = @ /\ xfer[i].by # d, !.inLive = @ /\ xfer[i].by = d]
    BY DEF Stop
  <2>2. xfer[i] \in Runs
    BY <1>1
  <2> QED
    BY <2>1, <2>2 DEF Runs, Kept, KeptBut
<1>7. xfer' \in [Ids -> Runs]
  <2>1. xfer' = [i \in Ids |-> xfer'[i]]
    BY DEF Stop
  <2> QED
    BY <1>6, <2>1
<1>8. wire' \in Wires /\ AllSay(wire', xfer) /\ cut' \subseteq 1 .. MaxSessions
  <2>1. wire' \in Wires /\ AllSay(wire', xfer) /\ cut' = IF dev[d].sess = NoSession THEN cut ELSE cut \cup {dev[d].sess}
    BY <1>2, LeavesIs
  <2>2. dev[d].sess \in 0 .. MaxSessions
    BY <1>1, FieldTypes
  <2> QED
    BY <2>1, <2>2, Rest, SessionsAssumption DEF NoSession
<1>9. TypeOK'
  BY <1>1, <1>2, <1>5, <1>7, <1>8 DEF TypeOK
<1>10. ASSUME NEW i \in Ids PROVE Forward(xfer'[i], xfer[i])
  <2>1. RunHolds(i)
    BY <1>1
  <2> QED
    BY <1>6, <2>1 DEF Kept, KeptBut, Forward, GoesOn, RunHolds, Described, Ended
<1>11. ASSUME NEW e \in Devices PROVE HoldsOn(e)
  <2>1. dev[e].offered # None => dev[e].offered \in Ids /\ xfer[dev[e].offered].out = "open"
    BY <1>1, FieldTypes DEF IInv, DaemonHolds, KeepsOffer
  <2>2. dev[e].offered # None => xfer'[dev[e].offered].out = "open"
    BY <1>6, <2>1
  <2>3. HoldsRest(e)
    BY <1>3, <1>5 DEF HoldsRest
  <2>4. HoldsOffer(e)
    BY <1>3, <1>5, <2>2 DEF HoldsOffer
  <2> QED
    BY <2>3, <2>4 DEF HoldsOn
<1>12. ToldTruly
  BY <1>2 DEF ToldTruly
<1>13. OneSided => CanCancel'
  <2>1. \A e \in Devices : dev'[e].offered = dev[e].offered /\ dev'[e].cancel = dev[e].cancel /\ dev'[e].active = dev[e].active
    BY <1>3, <1>5
  <2>2. \A i \in Ids : \A e \in Devices : Alive(xfer'[i], e) => Alive(xfer[i], e)
    BY <1>6 DEF Kept, KeptBut, Alive
  <2> QED
    BY <2>1, <2>2, StillActive
<1>14. OneTransfer => \A i \in Ids : WasDropped(i)'
  <2>1. \A i \in Ids : xfer'[i].by = xfer[i].by
    BY <1>6 DEF Kept, KeptBut
  <2>2. ASSUME NEW i \in Ids, Left(xfer'[i]), dev'[xfer[i].by].up
        PROVE  Left(xfer[i]) /\ dev[xfer[i].by].up /\ dev'[xfer[i].by].active = dev[xfer[i].by].active
    <3>1. xfer[i].by \in Devices
      <4>1. xfer[i].out # "none" /\ RunHolds(i)
        BY <1>1, <1>6, <2>2 DEF Left
      <4> QED
        BY <1>1, <4>1, FieldTypes DEF RunHolds, Described
    <3>2. xfer[i].by # d
      BY <1>3, <1>5, <2>2
    <3> QED
      BY <1>5, <1>6, <2>2, <3>1, <3>2 DEF Left, Kept, KeptBut
  <2> QED
    BY <2>1, <2>2, StillLeft
<1> QED
  BY <1>2, <1>8, <1>9, <1>10, <1>11, <1>12, <1>13, <1>14, Frame

\* An offer begins: what none knew is now described by d.
LEMMA BeginSendStep ==
  ASSUME IInv, NEW d \in Devices, NEW i \in Ids, BeginSend(d, i)
  PROVE  IInv'
<1> DEFINE r == [xfer[i] EXCEPT !.by = d, !.out = "building", !.outSess = dev[d].sess]
<1>1. xfer[i] \in Runs /\ TypeOK /\ (\A j \in Ids : RunHolds(j)) /\ (\A e \in Devices : DaemonHolds(e))
      /\ i # None /\ dev[d].sess \in 0 .. MaxSessions /\ xfer \in [Ids -> Runs] /\ d # None
  BY Rest, FieldTypes, Peers DEF IInv
<1>2. UNCHANGED <<dev, wire, cut, sessions, dialing, told, plan>> /\ xfer[i].by = None /\ d \in Senders /\ i \in plan.ids
  BY DEF BeginSend
<1>3. xfer[i].out = "none" /\ xfer[i].in = "none" /\ ~xfer[i].outLive /\ ~xfer[i].allEnded
      /\ \A e \in Devices : ~HasComplete(told, e, i)
  BY <1>1, <1>2 DEF RunHolds, Described
<1>4. xfer' = [xfer EXCEPT ![i] = r]
  BY <1>1 DEF BeginSend
<1>5. r \in Runs /\ r.by = d /\ r.out = "building" /\ r.in = "none" /\ ~r.outLive /\ ~r.allEnded /\ r.done = xfer[i].done
  BY <1>1, <1>3 DEF Runs, Outs
<1> HIDE DEF r
<1>6. xfer' \in [Ids -> Runs] /\ xfer'[i] = r /\ \A j \in Ids : j # i => xfer'[j] = xfer[j]
  BY <1>1, <1>4, <1>5
<1>7. TypeOK'
  BY <1>1, <1>2, <1>6 DEF TypeOK
<1>8. AllSay(wire, xfer)'
  <2>1. wire' \in Wires /\ AllSay(wire', xfer)
    BY <1>2, Rest
  <2>2. \A j \in Ids : Later(xfer'[j], xfer[j])
    BY <1>2, <1>3, <1>6 DEF Later
  <2> QED
    BY <2>1, <2>2, StillSay
<1>9. ASSUME NEW e \in Devices PROVE DaemonHolds(e)'
  <2>1. dev'[e] = dev[e] /\ DaemonHolds(e) /\ e # None /\ Peer(e) # None
    BY <1>1, <1>2, Peers
  <2>2. KeepsOffer(e)'
    BY <1>1, <1>2, <1>6, <2>1, FieldTypes DEF DaemonHolds, KeepsOffer
  <2>3. KeepsPending(e)'
    BY <1>1, <1>2, <1>6, <2>1, FieldTypes DEF DaemonHolds, KeepsPending
  <2>4. KeepsCompleted(e)'
    BY <1>1, <1>3, <1>6, <2>1, FieldTypes DEF DaemonHolds, KeepsCompleted
  <2>5. KeepsEnded(e)'
    BY <1>1, <1>2, <1>6, <2>1, FieldTypes DEF DaemonHolds, KeepsEnded
  <2> QED
    BY <2>2, <2>3, <2>4, <2>5 DEF DaemonHolds
<1>10. ASSUME NEW j \in Ids PROVE RunHolds(j)'
  <2>1. RunHolds(j)
    BY <1>1
  <2>2. CASE j = i
    <3>1. Described(j)'
      BY <1>1, <1>2, <1>5, <1>6, <2>2 DEF Described
    <3>2. IsLast(j)' /\ Ended(xfer[j])'
      BY <1>3, <1>5, <1>6, <2>1, <2>2 DEF IsLast, Ended, RunHolds
    <3> QED
      BY <3>1, <3>2 DEF RunHolds
  <2>3. CASE j # i
    BY <1>2, <1>6, <2>1, <2>3 DEF RunHolds, Described, IsLast, Ended, HasComplete
  <2> QED
    BY <2>2, <2>3
<1>11. OneSided => CanCancel'
  <2>1. \A j \in Ids : \A e \in Devices : Alive(xfer'[j], e) => Alive(xfer[j], e)
    BY <1>5, <1>6 DEF Alive
  <2> QED
    BY <1>2, <2>1, StillActive
<1>12. OneTransfer => Confirmed'
  <2> SUFFICES ASSUME OneTransfer PROVE Confirmed'
    OBVIOUS
  <2>1. ASSUME NEW j \in Ids PROVE WasDropped(j)'
    BY <1>2, <1>5, <1>6, <2>1 DEF IInv, Confirmed, WasDropped, Left
  <2>2. ASSUME NEW j \in Ids, Shows(j, "complete")', dev'[xfer'[j].by].up PROVE xfer'[j].allEnded
    <3>1. CASE j = i
      BY <1>2, <1>3, <1>5, <1>6, <2>2, <3>1 DEF Shows, Shown, HasComplete
    <3>2. CASE j # i
      BY <1>2, <1>6, <2>2, <3>2 DEF IInv, Confirmed, CompleteIsTrue, Shows, Shown
    <3> QED
      BY <3>1, <3>2
  <2> QED
    BY <2>1, <2>2 DEF Confirmed, CompleteIsTrue
<1> QED
  BY <1>7, <1>8, <1>9, <1>10, <1>11, <1>12 DEF IInv

\* An offer is open, or withdrawn, and the one it replaces closed.
LEMMA OfferStep ==
  ASSUME IInv, NEW d \in Devices, NEW i \in Ids, Offer(d, i)
  PROVE  IInv'
<1> DEFINE o == dev[d].offered
           x == CloseOffer(xfer, o)
<1>1. xfer[i].by = d /\ xfer[i].out = "building" /\ UNCHANGED <<cut, sessions, dialing, told, plan>>
      /\ ("slow" \in plan.faults \/ dev[d].cancel = None)
  BY DEF Offer
<1>2. PICK v \in {"open", "closed"} :
        /\ xfer' = [x EXCEPT ![i].out = v]
        /\ dev' = [dev EXCEPT ![d].offered = IF v = "open" THEN i ELSE None, ![d].paused = FALSE]
        /\ wire' = IF v = "open" THEN SentOn(wire, d, xfer[i].outSess, "offer", i) ELSE wire
  <2>1. CASE /\ xfer' = [Replaces(d) EXCEPT ![i].out = "open"]
             /\ dev' = [dev EXCEPT ![d].offered = i, ![d].paused = FALSE]
             /\ wire' = SentOn(wire, d, xfer[i].outSess, "offer", i)
    BY <2>1 DEF Replaces
  <2>2. CASE /\ xfer' = [Replaces(d) EXCEPT ![i].out = "closed"]
             /\ dev' = [dev EXCEPT ![d].offered = None, ![d].paused = FALSE]
             /\ UNCHANGED wire
    BY <2>2 DEF Replaces
  <2> QED
    BY <2>1, <2>2 DEF Offer
<1>3. dev[d] \in Daemons /\ o \in SomeId /\ xfer \in [Ids -> Runs] /\ TypeOK /\ (\A j \in Ids : RunHolds(j))
      /\ i # None /\ i \in SomeId /\ xfer[i].outSess \in 0 .. MaxSessions /\ d # None /\ wire \in Wires /\ AllSay(wire, xfer)
  BY Rest, FieldTypes, Peers DEF IInv, SomeId
<1>4. o # None => o \in Ids /\ xfer[o].out = "open" /\ xfer[o].by = d
  BY <1>3, FieldTypes DEF IInv, DaemonHolds, KeepsOffer
<1>5. o # i
  BY <1>1, <1>3, <1>4
<1>6. /\ x \in [Ids -> Runs]
      /\ \A j \in Ids : /\ j # o => x[j] = xfer[j]
                        /\ Kept(x[j], xfer[j]) /\ x[j].outLive = xfer[j].outLive /\ x[j].inLive = xfer[j].inLive
                        /\ j = o => x[j].out = "closed"
  BY <1>3, CloseOfferIs
<1> DEFINE r == [x[i] EXCEPT !.out = v]
           q == [dev[d] EXCEPT !.offered = IF v = "open" THEN i ELSE None, !.paused = FALSE]
<1>7. dev' = [dev EXCEPT ![d] = q]
  BY <1>2, <1>3, Rest DEF Daemons
<1>8. q \in Daemons /\ q.up = dev[d].up /\ q.active = dev[d].active /\ q.cancel = dev[d].cancel
      /\ q.ended = dev[d].ended /\ q.pending = dev[d].pending /\ q.completed = dev[d].completed
      /\ q.offered = IF v = "open" THEN i ELSE None
  <2>1. (IF v = "open" THEN i ELSE None) \in SomeId
    BY <1>3 DEF SomeId
  <2>2. q \in Daemons
    BY <1>3, <2>1 DEF Daemons
  <2> QED
    BY <1>3, <2>2 DEF Daemons
<1> HIDE DEF x, q
<1>9. xfer' = [x EXCEPT ![i] = r]
  BY <1>2, <1>6
<1>10. r \in Runs /\ r.out = v /\ Kept(r, x[i]) /\ r.outLive = x[i].outLive /\ r.inLive = x[i].inLive
  BY <1>2, <1>6 DEF Runs, Outs, Kept, KeptBut
<1> HIDE DEF r
<1>11. /\ xfer' \in [Ids -> Runs]
       /\ \A j \in Ids : /\ Kept(xfer'[j], xfer[j]) /\ xfer'[j].outLive = xfer[j].outLive /\ xfer'[j].inLive = xfer[j].inLive
                         /\ xfer'[j].out = IF j = i THEN v ELSE IF j = o THEN "closed" ELSE xfer[j].out
  BY <1>5, <1>6, <1>9, <1>10 DEF Kept, KeptBut
<1>12. dev' \in [Devices -> Daemons] /\ dev'[d] = q /\ \A e \in Devices : e # d => dev'[e] = dev[e]
  BY <1>7, <1>8, Rest
<1>13. wire' \in Wires /\ AllSay(wire', xfer)
  <2>1. Peer(d) \in Devices /\ xfer[i].by = Peer(Peer(d))
    BY <1>1, Peers
  <2> QED
    BY <1>2, <1>3, <2>1, SentOnIs, PlainMessage
<1>14. TypeOK'
  BY <1>1, <1>3, <1>11, <1>12, <1>13 DEF TypeOK
<1>15. ASSUME NEW j \in Ids PROVE GoesOn(xfer'[j], xfer[j])
  <2>1. RunHolds(j) /\ Kept(xfer'[j], xfer[j]) /\ xfer'[j].outLive = xfer[j].outLive
        /\ xfer'[j].out = IF j = i THEN v ELSE IF j = o THEN "closed" ELSE xfer[j].out
    BY <1>3, <1>11
  <2>2. v \in {"open", "closed"} /\ (j = i => xfer[j].out = "building") /\ (j = o => xfer[j].out = "open")
    BY <1>1, <1>2, <1>4, NamesAssumption
  <2> QED
    BY <2>1, <2>2 DEF Kept, KeptBut, GoesOn, RunHolds, Described, Ended
<1>16. ASSUME NEW e \in Devices PROVE HoldsRest(e) /\ KeepsOffer(e)'
  <2>1. HoldsRest(e)
    BY <1>8, <1>12 DEF HoldsRest
  <2>2. CASE e = d
    <3>1. dev'[d].offered = IF v = "open" THEN i ELSE None
      BY <1>8, <1>12
    <3> QED
      BY <1>1, <1>11, <2>1, <2>2, <3>1 DEF KeepsOffer, Kept, KeptBut
  <2>3. CASE e # d
    <3>1. dev[e].offered # None => dev[e].offered \in Ids /\ xfer[dev[e].offered].out = "open" /\ xfer[dev[e].offered].by = e
      BY <1>3, FieldTypes DEF IInv, DaemonHolds, KeepsOffer
    <3>2. dev[e].offered # None => dev[e].offered # i /\ dev[e].offered # o
      BY <1>1, <1>4, <2>3, <3>1
    <3> QED
      BY <1>11, <1>12, <2>1, <2>3, <3>1, <3>2 DEF KeepsOffer, Kept, KeptBut
  <2> QED
    BY <2>1, <2>2, <2>3
<1>17. ASSUME NEW j \in Ids PROVE IsLast(j)'
  <2> SUFFICES ASSUME xfer'[j].out = "open" PROVE dev'[xfer'[j].by].offered = j
    BY DEF IsLast
  <2>1. xfer'[j].by = xfer[j].by
    BY <1>11 DEF Kept, KeptBut
  <2>2. CASE j = i
    BY <1>1, <1>8, <1>11, <1>12, <2>1, <2>2
  <2>3. CASE j # i
    <3>1. j # o /\ xfer[j].out = "open" /\ dev[xfer[j].by].offered = j /\ xfer[j].by \in Devices
      <4>1. j # o /\ xfer[j].out = "open" /\ RunHolds(j)
        BY <1>3, <1>11, <2>3
      <4> QED
        BY <1>3, <4>1, FieldTypes DEF RunHolds, IsLast, Described
    <3> QED
      BY <1>12, <2>1, <3>1
  <2> QED
    BY <2>2, <2>3
<1>18. ToldTruly
  BY <1>1 DEF ToldTruly
<1>19. \A e \in Devices : dev'[e].cancel = dev[e].cancel /\ dev'[e].active = dev[e].active /\ dev'[e].up = dev[e].up
  BY <1>8, <1>12
<1>20. OneSided => CanCancel'
  <2> SUFFICES ASSUME OneSided PROVE CanCancel'
    OBVIOUS
  <2>1. ASSUME NEW e \in Devices, NEW j \in Ids, Alive(xfer'[j], e) PROVE dev'[e].cancel = j /\ dev'[e].active = j
    <3>1. Alive(xfer[j], e)
      BY <1>11, <2>1 DEF Alive, Kept, KeptBut
    <3> QED
      BY <1>19, <3>1 DEF IInv, CanCancel, RunIsActive, LiveRuns, Alive
  <2>2. RunIsActive'
    BY <2>1 DEF RunIsActive, LiveRuns, Alive
  <2>3. dev[d].cancel = None
    BY <1>1, Rest DEF OneSided
  <2>4. \A e \in Devices : dev'[e].offered # None => dev'[e].cancel = None
    BY <1>12, <1>19, <2>3 DEF IInv, CanCancel
  <2> QED
    BY <2>2, <2>4 DEF CanCancel
<1>21. OneTransfer => \A j \in Ids : WasDropped(j)'
  <2>1. \A j \in Ids : xfer'[j].by = xfer[j].by
    BY <1>11 DEF Kept, KeptBut
  <2>2. ASSUME NEW j \in Ids, Left(xfer'[j]) PROVE Left(xfer[j]) /\ xfer[j].by \in Devices
    <3>1. Left(xfer[j]) /\ RunHolds(j)
      BY <1>2, <1>3, <1>11, <2>2 DEF Left, Kept, KeptBut
    <3> QED
      BY <1>3, <3>1, FieldTypes DEF Left, RunHolds, Described
  <2> QED
    BY <1>19, <2>1, <2>2, StillLeft
<1> QED
  BY <1>1, <1>13, <1>14, <1>15, <1>16, <1>17, <1>18, <1>20, <1>21, FrameAny

-----------------------------------------------------------------------------
(* Every step.                                                              *)

LEMMA HandleStep ==
  ASSUME IInv, NEW d \in Devices, NEW k \in 1 .. MaxSessions, Handle(d, k)
  PROVE  IInv'
<1> DEFINE m == Head(wire[d][k])
           i == m.id
<1>1. wire[d][k] # <<>> /\ UNCHANGED <<sessions, dialing, plan>>
  BY DEF Handle
<1>2. m.type \in {"offer", "accept", "reject", "complete", "failed", "check"} => i \in Ids
  BY <1>1, ReadIs
<1>3. CASE m.type = "offer" /\ TakeOffer(d, k, i)
  BY <1>1, <1>3, TakeOfferStep
<1>4. CASE m.type = "accept" /\ ServeAccepted(d, k, i)
  BY <1>1, <1>2, <1>4, ServeAcceptedStep
<1>5. CASE m.type = "reject" /\ TakeReject(d, k, i)
  BY <1>1, <1>2, <1>5, TakeRejectStep
<1>6. CASE m.type = "complete" /\ TakeComplete(d, k, i)
  BY <1>1, <1>6, TakeCompleteStep
<1>7. CASE m.type = "failed" /\ PeerFailed(d, k, i)
  BY <1>1, <1>2, <1>7, PeerFailedStep
<1>8. CASE m.type = "check" /\ AnswerCheck(d, k, i)
  BY <1>1, <1>8, AnswerCheckStep
<1>9. CASE m.type = "cancel" /\ TakeCancel(d, k, i)
  BY <1>1, <1>9, TakeCancelStep
<1>10. CASE m.type \in {"pause", "resume"} /\ TakePause(d, k, m.type = "pause")
  <2>1. (m.type = "pause") \in BOOLEAN
    OBVIOUS
  <2> QED
    BY <1>1, <1>10, <2>1, TakePauseStep
<1>11. CASE m.type = "disconnect" /\ TakeDisconnect(d, k, i)
  BY <1>1, <1>11, TakeDisconnectStep
<1> QED
  BY <1>3, <1>4, <1>5, <1>6, <1>7, <1>8, <1>9, <1>10, <1>11 DEF Handle

LEMMA Initial == Init => IInv
<1> SUFFICES ASSUME Init PROVE IInv
  OBVIOUS
<1>1. TypeOK
  <2>1. Idle \in Daemons /\ Unused \in Runs
    BY SessionsAssumption DEF Idle, Unused, Daemons, Runs, SomeId, Outs, Ins, NoSession
  <2>2. <<>> \in Seq(Messages) /\ <<>> \in Seq({"complete", "failed"})
    OBVIOUS
  <2>3. wire \in Wires /\ told \in [Devices -> [Ids -> Seq({"complete", "failed"})]]
    BY <2>2 DEF Init, Wires
  <2>4. 1 \in 1 .. MaxSessions
    BY SessionsAssumption
  <2> QED
    BY <2>1, <2>3, <2>4 DEF Init, TypeOK
<1>2. AllSay(wire, xfer)
  BY DEF Init, AllSay
<1>3. \A d \in Devices : dev[d] = Idle
  BY DEF Init
<1>4. \A i \in Ids : xfer[i] = Unused
  BY DEF Init
<1>5. ASSUME NEW d \in Devices PROVE DaemonHolds(d)
  <2>1. dev[d].offered = None /\ dev[d].pending = None /\ dev[d].completed = None /\ dev[d].ended = None
    BY <1>3 DEF Idle
  <2> QED
    BY <2>1 DEF DaemonHolds, KeepsOffer, KeepsPending, KeepsCompleted, KeepsEnded
<1>6. \A d \in Devices : \A i \in Ids : ~HasComplete(told, d, i)
  BY DEF Init, HasComplete
<1>7. \A i \in Ids : RunHolds(i)
  BY <1>4, <1>6, NamesAssumption DEF Unused, RunHolds, Described, IsLast, Ended
<1>8. CanCancel
  BY <1>3, <1>4, Peers DEF Idle, Unused, CanCancel, RunIsActive, LiveRuns
<1>9. Confirmed
  BY <1>4 DEF Unused, Confirmed, CompleteIsTrue, Shows, WasDropped, Left
<1> QED
  BY <1>1, <1>2, <1>5, <1>7, <1>8, <1>9 DEF IInv

LEMMA Step == IInv /\ [Next]_vars => IInv'
<1> SUFFICES ASSUME IInv, [Next]_vars PROVE IInv'
  OBVIOUS
<1>1. CASE UNCHANGED vars
  <2>1. PICK d \in Devices : TRUE
    BY DevicesAssumption
  <2>2. dev' = [dev EXCEPT ![d] = dev[d]] /\ dev[d] \in Daemons
    BY <1>1, Rest DEF vars
  <2> QED
    BY <1>1, <2>2, Rest, RunsStay, DaemonStill DEF vars
<1>2. ASSUME NEW d \in Devices, UserStep(d) PROVE IInv'
  BY <1>2, BeginSendStep, NoSpaceStep, AcceptStep, RejectStep, CancelStep, PauseStep, DisconnectStep, StopStep DEF UserStep
<1>3. ASSUME NEW d \in Devices, DaemonStep(d) PROVE IInv'
  BY <1>3, OfferStep, ReceiveStep, HandleStep DEF DaemonStep
<1>4. ASSUME NEW i \in Ids, ServeStep(i) PROVE IInv'
  BY <1>4, SourceGoneStep, ServesStep, DoneArrivesStep, GiveUpStep, ServeReturnsStep, ServedOutcomeStep, ServeEndsStep
     DEF ServeStep
<1>5. ASSUME NEW i \in Ids, RunStep(i) PROVE IInv'
  BY <1>5, ItemsEndStep, RunReturnsStep, RunEndedStep, RunFailedStep, MarksCompletedStep, SaysCompleteStep DEF RunStep
<1>6. CASE SessionStep
  BY <1>6, CutStep, SessionLostStep, DialStep, DialedStep DEF SessionStep
<1> QED
  BY <1>1, <1>2, <1>3, <1>4, <1>5, <1>6 DEF Next

\* The invariant of two daemons holds always, for any number of transfers, of sessions
\* and of faults.
THEOREM IInvHolds == Spec => []IInv
  BY Initial, Step, PTL DEF Spec

\* Daemons, runs and messages keep their types (transfers.go, server.go).
THEOREM TypeCorrect == Spec => []TypeOK
<1>1. IInv => TypeOK
  BY DEF IInv
<1> QED
  BY <1>1, IInvHolds, PTL

\* An offer the peer may join is the last one: any replaced, refused, withdrawn or dropped
\* was closed (sendOverSession, serveAccepted, cancelTransfer, dropTransfers).
THEOREM OfferHolds == Spec => []OpenOfferIsLast
<1>1. IInv => OpenOfferIsLast
  BY DEF IInv, RunHolds, IsLast, OpenOfferIsLast
<1> QED
  BY <1>1, IInvHolds, PTL

\* Where one side sends, and describes no source while a transfer is active, a run can be
\* cancelled as long as it lives (receive, serveAccepted, endTransfer).
THEOREM ActiveHolds ==
  ASSUME OneSided
  PROVE  Spec => []RunIsActive
<1>1. IInv => RunIsActive
  BY DEF IInv, CanCancel
<1> QED
  BY <1>1, IInvHolds, PTL

\* Of one transfer, whatever is lost, cut, cancelled, paused or out of order, the sender's app
\* shows complete only what ended at the receiver (serveAccepted, completeSent).
THEOREM CompleteHolds ==
  ASSUME OneTransfer
  PROVE  Spec => []CompleteIsTrue
<1>1. IInv => CompleteIsTrue
  BY DEF IInv, Confirmed
<1> QED
  BY <1>1, IInvHolds, PTL
=============================================================================
