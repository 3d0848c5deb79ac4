--------------------------- MODULE PairingProofs ---------------------------
(***************************************************************************)
(* Pairing, by BLE and by PIN, for every number of devices, connections,   *)
(* calls, attempts and series.                                             *)
(*                                                                         *)
(* Over BLE (module BLEPairing): an attempt begun is held by a connection  *)
(* of the table, a PIN pairs one device, and who is let in was told to     *)
(* come.  None is inductive.  The invariant adds whom the table names      *)
(* (Tabled), which call holds which lock (CallsOK, TableOK), that one      *)
(* request is on screen (ScreenOK), and that a key accepted counts for one *)
(* exchange told (ToldOK).                                                 *)
(*                                                                         *)
(* By PIN (module Pins): the guesses are bounded, and each failure counts  *)
(* for the code it tested.  The count of GuessesBounded is not inductive   *)
(* by itself: an attempt that fails draws a code, so one must know that no *)
(* attempt on the old code is in flight any more, nor has paired           *)
(* (Counted), and a series is counted by codes destroyed (Drawing).  Good  *)
(* is what each operation on the PIN's fields preserves, given k attempts  *)
(* in flight; the connections are then related to k by InFlight.           *)
(***************************************************************************)
EXTENDS Pins, BLEPairing, FiniteSetTheorems, SequenceTheorems, WellFoundedInduction, TLAPS

-----------------------------------------------------------------------------
(* Pairing over BLE: its types.                                            *)

BLEStages == {"idle", "helloed", "shown", "answered", "authenticated", "await", "done", "closed"}
BLEOutcomes == {"none", "responder", "initiator"}
BLEPlaces == {"start", "receive", "locked", "own", "drop", "return", "answer"}

Challenges == (Devices \cup {Self}) \X Nat
Codes == Nat \X Nat
Keys == [i : Challenges, r : Nat \X Nat, by : Codes]

HelloMsgs == [typ : {"hello", "pinWanted"}, i : Challenges]
KeyMsgs == [typ : {"trusted", "pinConfirm"}, key : Keys, req : Requests]
PINMsgs == [typ : {"pin"}, code : Codes]
NetworkMsgs == [typ : {"network"}, key : Keys]
Messages == HelloMsgs \cup KeyMsgs \cup PINMsgs \cup NetworkMsgs

Challenged == [typ : {"helloReply"}, i : Challenges, r : Nat \X Nat]
Ready == [typ : {"pinReady"}, r : Nat \X Nat]
Keyed == [typ : {"pinReply", "ack"}, key : Keys]
Replies == [typ : {"reply"}, key : Keys, outcome : BLEOutcomes]
Decisions == [typ : {"reply"}, outcome : BLEOutcomes, admits : BOOLEAN]
Answers == {Nothing, Refuse} \cup Challenged \cup Ready \cup Keyed \cup Replies
Outs == Answers \cup Decisions \cup {[typ |-> "request"]}

ObjRecord ==
  [stage : BLEStages, dev : Devices \cup {Self}, c : Challenges, n : Nat, late : BOOLEAN, refused : BOOLEAN,
   pin : Nat, attempt : BOOLEAN, key : Keys, trusted : BOOLEAN, outcome : BLEOutcomes, named : BOOLEAN,
   join : BOOLEAN, mu : 0 .. Slots]
PINRecord == [draw : Nat, reserved : Nat, failed : Nat, over : BOOLEAN, paired : Nat]
CallRecord ==
  [kind : {"none", "message", "answer", "close"}, dev : Devices \cup {Self}, at : BLEPlaces,
   o : 0 .. MaxObjs, msg : {Nothing} \cup Messages, out : Outs]
ClientRecord ==
  [at : {"idle", "hello", "known", "unknown", "wanted", "ready", "typed", "asked", "join", "create", "given", "done", "failed"},
   try : Nat, r : Nat \X Nat, key : Keys, outcome : BLEOutcomes]

BLETypeOK ==
  /\ obj \in [Objs -> ObjRecord]
  /\ conns \in [Devices -> 0 .. MaxObjs]
  /\ pinConn \in 0 .. MaxObjs
  /\ pins \in Seq(PINRecord)
  /\ own \in Own
  /\ call \in [Ks -> CallRecord]
  /\ tableMu \in 0 .. Slots
  /\ auth \subseteq [on : Devices \cup {Self}, of : Devices \cup {Self}]
  /\ client \in [Devices -> ClientRecord]
  /\ reply \in [Devices -> Answers]
  /\ taken \in [Devices -> Nat]
  /\ lost \in Nat

-----------------------------------------------------------------------------
(* Its inductive invariant.                                                *)

\* The objects are made in their order.
InOrder == \E n \in 0 .. MaxObjs : ObjsMade = 1 .. n

\* The table names the objects that serve.
Tabled ==
  /\ \A o \in ObjsMade : obj[o].stage # "closed" => conns[obj[o].dev] = o
  /\ \A d \in Devices : conns[d] # 0 => obj[conns[d]].dev = d
  /\ \A o \in Objs : obj[o].stage # "idle" => o \in ObjsMade

\* Where a call is, and what it holds.
CallOK(k) ==
  LET c == call[k] IN
  /\ c.kind # "none" => c.dev \in Devices
  /\ c.kind = "none" => c = NoCall
  /\ c.kind = "close" => c.at = "start"
  /\ c.kind = "answer" => c.at \in {"start", "answer"} /\ c.out \in Decisions
  /\ c.kind = "message" => /\ c.msg \in Messages /\ c.at # "answer"
                           /\ c.out \in Answers \cup {[typ |-> "request"]}
  /\ c.at # "start" => c.o \in Objs /\ obj[c.o].dev = c.dev
  /\ c.at \in {"locked", "own"} => obj[c.o].mu = k
  /\ c.at = "own" => obj[c.o].stage = "authenticated"
CallsOK == \A k \in Ks : CallOK(k)

\* Who holds the table waits for the lock of a connection it names.
TableOK == tableMu # 0 => Dropping(tableMu) /\ conns[call[tableMu].dev] # 0

\* One request is on screen; an attempt is on a PIN that has not paired.
OnScreen(o) == obj[o].stage \in {"shown", "answered"} /\ ~obj[o].refused
ScreenOK ==
  /\ \A o \in Objs : OnScreen(o) => pinConn = o
  /\ \A o \in Objs : obj[o].attempt => obj[o].stage = "answered"
  /\ \A o \in Objs : obj[o].pin \in 0 .. Len(pins)
  /\ \A o \in Objs : obj[o].stage \in {"shown", "answered"} => obj[o].pin # 0
  /\ \A o \in Objs : obj[o].attempt /\ ~obj[o].refused => pins[obj[o].pin].paired = 0
PINsOK == \A p \in DOMAIN pins : pins[p].paired <= 1 /\ (pins[p].paired > 0 => pins[p].over)

\* Who was told by BLE to come: let in already, or accepted once more.
Told(d) == {o \in Objs : obj[o].dev = d /\ obj[o].outcome = "responder" /\ obj[o].stage \in {"done", "closed"}}
Owed(d) == IF [on |-> Self, of |-> d] \in auth THEN 1 ELSE 0
ToldOK == \A d \in Devices : taken[d] + Owed(d) <= Cardinality(Told(d))

BLEIInv == BLETypeOK /\ InOrder /\ Tabled /\ CallsOK /\ TableOK /\ ScreenOK /\ PINsOK /\ ToldOK

-----------------------------------------------------------------------------
(* What each step of BLE changes of the objects.                           *)

\* An object another step is about: its request may be refused.
Kept(q) ==
  /\ obj'[q].stage = obj[q].stage /\ obj'[q].dev = obj[q].dev /\ obj'[q].pin = obj[q].pin
  /\ obj'[q].attempt = obj[q].attempt /\ obj'[q].outcome = obj[q].outcome /\ obj'[q].mu = obj[q].mu
  /\ obj[q].refused => obj'[q].refused
OnlyOn(o) == o \in Objs /\ obj'[o].dev = obj[o].dev /\ \A q \in Objs \ {o} : Kept(q)

LEMMA Bounds == Slots \in Nat /\ Slots > 0 /\ CodeAttempts \in Nat /\ MaxObjs \in Nat /\ Self \notin Devices
BY CountsAssumption, DevicesAssumption

LessThan == {p \in Nat \X Nat : p[1] < p[2]}

LEMMA FreeSlot ==
  ASSUME Free # {}
  PROVE  Slot \in Ks /\ call[Slot] = NoCall
<1>0. IsWellFoundedOn(LessThan, Nat)
  <2>1. OpToRel(<, Nat) = LessThan
    BY Zenon DEF OpToRel, LessThan
  <2> QED
    BY <2>1, NatLessThanWellFounded, Zenon
<1>1. Free \subseteq Nat
  BY Bounds DEF Free, Ks
<1>2. PICK k \in Free : \A j \in Free : ~(<<j, k>> \in LessThan)
  BY <1>0, <1>1, WFMin
<1>3. \A j \in Free : k <= j
  <2>1. ASSUME NEW j \in Free PROVE k <= j
    <3>1. k \in Nat /\ j \in Nat /\ ~(j < k)
      BY <1>1, <1>2 DEF LessThan
    <3> QED
      BY <3>1
  <2> QED
    BY <2>1
<1>4. Slot \in Free
  BY <1>2, <1>3 DEF Slot
<1> QED
  BY <1>4 DEF Free

LEMMA SetObj ==
  ASSUME BLETypeOK, NEW o \in Objs, NEW r \in ObjRecord, obj' = [obj EXCEPT ![o] = r]
  PROVE  obj' \in [Objs -> ObjRecord] /\ obj'[o] = r /\ (\A q \in Objs \ {o} : obj'[q] = obj[q])
BY DEF BLETypeOK

LEMMA Same ==
  ASSUME NEW q, obj'[q] = obj[q]
  PROVE  Kept(q)
BY DEF Kept

LEMMA MadeObjs ==
  ASSUME BLETypeOK, NEW o \in Objs
  PROVE  /\ obj[o] \in ObjRecord /\ o \in Nat /\ o # 0
         /\ o \in ObjsMade <=> obj[o].dev # Self
         /\ o \in ObjsMade => obj[o].dev \in Devices
BY Bounds DEF BLETypeOK, ObjsMade, ObjRecord, Objs

LEMMA CreatorOutcome ==
  ASSUME NEW a, NEW b
  PROVE  Creator(a, b) \in BLEOutcomes
BY DEF Creator, BLEOutcomes

LEMMA NoCallOK == NoCall \in CallRecord /\ NoKey \in Keys /\ NewObj \in ObjRecord /\ NewClient \in ClientRecord
<1>1. <<Self, 0>> \in Challenges /\ <<0, 0>> \in Nat \X Nat /\ NoCode \in Codes
  BY DEF Challenges, Codes, NoCode
<1>2. NoKey \in Keys
  BY <1>1 DEF NoKey, Keys, Codes
<1>3. NoCall \in CallRecord
  BY Bounds DEF NoCall, CallRecord, BLEPlaces, Outs, Answers
<1>4. NewObj \in ObjRecord
  BY <1>1, <1>2, Bounds DEF NewObj, ObjRecord, BLEStages, BLEOutcomes
<1>5. NewClient \in ClientRecord
  BY <1>1, <1>2 DEF NewClient, ClientRecord, BLEOutcomes
<1> QED
  BY <1>2, <1>3, <1>4, <1>5

LEMMA AKey ==
  ASSUME NEW i \in Challenges, NEW r \in Nat \X Nat, NEW by \in Codes
  PROVE  Key(i, r, by) \in Keys
BY DEF Key, Keys

LEMMA SomeCodes == NoCode \in Codes /\ WrongCode \in Codes /\ PairKey \in Codes
BY DEF NoCode, WrongCode, PairKey, Codes

-----------------------------------------------------------------------------
(* The parts of the invariant, as one object changes.                      *)

LEMMA TabledKept ==
  ASSUME BLETypeOK, InOrder, Tabled, NEW o \in Objs, OnlyOn(o),
         o \in ObjsMade \/ (conns' = conns /\ obj'[o].stage = obj[o].stage),
         obj[o].stage = "closed" => obj'[o].stage = "closed",
         \/ conns' = conns
         \/ /\ obj'[o].stage = "closed" /\ conns[obj[o].dev] = o
            /\ conns' = [conns EXCEPT ![obj[o].dev] = 0]
  PROVE  InOrder' /\ Tabled'
<1>1. ObjsMade' = ObjsMade
  BY DEF ObjsMade, OnlyOn, Kept
<1>2. InOrder'
  BY <1>1 DEF InOrder
<1>3. \A q \in ObjsMade : obj[q].dev \in Devices /\ q \in Nat /\ q # 0
  BY MadeObjs DEF ObjsMade
<1>4. \A q \in Objs : /\ obj'[q].dev = obj[q].dev
                      /\ q # o => obj'[q].stage = obj[q].stage
  BY DEF OnlyOn, Kept
<1>5. ASSUME NEW q \in ObjsMade', obj'[q].stage # "closed" PROVE conns'[obj'[q].dev] = q
  <2>1. q \in Objs /\ q \in ObjsMade /\ conns[obj[q].dev] = q
    BY <1>1, <1>4, <1>5 DEF Tabled, ObjsMade
  <2>2. CASE conns' = conns
    BY <1>4, <2>1, <2>2
  <2>3. CASE obj'[o].stage = "closed" /\ conns[obj[o].dev] = o /\ conns' = [conns EXCEPT ![obj[o].dev] = 0]
    <3>1. q # o
      BY <1>5, <2>3
    <3>2. conns'[obj[q].dev] = conns[obj[q].dev]
      <4>1. obj[q].dev # obj[o].dev
        BY <2>1, <2>3, <3>1
      <4> QED
        BY <1>3, <2>1, <2>3, <4>1 DEF BLETypeOK
    <3> QED
      BY <1>4, <2>1, <3>2
  <2> QED
    BY <2>2, <2>3
<1>6. ASSUME NEW d \in Devices, conns'[d] # 0 PROVE obj'[conns'[d]].dev = d
  <2>1. conns'[d] = conns[d] /\ conns[d] \in Objs
    BY <1>3, <1>6, Bounds DEF BLETypeOK, Objs
  <2> QED
    BY <1>4, <1>6, <2>1 DEF Tabled
<1>7. \A q \in Objs : obj'[q].stage # "idle" => q \in ObjsMade'
  BY <1>1, <1>4 DEF Tabled
<1> QED
  BY <1>2, <1>5, <1>6, <1>7 DEF Tabled

\* The other calls, when this one leaves their connections' locks alone.
LEMMA CallsKept ==
  ASSUME BLETypeOK, CallsOK, NEW o, OnlyOn(o), NEW k,
         \A q \in Ks \ {k} : call'[q] = call[q],
         \A q \in Ks \ {k} : call[q].at \in {"locked", "own"} => call[q].o # o
  PROVE  \A q \in Ks \ {k} : CallOK(q)'
<1>1. ASSUME NEW q \in Ks \ {k} PROVE CallOK(q)'
  <2>1. CallOK(q) /\ call'[q] = call[q]
    BY DEF CallsOK
  <2>2. ASSUME call[q].at # "start"
        PROVE  /\ call[q].o \in Objs /\ obj'[call[q].o].dev = call[q].dev
               /\ call[q].at \in {"locked", "own"} => obj'[call[q].o].mu = q
               /\ call[q].at = "own" => obj'[call[q].o].stage = "authenticated"
    <3>1. call[q].o \in Objs /\ obj[call[q].o].dev = call[q].dev
      BY <2>1, <2>2 DEF CallOK
    <3>2. obj'[call[q].o].dev = call[q].dev
      BY <3>1 DEF OnlyOn, Kept
    <3>3. ASSUME call[q].at \in {"locked", "own"}
          PROVE  obj'[call[q].o].mu = q /\ (call[q].at = "own" => obj'[call[q].o].stage = "authenticated")
      <4>1. Kept(call[q].o)
        BY <3>1, <3>3 DEF OnlyOn
      <4> QED
        BY <2>1, <3>3, <4>1 DEF CallOK, Kept
    <3> QED
      BY <3>1, <3>2, <3>3
  <2> QED
    BY <2>1, <2>2 DEF CallOK
<1> QED
  BY <1>1

\* Who holds the connection's lock, or no one does.
LEMMA LockedOut ==
  ASSUME BLETypeOK, CallsOK, NEW o \in Objs, NEW k, obj[o].mu = 0 \/ obj[o].mu = k
  PROVE  \A q \in Ks \ {k} : call[q].at \in {"locked", "own"} => call[q].o # o
<1>1. ASSUME NEW q \in Ks \ {k}, call[q].at \in {"locked", "own"}, call[q].o = o PROVE FALSE
  <2>1. obj[o].mu = q
    BY <1>1 DEF CallsOK, CallOK
  <2> QED
    BY <1>1, <2>1, Bounds DEF Ks
<1> QED
  BY <1>1

LEMMA CallsNow ==
  ASSUME NEW k, \A q \in Ks \ {k} : CallOK(q)', k \in Ks => CallOK(k)'
  PROVE  CallsOK'
BY DEF CallsOK

\* Who holds the table.
LEMMA TableKept ==
  ASSUME BLETypeOK, TableOK, NEW k, ~Dropping(k) \/ tableMu # k,
         \A q \in Ks \ {k} : call'[q] = call[q], tableMu' = tableMu,
         conns' = conns \/ tableMu = 0
  PROVE  TableOK'
<1>1. CASE tableMu # 0
  <2>1. tableMu \in Ks \ {k} /\ conns' = conns
    BY <1>1, Bounds DEF TableOK, BLETypeOK, Ks
  <2>2. call'[tableMu] = call[tableMu]
    BY <2>1
  <2> QED
    BY <1>1, <2>1, <2>2 DEF TableOK, Dropping
<1>2. CASE tableMu = 0
  BY <1>2 DEF TableOK
<1> QED
  BY <1>1, <1>2

\* Who was told stays told.
LEMMA ToldKept ==
  ASSUME BLETypeOK, ToldOK, NEW o, OnlyOn(o),
         obj[o].stage \in {"done", "closed"} => obj'[o].stage \in {"done", "closed"} /\ obj'[o].outcome = obj[o].outcome,
         \A d \in Devices : Owed(d)' <= Owed(d), taken' = taken
  PROVE  ToldOK'
<1>1. \A q \in Objs : obj'[q].dev = obj[q].dev /\ (q # o => obj'[q].stage = obj[q].stage /\ obj'[q].outcome = obj[q].outcome)
  BY DEF OnlyOn, Kept
<1>2. ASSUME NEW d \in Devices PROVE taken'[d] + Owed(d)' <= Cardinality(Told(d)')
  <2>1. Told(d) \subseteq Told(d)'
    BY <1>1 DEF Told
  <2>2. IsFiniteSet(Told(d)')
    <3>1. IsFiniteSet(Objs) /\ Told(d)' \in SUBSET Objs
      BY FS_Interval, Bounds DEF Objs, Told
    <3> QED
      BY <3>1, FS_Subset
  <2>3. Cardinality(Told(d)) <= Cardinality(Told(d)') /\ Cardinality(Told(d)) \in Nat /\ Cardinality(Told(d)') \in Nat
    BY <2>1, <2>2, FS_Subset, FS_CardinalityType
  <2>4. taken[d] + Owed(d) <= Cardinality(Told(d)) /\ taken[d] \in Nat /\ Owed(d) \in Nat /\ Owed(d)' \in Nat /\ Owed(d)' <= Owed(d)
    BY DEF ToldOK, BLETypeOK, Owed
  <2> QED
    BY <2>3, <2>4
<1> QED
  BY <1>2 DEF ToldOK

-----------------------------------------------------------------------------
(* The screen and the PINs, as one object changes.                         *)

PINsKept ==
  /\ pins' \in Seq(PINRecord) /\ Len(pins) <= Len(pins')
  /\ \A p \in 1 .. Len(pins) : pins'[p].paired = pins[p].paired /\ (pins[p].over => pins'[p].over)
  /\ \A p \in 1 .. Len(pins') : p > Len(pins) => pins'[p].paired = 0

LEMMA PINsAre ==
  ASSUME BLETypeOK
  PROVE  /\ Len(pins) \in Nat /\ DOMAIN pins = 1 .. Len(pins)
         /\ \A p \in 1 .. Len(pins) : pins[p] \in PINRecord
<1>1. pins \in Seq(PINRecord)
  BY DEF BLETypeOK
<1> QED
  BY <1>1, LenProperties, ElementOfSeq

LEMMA PINsUnchanged ==
  ASSUME BLETypeOK, pins' = pins
  PROVE  PINsKept
BY PINsAre DEF PINsKept, BLETypeOK

LEMMA SetPIN ==
  ASSUME BLETypeOK, NEW p \in 1 .. Len(pins), NEW r \in PINRecord, pins' = [pins EXCEPT ![p] = r]
  PROVE  /\ pins' \in Seq(PINRecord) /\ Len(pins') = Len(pins) /\ pins'[p] = r
         /\ \A q \in (1 .. Len(pins)) \ {p} : pins'[q] = pins[q]
<1>1. pins \in Seq(PINRecord)
  BY DEF BLETypeOK
<1> QED
  BY <1>1, ExceptSeq

LEMMA ScreenKept ==
  ASSUME BLETypeOK, ScreenOK, PINsOK, NEW o, OnlyOn(o), PINsKept, obj' \in [Objs -> ObjRecord],
         OnScreen(o)' => pinConn' = o,
         obj'[o].attempt => obj'[o].stage = "answered",
         obj'[o].pin \in 0 .. Len(pins'),
         obj'[o].stage \in {"shown", "answered"} => obj'[o].pin # 0,
         obj'[o].attempt /\ ~obj'[o].refused => pins'[obj'[o].pin].paired = 0,
         \A q \in Objs \ {o} : OnScreen(q)' => pinConn' = q
  PROVE  ScreenOK' /\ PINsOK'
<1>1. Len(pins) \in Nat /\ Len(pins') \in Nat /\ DOMAIN pins' = 1 .. Len(pins') /\ DOMAIN pins = 1 .. Len(pins)
  BY PINsAre, LenProperties DEF PINsKept
<1>2. PINsOK'
  BY <1>1 DEF PINsOK, PINsKept
<1>3. ASSUME NEW q \in Objs \ {o}
      PROVE  /\ obj'[q].attempt => obj'[q].stage = "answered"
             /\ obj'[q].pin \in 0 .. Len(pins')
             /\ obj'[q].stage \in {"shown", "answered"} => obj'[q].pin # 0
             /\ obj'[q].attempt /\ ~obj'[q].refused => pins'[obj'[q].pin].paired = 0
  <2>1. obj'[q].stage = obj[q].stage /\ obj'[q].pin = obj[q].pin /\ obj'[q].attempt = obj[q].attempt /\ (obj[q].refused => obj'[q].refused)
    BY DEF OnlyOn, Kept
  <2>2. /\ obj[q].attempt => obj[q].stage = "answered"
        /\ obj[q].pin \in 0 .. Len(pins)
        /\ obj[q].stage \in {"shown", "answered"} => obj[q].pin # 0
        /\ obj[q].attempt /\ ~obj[q].refused => pins[obj[q].pin].paired = 0
    BY DEF ScreenOK
  <2>3. obj[q].pin \in 0 .. Len(pins')
    BY <1>1, <2>2 DEF PINsKept
  <2>4. ASSUME obj[q].attempt, ~obj[q].refused PROVE pins'[obj[q].pin].paired = 0
    <3>1. obj[q].pin \in 1 .. Len(pins)
      BY <1>1, <2>2, <2>4
    <3> QED
      BY <2>2, <2>4, <3>1 DEF PINsKept
  <2> QED
    BY <2>1, <2>2, <2>3, <2>4
<1>4. \A q \in Objs : OnScreen(q)' => pinConn' = q
  OBVIOUS
<1>5. ScreenOK'
  BY <1>3, <1>4 DEF ScreenOK
<1> QED
  BY <1>2, <1>5

\* The screen when it is left as it is, or freed by who holds it.
LEMMA ScreenStays ==
  ASSUME ScreenOK, NEW o, OnlyOn(o), pinConn' = pinConn \/ (pinConn = o /\ pinConn' = 0)
  PROVE  \A q \in Objs \ {o} : OnScreen(q)' => pinConn' = q
<1>1. ASSUME NEW q \in Objs \ {o}, OnScreen(q)' PROVE pinConn' = q
  <2>1. OnScreen(q)
    BY <1>1 DEF OnScreen, OnlyOn, Kept
  <2> QED
    BY <1>1, <2>1 DEF ScreenOK
<1> QED
  BY <1>1

LEMMA FailedRecord ==
  ASSUME NEW r \in PINRecord
  PROVE  FailedAttempt(r) \in PINRecord /\ FailedAttempt(r).paired = r.paired /\ (r.over => FailedAttempt(r).over)
<1>1. r.failed + 1 \in Nat
  BY DEF PINRecord
<1> QED
  BY <1>1 DEF FailedAttempt, PINRecord

LEMMA Closes ==
  ASSUME BLETypeOK, ScreenOK, PINsOK, NEW o \in Objs, Close(o)
  PROVE  /\ obj' \in [Objs -> ObjRecord] /\ OnlyOn(o) /\ pins' \in Seq(PINRecord) /\ pinConn' \in 0 .. MaxObjs
         /\ obj'[o].stage = "closed" /\ obj'[o].outcome = obj[o].outcome /\ obj'[o].mu = 0
         /\ ScreenOK' /\ PINsOK'
<1> DEFINE r == [obj[o] EXCEPT !.stage = "closed", !.attempt = FALSE, !.mu = 0]
<1>1. obj[o] \in ObjRecord
  BY DEF BLETypeOK
<1>2. r \in ObjRecord /\ r.stage = "closed" /\ r.attempt = FALSE /\ r.mu = 0 /\ r.dev = obj[o].dev /\ r.outcome = obj[o].outcome /\ r.pin = obj[o].pin
  <2>1. 0 \in 0 .. Slots /\ "closed" \in BLEStages
    BY Bounds DEF BLEStages
  <2>2. r \in ObjRecord
    BY <1>1, <2>1 DEF ObjRecord
  <2> QED
    BY <1>1, <2>2 DEF ObjRecord
<1>3. obj' = [obj EXCEPT ![o] = r]
  BY DEF Close
<1> HIDE DEF r
<1>4. obj' \in [Objs -> ObjRecord] /\ obj'[o] = r /\ \A q \in Objs \ {o} : obj'[q] = obj[q]
  BY <1>2, <1>3, SetObj
<1>5. OnlyOn(o)
  BY <1>2, <1>4, Same DEF OnlyOn
<1>6. Len(pins) \in Nat /\ obj[o].pin \in 0 .. Len(pins) /\ (obj[o].attempt => obj[o].pin # 0)
  BY PINsAre DEF ScreenOK
<1>7. PINsKept
  <2>1. CASE obj[o].attempt
    <3>1. obj[o].pin \in 1 .. Len(pins)
      BY <1>6, <2>1
    <3>2. pins[obj[o].pin] \in PINRecord
      BY <3>1, PINsAre
    <3>3. pins' = [pins EXCEPT ![obj[o].pin] = FailedAttempt(pins[obj[o].pin])]
      BY <2>1 DEF Close
    <3>4. FailedAttempt(pins[obj[o].pin]) \in PINRecord
      BY <3>2, FailedRecord
    <3>5. pins' \in Seq(PINRecord) /\ Len(pins') = Len(pins) /\ pins'[obj[o].pin] = FailedAttempt(pins[obj[o].pin])
      BY <3>1, <3>3, <3>4, SetPIN
    <3>6. \A q \in (1 .. Len(pins)) \ {obj[o].pin} : pins'[q] = pins[q]
      BY <3>1, <3>3, <3>4, SetPIN
    <3>7. \A p \in 1 .. Len(pins) : pins'[p].paired = pins[p].paired /\ (pins[p].over => pins'[p].over)
      BY <3>2, <3>5, <3>6, FailedRecord
    <3> QED
      BY <1>6, <3>5, <3>7 DEF PINsKept
  <2>2. CASE ~obj[o].attempt
    <3>1. pins' = pins
      BY <2>2 DEF Close
    <3> QED
      BY <3>1, PINsUnchanged
  <2> QED
    BY <2>1, <2>2
<1>8. pinConn' = pinConn \/ (pinConn = o /\ pinConn' = 0)
  BY DEF Close
<1>9. pinConn' \in 0 .. MaxObjs
  BY <1>8, Bounds DEF BLETypeOK
<1>10. \A q \in Objs \ {o} : OnScreen(q)' => pinConn' = q
  BY <1>5, <1>8, ScreenStays
<1>11. obj'[o].pin \in 0 .. Len(pins') /\ Len(pins') \in Nat
  BY <1>2, <1>4, <1>6, <1>7, LenProperties DEF PINsKept
<1>12. ~OnScreen(o)' /\ ~obj'[o].attempt /\ obj'[o].stage \notin {"shown", "answered"}
  BY <1>2, <1>4 DEF OnScreen
<1>13. ScreenOK' /\ PINsOK'
  BY <1>4, <1>5, <1>7, <1>10, <1>11, <1>12, ScreenKept
<1> QED
  BY <1>2, <1>4, <1>5, <1>7, <1>9, <1>13 DEF PINsKept

-----------------------------------------------------------------------------
(* What a message does to its connection.                                  *)

LEMMA TypedMessage ==
  ASSUME NEW m \in Messages
  PROVE  /\ m.typ \in {"hello", "pinWanted"} => m.i \in Challenges
         /\ m.typ \in {"trusted", "pinConfirm", "network"} => m.key \in Keys
         /\ m.typ = "pin" => m.code \in Codes
         /\ m.typ \in {"hello", "pinWanted", "trusted", "pinConfirm", "pin", "network"}
<1>1. CASE m \in HelloMsgs
  BY <1>1 DEF HelloMsgs
<1>2. CASE m \in KeyMsgs
  BY <1>2 DEF KeyMsgs
<1>3. CASE m \in PINMsgs
  BY <1>3 DEF PINMsgs
<1>4. CASE m \in NetworkMsgs
  BY <1>4 DEF NetworkMsgs
<1> QED
  BY <1>1, <1>2, <1>3, <1>4 DEF Messages

LEMMA MessageAt ==
  ASSUME BLETypeOK, CallsOK, NEW k \in Ks, call[k].at \in {"receive", "locked", "own", "drop", "return"}
  PROVE  /\ call[k] \in CallRecord /\ call[k].kind = "message" /\ call[k].msg \in Messages
         /\ call[k].out \in Answers \cup {[typ |-> "request"]}
         /\ call[k].o \in Objs /\ call[k].o \in ObjsMade /\ call[k].dev \in Devices /\ obj[call[k].o].dev = call[k].dev
         /\ call[k].at \in {"locked", "own"} => obj[call[k].o].mu = k
         /\ call[k].at = "own" => obj[call[k].o].stage = "authenticated"
<1>1. CallOK(k)
  BY DEF CallsOK
<1>2. call[k] \in CallRecord /\ NoCall.at = "start"
  BY DEF BLETypeOK, NoCall
<1>3. call[k].kind = "message"
  <2>1. call[k].kind \in {"none", "message", "answer", "close"}
    BY <1>2 DEF CallRecord
  <2> QED
    BY <1>1, <1>2, <2>1 DEF CallOK
<1>4. call[k].o \in Objs /\ obj[call[k].o].dev = call[k].dev /\ call[k].dev \in Devices
  BY <1>1, <1>3 DEF CallOK
<1>5. call[k].o \in ObjsMade
  BY <1>4, Bounds DEF ObjsMade
<1> QED
  BY <1>1, <1>2, <1>3, <1>4, <1>5 DEF CallOK

\* The call goes on, with its answer.
LEMMA CallAnswers ==
  ASSUME BLETypeOK, CallsOK, NEW k \in Ks, call[k].at \in {"receive", "locked", "own"}, obj'[call[k].o].dev = obj[call[k].o].dev,
         NEW at \in {"return", "drop"}, NEW out \in Answers \cup {[typ |-> "request"]},
         call' = [call EXCEPT ![k].at = at, ![k].out = out]
  PROVE  call' \in [Ks -> CallRecord] /\ (\A q \in Ks \ {k} : call'[q] = call[q]) /\ CallOK(k)'
<1> DEFINE c == [call[k] EXCEPT !.at = at, !.out = out]
<1>1. call[k] \in CallRecord
  BY DEF BLETypeOK
<1>2. at \in BLEPlaces /\ out \in Outs
  BY DEF BLEPlaces, Outs
<1>3. c \in CallRecord
  BY <1>1, <1>2 DEF CallRecord
<1>4. c.at = at /\ c.out = out /\ c.kind = call[k].kind /\ c.msg = call[k].msg /\ c.o = call[k].o /\ c.dev = call[k].dev
  BY <1>1 DEF CallRecord
<1>5. call' = [call EXCEPT ![k] = c]
  OBVIOUS
<1> HIDE DEF c
<1>6. call' \in [Ks -> CallRecord] /\ call'[k] = c /\ \A q \in Ks \ {k} : call'[q] = call[q]
  BY <1>3, <1>5 DEF BLETypeOK
<1>7. CallOK(k)'
  BY <1>4, <1>6, MessageAt DEF CallOK
<1> QED
  BY <1>6, <1>7

\* The call goes on, with the connection's lock.
LEMMA CallOwns ==
  ASSUME BLETypeOK, CallsOK, NEW k \in Ks, call[k].at \in {"receive", "locked"}, NEW at \in {"locked", "own"},
         obj'[call[k].o].dev = obj[call[k].o].dev, obj'[call[k].o].mu = k,
         at = "own" => obj'[call[k].o].stage = "authenticated",
         call' = [call EXCEPT ![k].at = at]
  PROVE  call' \in [Ks -> CallRecord] /\ (\A q \in Ks \ {k} : call'[q] = call[q]) /\ CallOK(k)'
<1> DEFINE c == [call[k] EXCEPT !.at = at]
<1>1. call[k] \in CallRecord /\ at \in BLEPlaces
  BY DEF BLETypeOK, BLEPlaces
<1>2. c \in CallRecord
  BY <1>1 DEF CallRecord
<1>3. c.at = at /\ c.out = call[k].out /\ c.kind = call[k].kind /\ c.msg = call[k].msg /\ c.o = call[k].o /\ c.dev = call[k].dev
  BY <1>1 DEF CallRecord
<1>4. call' = [call EXCEPT ![k] = c]
  OBVIOUS
<1> HIDE DEF c
<1>5. call' \in [Ks -> CallRecord] /\ call'[k] = c /\ \A q \in Ks \ {k} : call'[q] = call[q]
  BY <1>2, <1>4 DEF BLETypeOK
<1>6. CallOK(k)'
  BY <1>3, <1>5, MessageAt DEF CallOK
<1> QED
  BY <1>5, <1>6

\* What a message may do: the connection's object alone, but for the request it
\* takes the screen from.
RecvDoes(k, o) ==
  /\ obj' \in [Objs -> ObjRecord] /\ OnlyOn(o)
  /\ obj[o].stage = "closed" => obj'[o].stage = "closed"
  /\ obj[o].stage \in {"done", "closed"} => obj'[o].stage \in {"done", "closed"} /\ obj'[o].outcome = obj[o].outcome
  /\ call' \in [Ks -> CallRecord] /\ (\A q \in Ks \ {k} : call'[q] = call[q]) /\ CallOK(k)'
  /\ pins' \in Seq(PINRecord) /\ pinConn' \in 0 .. MaxObjs
  /\ ScreenOK' /\ PINsOK'

LEMMA ReceiveRefuses ==
  ASSUME BLETypeOK, CallsOK, ScreenOK, PINsOK, NEW k \in Ks, call[k].at = "locked", NEW o, o = call[k].o, Refuses(k, o)
  PROVE  RecvDoes(k, o)
<1>1. o \in Objs
  BY MessageAt
<1>2. Close(o) /\ call' = [call EXCEPT ![k].at = "drop", ![k].out = Refuse]
  BY DEF Refuses
<1>3. /\ obj' \in [Objs -> ObjRecord] /\ OnlyOn(o) /\ pins' \in Seq(PINRecord) /\ pinConn' \in 0 .. MaxObjs
      /\ obj'[o].stage = "closed" /\ obj'[o].outcome = obj[o].outcome
      /\ ScreenOK' /\ PINsOK'
  BY <1>1, <1>2, Closes
<1>4. Refuse \in Answers \cup {[typ |-> "request"]} /\ obj'[o].dev = obj[o].dev
  BY <1>3 DEF Answers, OnlyOn
<1>5. call' \in [Ks -> CallRecord] /\ (\A q \in Ks \ {k} : call'[q] = call[q]) /\ CallOK(k)'
  BY <1>2, <1>4, CallAnswers
<1> QED
  BY <1>3, <1>5 DEF RecvDoes

LEMMA ReceiveHello ==
  ASSUME BLETypeOK, CallsOK, ScreenOK, PINsOK, NEW k \in Ks, call[k].at = "locked", NEW o, o = call[k].o,
         HelloTaken(k, o, call[k].msg)
  PROVE  RecvDoes(k, o)
<1> DEFINE m == call[k].msg
           n == obj[o].n + 1
           r == [[obj[o] EXCEPT !.stage = "helloed", !.c = m.i, !.n = n, !.late = FALSE] EXCEPT !.mu = 0]
           out == [typ |-> "helloReply", i |-> m.i, r |-> <<o, n>>]
<1>1. o \in Objs /\ m \in Messages /\ obj[o] \in ObjRecord
  BY MessageAt, MadeObjs
<1>2. n \in Nat /\ o \in Nat /\ 0 \in 0 .. Slots /\ "helloed" \in BLEStages
  BY <1>1, Bounds DEF ObjRecord, BLEStages, Objs
<1>3. m.i \in Challenges
  BY <1>1, TypedMessage DEF HelloTaken
<1>4. r \in ObjRecord
  <2> HIDE DEF n, m
  <2> QED
    BY <1>1, <1>2, <1>3 DEF ObjRecord
<1>5. r.stage = "helloed" /\ r.dev = obj[o].dev /\ r.pin = obj[o].pin /\ r.attempt = obj[o].attempt /\ r.refused = obj[o].refused
  <2> HIDE DEF n, m
  <2> QED
    BY <1>1 DEF ObjRecord
<1>6. obj' = [obj EXCEPT ![o] = r] /\ call' = [call EXCEPT ![k].at = "return", ![k].out = out] /\ pins' = pins /\ pinConn' = pinConn
  BY DEF HelloTaken, Does
<1>7. obj[o].stage \in {"idle", "helloed"}
  BY DEF HelloTaken
<1>8. out \in Answers \cup {[typ |-> "request"]}
  BY <1>2, <1>3 DEF Answers, Challenged
<1> HIDE DEF r, out
<1>9. obj' \in [Objs -> ObjRecord] /\ obj'[o] = r /\ \A q \in Objs \ {o} : obj'[q] = obj[q]
  BY <1>1, <1>4, <1>6, SetObj
<1>10. OnlyOn(o)
  BY <1>1, <1>5, <1>9, Same DEF OnlyOn
<1>11. call' \in [Ks -> CallRecord] /\ (\A q \in Ks \ {k} : call'[q] = call[q]) /\ CallOK(k)'
  <2>1. obj'[call[k].o].dev = obj[call[k].o].dev
    BY <1>5, <1>9
  <2>2. call' = [call EXCEPT ![k].at = "return", ![k].out = out]
    BY <1>6
  <2>3. BLETypeOK /\ CallsOK /\ k \in Ks /\ call[k].at \in {"receive", "locked", "own"}
    OBVIOUS
  <2> QED
    BY ONLY <1>8, <2>1, <2>2, <2>3, CallAnswers
<1>12. ScreenOK' /\ PINsOK'
  <2>1. obj'[o].pin \in 0 .. Len(pins') /\ ~obj'[o].attempt /\ obj'[o].stage \notin {"shown", "answered"} /\ ~OnScreen(o)'
    BY <1>1, <1>5, <1>6, <1>7, <1>9 DEF ScreenOK, OnScreen
  <2>2. \A q \in Objs \ {o} : OnScreen(q)' => pinConn' = q
    BY <1>6, <1>10, ScreenStays
  <2> QED
    BY <1>6, <1>9, <1>10, <2>1, <2>2, PINsUnchanged, ScreenKept
<1> QED
  BY <1>6, <1>7, <1>9, <1>10, <1>11, <1>12 DEF RecvDoes, BLETypeOK

LEMMA ReceiveTrusted ==
  ASSUME BLETypeOK, CallsOK, ScreenOK, PINsOK, NEW k \in Ks, call[k].at = "locked", NEW o, o = call[k].o,
         TrustedTaken(k, o, call[k].msg)
  PROVE  RecvDoes(k, o)
<1> DEFINE m == call[k].msg
           r == [obj[o] EXCEPT !.stage = "authenticated", !.trusted = TRUE, !.key = m.key]
<1>1. o \in Objs /\ m \in Messages /\ obj[o] \in ObjRecord /\ obj[o].mu = k
  BY MessageAt, MadeObjs
<1>2. m.key \in Keys /\ "authenticated" \in BLEStages
  BY <1>1, TypedMessage DEF TrustedTaken, BLEStages
<1>3. r \in ObjRecord
  <2> HIDE DEF m
  <2> QED
    BY <1>1, <1>2 DEF ObjRecord
<1>4. r.stage = "authenticated" /\ r.dev = obj[o].dev /\ r.pin = obj[o].pin /\ r.attempt = obj[o].attempt /\ r.mu = k
  <2> HIDE DEF m
  <2> QED
    BY <1>1 DEF ObjRecord
<1>5. obj' = [obj EXCEPT ![o] = r] /\ call' = [call EXCEPT ![k].at = "own"] /\ pins' = pins /\ pinConn' = pinConn
  BY DEF TrustedTaken
<1>6. obj[o].stage = "helloed"
  BY DEF TrustedTaken
<1> HIDE DEF r
<1>7. obj' \in [Objs -> ObjRecord] /\ obj'[o] = r /\ \A q \in Objs \ {o} : obj'[q] = obj[q]
  BY <1>1, <1>3, <1>5, SetObj
<1>8. OnlyOn(o)
  BY <1>1, <1>4, <1>7, Same DEF OnlyOn
<1>9. call' \in [Ks -> CallRecord] /\ (\A q \in Ks \ {k} : call'[q] = call[q]) /\ CallOK(k)'
  BY <1>4, <1>5, <1>7, CallOwns
<1>10. ScreenOK' /\ PINsOK'
  <2>1. obj'[o].pin \in 0 .. Len(pins') /\ ~obj'[o].attempt /\ obj'[o].stage \notin {"shown", "answered"} /\ ~OnScreen(o)'
    BY <1>1, <1>4, <1>5, <1>6, <1>7 DEF ScreenOK, OnScreen
  <2>2. \A q \in Objs \ {o} : OnScreen(q)' => pinConn' = q
    BY <1>5, <1>8, ScreenStays
  <2> QED
    BY <1>5, <1>7, <1>8, <2>1, <2>2, PINsUnchanged, ScreenKept
<1> QED
  BY <1>5, <1>6, <1>7, <1>8, <1>9, <1>10 DEF RecvDoes, BLETypeOK

LEMMA ReceiveNetwork ==
  ASSUME BLETypeOK, CallsOK, ScreenOK, PINsOK, NEW k \in Ks, call[k].at = "locked", NEW o, o = call[k].o,
         NetworkTaken(k, o, call[k].msg)
  PROVE  RecvDoes(k, o)
<1> DEFINE m == call[k].msg
           r == [[obj[o] EXCEPT !.stage = "done", !.join = TRUE] EXCEPT !.mu = 0]
           out == [typ |-> "ack", key |-> m.key]
<1>1. o \in Objs /\ m \in Messages /\ obj[o] \in ObjRecord
  BY MessageAt, MadeObjs
<1>2. m.key \in Keys /\ "done" \in BLEStages /\ 0 \in 0 .. Slots
  BY <1>1, TypedMessage, Bounds DEF NetworkTaken, BLEStages
<1>3. r \in ObjRecord
  BY <1>1, <1>2 DEF ObjRecord
<1>4. r.stage = "done" /\ r.dev = obj[o].dev /\ r.pin = obj[o].pin /\ r.attempt = obj[o].attempt
  BY <1>1 DEF ObjRecord
<1>5. obj' = [obj EXCEPT ![o] = r] /\ call' = [call EXCEPT ![k].at = "return", ![k].out = out] /\ pins' = pins /\ pinConn' = pinConn
  BY DEF NetworkTaken, Does
<1>6. obj[o].stage = "await"
  BY DEF NetworkTaken
<1>7. out \in Answers \cup {[typ |-> "request"]}
  BY <1>2 DEF Answers, Keyed
<1> HIDE DEF r, out
<1>8. obj' \in [Objs -> ObjRecord] /\ obj'[o] = r /\ \A q \in Objs \ {o} : obj'[q] = obj[q]
  BY <1>1, <1>3, <1>5, SetObj
<1>9. OnlyOn(o)
  BY <1>1, <1>4, <1>8, Same DEF OnlyOn
<1>10. call' \in [Ks -> CallRecord] /\ (\A q \in Ks \ {k} : call'[q] = call[q]) /\ CallOK(k)'
  BY <1>4, <1>5, <1>7, <1>8, CallAnswers
<1>11. ScreenOK' /\ PINsOK'
  <2>1. obj'[o].pin \in 0 .. Len(pins') /\ ~obj'[o].attempt /\ obj'[o].stage \notin {"shown", "answered"} /\ ~OnScreen(o)'
    BY <1>1, <1>4, <1>5, <1>6, <1>8 DEF ScreenOK, OnScreen
  <2>2. \A q \in Objs \ {o} : OnScreen(q)' => pinConn' = q
    BY <1>5, <1>9, ScreenStays
  <2> QED
    BY <1>5, <1>8, <1>9, <2>1, <2>2, PINsUnchanged, ScreenKept
<1> QED
  BY <1>5, <1>6, <1>8, <1>9, <1>10, <1>11 DEF RecvDoes, BLETypeOK

\* The screen was free, or its request is refused.
LEMMA Displaces ==
  ASSUME BLETypeOK, ScreenOK, NEW o \in Objs, NEW r \in ObjRecord, r.dev = obj[o].dev, obj' = [Displaced(o) EXCEPT ![o] = r]
  PROVE  /\ obj' \in [Objs -> ObjRecord] /\ obj'[o] = r /\ OnlyOn(o)
         /\ \A q \in Objs \ {o} : ~OnScreen(q)'
<1> DEFINE x == [obj[pinConn] EXCEPT !.refused = TRUE]
<1>1. Displaced(o) \in [Objs -> ObjRecord] /\ \A q \in Objs : q # pinConn \/ q = o => Displaced(o)[q] = obj[q]
  <2>1. CASE pinConn \in {0, o}
    BY <2>1 DEF Displaced, BLETypeOK
  <2>2. CASE pinConn \notin {0, o}
    <3>1. pinConn \in Objs /\ obj[pinConn] \in ObjRecord
      BY <2>2, Bounds DEF BLETypeOK, Objs
    <3>2. x \in ObjRecord
      BY <3>1 DEF ObjRecord
    <3>3. Displaced(o) = [obj EXCEPT ![pinConn] = x]
      BY <2>2 DEF Displaced
    <3> HIDE DEF x
    <3> QED
      BY <2>2, <3>1, <3>2, <3>3 DEF BLETypeOK
  <2> QED
    BY <2>1, <2>2
<1>2. obj' \in [Objs -> ObjRecord] /\ obj'[o] = r /\ \A q \in Objs \ {o} : obj'[q] = Displaced(o)[q]
  BY <1>1
<1>3. ASSUME NEW q \in Objs \ {o} PROVE Kept(q) /\ ~OnScreen(q)'
  <2>1. CASE q # pinConn
    <3>1. obj'[q] = obj[q]
      BY <1>1, <1>2, <2>1
    <3> QED
      BY <2>1, <3>1, Same DEF OnScreen, ScreenOK
  <2>2. CASE q = pinConn
    <3>1. pinConn \notin {0, o} /\ obj[q] \in ObjRecord
      BY <2>2, Bounds DEF Objs, BLETypeOK
    <3>2. Displaced(o) = [obj EXCEPT ![pinConn] = x]
      BY <3>1 DEF Displaced
    <3>3. obj'[q] = [obj[q] EXCEPT !.refused = TRUE]
      BY <1>2, <2>2, <3>2 DEF BLETypeOK
    <3> QED
      BY <3>1, <3>3 DEF Kept, OnScreen, ObjRecord
  <2> QED
    BY <2>1, <2>2
<1> QED
  BY <1>2, <1>3 DEF OnlyOn

LEMMA ReceiveNoPIN ==
  ASSUME BLETypeOK, CallsOK, ScreenOK, PINsOK, NEW k \in Ks, call[k].at = "locked", NEW o, o = call[k].o,
         NoPIN(k, o, call[k].msg)
  PROVE  RecvDoes(k, o)
<1> DEFINE r == [obj[o] EXCEPT !.stage = "closed", !.mu = 0]
<1>1. o \in Objs /\ obj[o] \in ObjRecord
  BY MessageAt, MadeObjs
<1>2. "closed" \in BLEStages /\ 0 \in 0 .. Slots /\ 0 \in 0 .. MaxObjs
  BY Bounds DEF BLEStages
<1>3. r \in ObjRecord
  BY <1>1, <1>2 DEF ObjRecord
<1>4. r.stage = "closed" /\ r.dev = obj[o].dev /\ r.pin = obj[o].pin /\ r.attempt = obj[o].attempt
  BY <1>1 DEF ObjRecord
<1>5. obj[o].stage \in {"idle", "helloed"} /\ pins' = pins /\ pinConn' = 0
      /\ call' = [call EXCEPT ![k].at = "drop", ![k].out = Refuse]
  BY DEF NoPIN
<1>6. obj' = [Displaced(o) EXCEPT ![o] = r]
  <2>1. Displaced(o)[o] = obj[o]
    <3>1. CASE pinConn \in {0, o}
      BY <3>1 DEF Displaced
    <3>2. CASE pinConn \notin {0, o}
      BY <1>1, <3>2 DEF Displaced, BLETypeOK
    <3> QED
      BY <3>1, <3>2
  <2> QED
    BY <2>1 DEF NoPIN
<1> HIDE DEF r
<1>7. obj' \in [Objs -> ObjRecord] /\ obj'[o] = r /\ OnlyOn(o) /\ \A q \in Objs \ {o} : ~OnScreen(q)'
  BY <1>1, <1>3, <1>4, <1>6, Displaces
<1>8. Refuse \in Answers \cup {[typ |-> "request"]}
  BY DEF Answers
<1>9. call' \in [Ks -> CallRecord] /\ (\A q \in Ks \ {k} : call'[q] = call[q]) /\ CallOK(k)'
  BY <1>4, <1>5, <1>7, <1>8, CallAnswers
<1>10. ScreenOK' /\ PINsOK'
  <2>1. obj'[o].pin \in 0 .. Len(pins') /\ ~obj'[o].attempt /\ obj'[o].stage \notin {"shown", "answered"} /\ ~OnScreen(o)'
    BY <1>1, <1>4, <1>5, <1>7 DEF ScreenOK, OnScreen
  <2> QED
    BY <1>5, <1>7, <2>1, PINsUnchanged, ScreenKept
<1> QED
  BY <1>2, <1>5, <1>7, <1>9, <1>10 DEF RecvDoes, BLETypeOK

LEMMA ReceivePINWanted ==
  ASSUME BLETypeOK, CallsOK, ScreenOK, PINsOK, NEW k \in Ks, call[k].at = "locked", NEW o, o = call[k].o,
         PINWantedTaken(k, o, call[k].msg)
  PROVE  RecvDoes(k, o)
<1> DEFINE m == call[k].msg
           n == obj[o].n + 1
           out == [typ |-> "pinReady", r |-> <<o, n>>]
<1>1. o \in Objs /\ m \in Messages /\ obj[o] \in ObjRecord
  BY MessageAt, MadeObjs
<1>2. PICK got \in (IF LivePIN(Current) THEN {pins} ELSE IF Len(pins) < MaxPINs THEN {Append(pins, NewPIN)} ELSE {}) :
        /\ pins' = got
        /\ obj' = [Displaced(o) EXCEPT ![o].stage = "shown", ![o].c = m.i, ![o].n = n, ![o].late = FALSE,
                                       ![o].pin = Len(got), ![o].mu = 0]
        /\ call' = [call EXCEPT ![k].at = "return", ![k].out = out]
  BY DEF PINWantedTaken
<1>3. obj[o].stage \in {"idle", "helloed"} /\ pinConn' = o
  BY DEF PINWantedTaken
<1>4. PINsKept /\ Len(got) \in Nat /\ Len(got) # 0
  <2>1. pins \in Seq(PINRecord) /\ Len(pins) \in Nat
    BY PINsAre DEF BLETypeOK
  <2>2. CASE LivePIN(Current)
    <3>1. got = pins /\ Len(pins) # 0
      BY <1>2, <2>2 DEF LivePIN, Current
    <3> QED
      BY <1>2, <2>1, <3>1, PINsUnchanged
  <2>3. CASE ~LivePIN(Current)
    <3>0. got = Append(pins, NewPIN)
      BY <1>2, <2>3
    <3>1. NewPIN \in PINRecord /\ NewPIN.paired = 0
      BY DEF NewPIN, PINRecord
    <3>2. got \in Seq(PINRecord) /\ Len(got) = Len(pins) + 1 /\ got[Len(pins) + 1] = NewPIN
          /\ \A p \in 1 .. Len(pins) : got[p] = pins[p]
      BY <2>1, <3>0, <3>1, AppendProperties
    <3>3. \A p \in 1 .. Len(got) : p > Len(pins) => p = Len(pins) + 1
      BY <2>1, <3>2
    <3>4. Len(got) \in Nat /\ Len(got) # 0 /\ Len(pins) <= Len(got)
      BY <2>1, <3>2
    <3>5. \A p \in 1 .. Len(got) : p > Len(pins) => got[p].paired = 0
      BY <3>1, <3>2, <3>3
    <3>6. pins' = got
      BY <1>2
    <3> QED
      BY <3>2, <3>4, <3>5, <3>6 DEF PINsKept
  <2> QED
    BY <1>2, <2>2, <2>3
<1> DEFINE r == [obj[o] EXCEPT !.stage = "shown", !.c = m.i, !.n = n, !.late = FALSE, !.pin = Len(got), !.mu = 0]
<1>5. n \in Nat /\ o \in Nat /\ 0 \in 0 .. Slots /\ "shown" \in BLEStages /\ m.i \in Challenges
  <2>1. m.i \in Challenges
    BY <1>1, TypedMessage DEF PINWantedTaken
  <2> QED
    BY <2>1, <1>1, Bounds DEF ObjRecord, BLEStages, Objs
<1>6. r \in ObjRecord
  <2> HIDE DEF n, m
  <2> QED
    BY <1>1, <1>4, <1>5 DEF ObjRecord
<1>7. r.stage = "shown" /\ r.dev = obj[o].dev /\ r.pin = Len(got) /\ r.attempt = obj[o].attempt
  <2> HIDE DEF n, m
  <2> QED
    BY <1>1 DEF ObjRecord
<1>8. obj' = [Displaced(o) EXCEPT ![o] = r]
  <2>1. Displaced(o)[o] = obj[o]
    <3>1. CASE pinConn \in {0, o}
      BY <3>1 DEF Displaced
    <3>2. CASE pinConn \notin {0, o}
      BY <1>1, <3>2 DEF Displaced, BLETypeOK
    <3> QED
      BY <3>1, <3>2
  <2> HIDE DEF n, m
  <2> QED
    BY <1>2, <2>1
<1>9. out \in Answers \cup {[typ |-> "request"]}
  BY <1>5 DEF Answers, Ready
<1> HIDE DEF r, out
<1>10. obj' \in [Objs -> ObjRecord] /\ obj'[o] = r /\ OnlyOn(o) /\ \A q \in Objs \ {o} : ~OnScreen(q)'
  BY <1>1, <1>6, <1>7, <1>8, Displaces
<1>11. call' \in [Ks -> CallRecord] /\ (\A q \in Ks \ {k} : call'[q] = call[q]) /\ CallOK(k)'
  BY <1>2, <1>7, <1>9, <1>10, CallAnswers
<1>12. ScreenOK' /\ PINsOK'
  <2>1. obj'[o].pin = Len(got) /\ pins' = got /\ obj'[o].attempt = obj[o].attempt
    BY <1>2, <1>7, <1>10
  <2>2. ~obj[o].attempt
    BY <1>1, <1>3 DEF ScreenOK
  <2> QED
    BY <1>3, <1>4, <1>10, <2>1, <2>2, ScreenKept
<1> QED
  BY <1>1, <1>3, <1>4, <1>10, <1>11, <1>12 DEF RecvDoes, PINsKept, Objs

LEMMA ReceivePIN ==
  ASSUME BLETypeOK, CallsOK, ScreenOK, PINsOK, NEW k \in Ks, call[k].at = "locked", NEW o, o = call[k].o,
         PINTaken(k, o, call[k].msg)
  PROVE  RecvDoes(k, o)
<1> DEFINE m == call[k].msg
           p == obj[o].pin
<1>1. o \in Objs /\ m \in Messages /\ obj[o] \in ObjRecord
  BY MessageAt, MadeObjs
<1>2. PICK code \in (IF MayTry(p) THEN {Code(p)} ELSE {NoCode, m.code}) :
        LET key == Key(obj[o].c, <<o, obj[o].n>>, code) IN
        Does(k, o, [obj[o] EXCEPT !.stage = "answered", !.attempt = MayTry(p), !.key = key], [typ |-> "pinReply", key |-> key])
  BY DEF PINTaken
<1>3. obj[o].stage = "shown" /\ ~obj[o].refused /\ pinConn' = pinConn
      /\ pins' = (IF MayTry(p) THEN [pins EXCEPT ![p].reserved = @ + 1] ELSE pins)
  BY DEF PINTaken
<1>4. p \in 1 .. Len(pins) /\ pins[p] \in PINRecord
  <2>1. p \in 0 .. Len(pins) /\ p # 0 /\ Len(pins) \in Nat
    BY <1>1, <1>3, PINsAre DEF ScreenOK
  <2> QED
    BY <2>1, PINsAre
<1> DEFINE t == MayTry(p)
           key == Key(obj[o].c, <<o, obj[o].n>>, code)
           r == [[obj[o] EXCEPT !.stage = "answered", !.attempt = t, !.key = key] EXCEPT !.mu = 0]
           out == [typ |-> "pinReply", key |-> key]
<1>5. t \in BOOLEAN /\ (t => ~pins[p].over /\ pins[p].paired = 0)
  <2>1. t \in BOOLEAN
    BY DEF MayTry, LivePIN
  <2>2. ASSUME t PROVE ~pins[p].over /\ pins[p].paired = 0
    <3>1. ~pins[p].over /\ p \in DOMAIN pins
      BY <1>4, <2>2, PINsAre DEF MayTry, LivePIN
    <3> QED
      BY <1>4, <3>1 DEF PINsOK, PINRecord
  <2> QED
    BY <2>1, <2>2
<1>6. key \in Keys
  <2>1. code \in Codes
    <3>1. CASE t
      BY <1>2, <1>4, <3>1, PINsAre DEF Code, Codes, PINRecord
    <3>2. CASE ~t
      <4>1. m.code \in Codes
        BY <1>1, TypedMessage DEF PINTaken
      <4> QED
        BY <1>2, <3>2, <4>1, SomeCodes
    <3> QED
      BY <3>1, <3>2
  <2>2. obj[o].c \in Challenges /\ <<o, obj[o].n>> \in Nat \X Nat
    BY <1>1, Bounds DEF ObjRecord, Objs
  <2> QED
    BY <2>1, <2>2, AKey
<1>7. 0 \in 0 .. Slots /\ "answered" \in BLEStages
  BY Bounds DEF BLEStages
<1>8. obj' = [obj EXCEPT ![o] = r] /\ call' = [call EXCEPT ![k].at = "return", ![k].out = out]
  BY <1>2 DEF Does
<1> HIDE DEF key, t
<1>9. r \in ObjRecord
  <2> HIDE DEF p, m
  <2> QED
    BY <1>1, <1>5, <1>6, <1>7 DEF ObjRecord
<1>10. r.stage = "answered" /\ r.dev = obj[o].dev /\ r.pin = p /\ r.attempt = t /\ r.refused = obj[o].refused
  BY <1>1 DEF ObjRecord
<1>11. out \in Answers \cup {[typ |-> "request"]}
  BY <1>6 DEF Answers, Keyed
<1> HIDE DEF r, out
<1>12. obj' \in [Objs -> ObjRecord] /\ obj'[o] = r /\ \A q \in Objs \ {o} : obj'[q] = obj[q]
  BY <1>1, <1>8, <1>9, SetObj
<1>13. OnlyOn(o)
  BY <1>1, <1>10, <1>12, Same DEF OnlyOn
<1>14. call' \in [Ks -> CallRecord] /\ (\A q \in Ks \ {k} : call'[q] = call[q]) /\ CallOK(k)'
  BY <1>8, <1>10, <1>11, <1>12, CallAnswers
<1>15. PINsKept /\ Len(pins') = Len(pins) /\ pins'[p].paired = pins[p].paired
  <2> DEFINE x == [pins[p] EXCEPT !.reserved = @ + 1]
  <2>1. pins[p].reserved + 1 \in Nat
    BY <1>4 DEF PINRecord
  <2>2. x \in PINRecord /\ x.paired = pins[p].paired /\ x.over = pins[p].over
    BY <1>4, <2>1 DEF PINRecord
  <2>3. CASE pins' = [pins EXCEPT ![p] = x]
    <3> HIDE DEF x
    <3>1. pins' \in Seq(PINRecord) /\ Len(pins') = Len(pins) /\ pins'[p] = x /\ \A q \in (1 .. Len(pins)) \ {p} : pins'[q] = pins[q]
      BY <1>4, <2>2, <2>3, SetPIN
    <3> HIDE DEF p
    <3>2. \A q \in 1 .. Len(pins) : pins'[q].paired = pins[q].paired /\ (pins[q].over => pins'[q].over)
      BY <2>2, <3>1
    <3>3. PINsKept
      BY <3>1, <3>2, PINsAre DEF PINsKept
    <3> QED
      BY <2>2, <3>1, <3>3
  <2>4. CASE pins' = pins
    BY <2>4, PINsUnchanged
  <2>5. pins' = [pins EXCEPT ![p] = x] \/ pins' = pins
    BY <1>3
  <2> QED
    BY <2>3, <2>4, <2>5
<1>16. ScreenOK' /\ PINsOK'
  <2>1. pinConn = o
    BY <1>1, <1>3 DEF ScreenOK, OnScreen
  <2>2. obj'[o].stage = "answered" /\ obj'[o].pin = p /\ obj'[o].attempt = t
    BY <1>10, <1>12
  <2>3. p \in 0 .. Len(pins') /\ p # 0 /\ (obj'[o].attempt /\ ~obj'[o].refused => pins'[obj'[o].pin].paired = 0)
    BY <1>4, <1>5, <1>15, <2>2, PINsAre
  <2>4. \A q \in Objs \ {o} : OnScreen(q)' => pinConn' = q
    BY <1>3, <1>13, ScreenStays
  <2> QED
    BY <1>3, <1>12, <1>13, <1>15, <2>1, <2>2, <2>3, <2>4, ScreenKept
<1> QED
  BY <1>3, <1>12, <1>13, <1>14, <1>15, <1>16 DEF RecvDoes, BLETypeOK, PINsKept

LEMMA ReceiveConfirm ==
  ASSUME BLETypeOK, CallsOK, ScreenOK, PINsOK, NEW k \in Ks, call[k].at = "locked", NEW o, o = call[k].o,
         ConfirmTaken(k, o, call[k].msg)
  PROVE  RecvDoes(k, o)
<1> DEFINE p == obj[o].pin
           r == [obj[o] EXCEPT !.stage = "authenticated", !.attempt = FALSE]
           x == [pins[p] EXCEPT !.over = TRUE, !.paired = @ + 1]
<1>1. o \in Objs /\ obj[o] \in ObjRecord /\ obj[o].mu = k
  BY MessageAt, MadeObjs
<1>2. /\ obj[o].stage = "answered" /\ obj[o].attempt /\ ~obj[o].refused
      /\ obj' = [obj EXCEPT ![o] = r]
      /\ pins' = [pins EXCEPT ![p] = x]
      /\ pinConn' = IF pinConn = o THEN 0 ELSE pinConn
      /\ call' = [call EXCEPT ![k].at = "own"]
  BY DEF ConfirmTaken, Confirms
<1>3. "authenticated" \in BLEStages
  BY DEF BLEStages
<1>4. r \in ObjRecord
  BY <1>1, <1>3 DEF ObjRecord
<1>5. r.stage = "authenticated" /\ r.dev = obj[o].dev /\ r.pin = p /\ r.attempt = FALSE /\ r.mu = k
  BY <1>1 DEF ObjRecord
<1> HIDE DEF r
<1>6. obj' \in [Objs -> ObjRecord] /\ obj'[o] = r /\ \A q \in Objs \ {o} : obj'[q] = obj[q]
  BY <1>1, <1>2, <1>4, SetObj
<1>7. OnlyOn(o)
  BY <1>1, <1>5, <1>6, Same DEF OnlyOn
<1>8. call' \in [Ks -> CallRecord] /\ (\A q \in Ks \ {k} : call'[q] = call[q]) /\ CallOK(k)'
  <2>1. obj'[call[k].o].dev = obj[call[k].o].dev /\ obj'[call[k].o].mu = k /\ obj'[call[k].o].stage = "authenticated"
    BY <1>5, <1>6
  <2>2. call' = [call EXCEPT ![k].at = "own"]
    BY <1>2
  <2>3. BLETypeOK /\ CallsOK /\ k \in Ks /\ call[k].at \in {"receive", "locked"}
    OBVIOUS
  <2> QED
    BY ONLY <2>1, <2>2, <2>3, CallOwns
<1>9. pinConn = o /\ pinConn' = 0 /\ 0 \in 0 .. MaxObjs
  BY <1>1, <1>2, Bounds DEF ScreenOK, OnScreen
<1>10. p \in 1 .. Len(pins) /\ pins[p] \in PINRecord /\ pins[p].paired = 0 /\ Len(pins) \in Nat
  <2>1. p \in 0 .. Len(pins) /\ p # 0 /\ Len(pins) \in Nat /\ pins[p].paired = 0
    BY <1>1, <1>2, PINsAre DEF ScreenOK
  <2> QED
    BY <2>1, PINsAre
<1>11. x \in PINRecord /\ x.paired = 1 /\ x.over
  <2>1. pins[p].paired + 1 \in Nat
    BY <1>10
  <2>2. x \in PINRecord
    BY <1>10, <2>1 DEF PINRecord
  <2>3. x.paired = pins[p].paired + 1 /\ x.over = TRUE
    BY <1>10 DEF PINRecord
  <2> QED
    BY <1>10, <2>2, <2>3
<1> HIDE DEF x
<1>12. pins' \in Seq(PINRecord) /\ Len(pins') = Len(pins) /\ pins'[p] = x /\ \A q \in (1 .. Len(pins)) \ {p} : pins'[q] = pins[q]
  BY <1>2, <1>10, <1>11, SetPIN
<1> HIDE DEF p
<1>13. PINsOK'
  <2>1. DOMAIN pins' = 1 .. Len(pins) /\ DOMAIN pins = 1 .. Len(pins)
    BY <1>12, LenProperties, PINsAre
  <2>2. ASSUME NEW q \in 1 .. Len(pins) PROVE pins'[q].paired <= 1 /\ (pins'[q].paired > 0 => pins'[q].over)
    <3>1. CASE q = p
      BY <1>11, <1>12, <3>1
    <3>2. CASE q # p
      BY <1>12, <2>1, <3>2 DEF PINsOK
    <3> QED
      BY <3>1, <3>2
  <2> QED
    BY <2>1, <2>2 DEF PINsOK
<1>14. \A q \in Objs : ~OnScreen(q)'
  <2>1. ASSUME NEW q \in Objs, OnScreen(q)' PROVE FALSE
    <3>1. q # o
      BY <1>5, <1>6, <2>1 DEF OnScreen
    <3>2. OnScreen(q)
      BY <1>6, <2>1, <3>1 DEF OnScreen
    <3> QED
      BY <1>9, <3>1, <3>2 DEF ScreenOK
  <2> QED
    BY <2>1
<1>15. \A q \in Objs : /\ obj'[q].attempt => obj'[q].stage = "answered"
                       /\ obj'[q].pin \in 0 .. Len(pins')
                       /\ obj'[q].stage \in {"shown", "answered"} => obj'[q].pin # 0
  <2>1. ASSUME NEW q \in Objs
        PROVE /\ obj'[q].attempt => obj'[q].stage = "answered"
              /\ obj'[q].pin \in 0 .. Len(pins')
              /\ obj'[q].stage \in {"shown", "answered"} => obj'[q].pin # 0
    <3>1. CASE q = o
      BY <1>5, <1>6, <1>10, <1>12, <3>1
    <3>2. CASE q # o
      BY <1>6, <1>12, <3>2 DEF ScreenOK
    <3> QED
      BY <3>1, <3>2
  <2> QED
    BY <2>1
<1>16. ScreenOK'
  BY <1>14, <1>15 DEF ScreenOK, OnScreen
<1> QED
  BY <1>2, <1>6, <1>7, <1>8, <1>9, <1>12, <1>13, <1>16 DEF RecvDoes

-----------------------------------------------------------------------------
(* The steps of the calls.                                                 *)

LEMMA IsDropping ==
  ASSUME BLETypeOK, CallsOK, NEW k, call[k].at \in {"receive", "locked", "own", "return", "answer"}
  PROVE  ~Dropping(k)
BY DEF Dropping

LEMMA OwedSame ==
  ASSUME auth' = auth
  PROVE  \A d \in Devices : Owed(d)' <= Owed(d)
BY DEF Owed

LEMMA StepReceive ==
  ASSUME BLEIInv, NEW k \in Ks, Receive(k)
  PROVE  BLEIInv'
<1>1. BLETypeOK /\ CallsOK /\ InOrder /\ Tabled /\ TableOK /\ ScreenOK /\ PINsOK /\ ToldOK
  BY DEF BLEIInv
<1>2. PICK o \in Objs : o = call[k].o /\ o \in ObjsMade /\ obj[o].mu = k
  BY <1>1, MessageAt DEF Receive
<1>3. call[k].at = "locked" /\ UNCHANGED <<conns, own, tableMu, auth, client, reply, taken, lost>>
  BY DEF Receive
<1>4. Taken(k, o, call[k].msg) \/ Refuses(k, o)
  BY <1>2 DEF Receive
<1>5. RecvDoes(k, o)
  BY <1>1, <1>2, <1>3, <1>4, ReceiveHello, ReceiveTrusted, ReceivePINWanted, ReceiveNoPIN, ReceivePIN, ReceiveConfirm,
     ReceiveNetwork, ReceiveRefuses DEF Taken
<1>6. BLETypeOK'
  BY <1>1, <1>3, <1>5 DEF BLETypeOK, RecvDoes
<1>7. InOrder' /\ Tabled'
  BY <1>1, <1>2, <1>3, <1>5, TabledKept DEF RecvDoes
<1>8. CallsOK'
  <2>1. \A q \in Ks \ {k} : call[q].at \in {"locked", "own"} => call[q].o # o
    BY <1>1, <1>2, LockedOut
  <2>2. \A q \in Ks \ {k} : CallOK(q)'
    BY <1>1, <1>5, <2>1, CallsKept DEF RecvDoes
  <2> QED
    BY <1>5, <2>2, CallsNow DEF RecvDoes
<1>9. TableOK'
  BY <1>1, <1>3, <1>5, IsDropping, TableKept DEF RecvDoes
<1>10. ToldOK'
  BY <1>1, <1>3, <1>5, OwedSame, ToldKept DEF RecvDoes
<1> QED
  BY <1>5, <1>6, <1>7, <1>8, <1>9, <1>10 DEF BLEIInv, RecvDoes

\* A step that leaves the connection where it is, and what it was told.
LEMMA FieldStep ==
  ASSUME BLETypeOK, InOrder, Tabled, ScreenOK, PINsOK, NEW o \in Objs, NEW r \in ObjRecord,
         obj' = [obj EXCEPT ![o] = r], r.dev = obj[o].dev, r.stage = obj[o].stage, r.pin = obj[o].pin,
         r.attempt = obj[o].attempt, obj[o].refused => r.refused,
         pins' = pins, pinConn' = pinConn, conns' = conns
  PROVE  /\ obj' \in [Objs -> ObjRecord] /\ obj'[o] = r /\ OnlyOn(o) /\ \A q \in Objs \ {o} : obj'[q] = obj[q]
         /\ InOrder' /\ Tabled' /\ ScreenOK' /\ PINsOK'
<1>1. obj' \in [Objs -> ObjRecord] /\ obj'[o] = r /\ \A q \in Objs \ {o} : obj'[q] = obj[q]
  BY SetObj
<1>2. OnlyOn(o)
  BY <1>1, Same DEF OnlyOn
<1>3. InOrder' /\ Tabled'
  BY <1>1, <1>2, TabledKept
<1>4. ScreenOK' /\ PINsOK'
  <2>1. /\ obj'[o].attempt = obj[o].attempt /\ obj'[o].pin = obj[o].pin /\ obj'[o].stage = obj[o].stage
        /\ obj[o].refused => obj'[o].refused
    BY <1>1
  <2>2. /\ obj[o].attempt => obj[o].stage = "answered"
        /\ obj[o].pin \in 0 .. Len(pins)
        /\ obj[o].stage \in {"shown", "answered"} => obj[o].pin # 0
        /\ obj[o].attempt /\ ~obj[o].refused => pins[obj[o].pin].paired = 0
        /\ OnScreen(o) => pinConn = o
    BY DEF ScreenOK
  <2>3. OnScreen(o)' => OnScreen(o)
    BY <2>1 DEF OnScreen
  <2>4. \A q \in Objs \ {o} : OnScreen(q)' => pinConn' = q
    BY <1>2, ScreenStays
  <2> QED
    BY <1>1, <1>2, <2>1, <2>2, <2>3, <2>4, PINsUnchanged, ScreenKept
<1> QED
  BY <1>1, <1>2, <1>3, <1>4

LEMMA StepLock ==
  ASSUME BLEIInv, NEW k \in Ks, Lock(k)
  PROVE  BLEIInv'
<1>1. BLETypeOK /\ CallsOK /\ InOrder /\ Tabled /\ TableOK /\ ScreenOK /\ PINsOK /\ ToldOK
  BY DEF BLEIInv
<1>2. call[k].at = "receive" /\ UNCHANGED <<conns, pinConn, pins, own, tableMu, auth, client, reply, taken, lost>>
  BY DEF Lock
<1>3. PICK o \in Objs : o = call[k].o
  BY <1>1, <1>2, MessageAt
<1> DEFINE r == [obj[o] EXCEPT !.mu = k]
<1>4. obj[o] \in ObjRecord /\ k \in 0 .. Slots
  BY <1>1, Bounds, MadeObjs DEF Ks
<1>5. r \in ObjRecord
  BY <1>4 DEF ObjRecord
<1>6. /\ r.dev = obj[o].dev /\ r.stage = obj[o].stage /\ r.pin = obj[o].pin /\ r.attempt = obj[o].attempt
      /\ r.refused = obj[o].refused /\ r.outcome = obj[o].outcome /\ r.mu = k
  BY <1>4 DEF ObjRecord
<1>7. obj' = [obj EXCEPT ![o] = r] /\ obj[o].mu = 0 /\ call' = [call EXCEPT ![k].at = "locked"]
  BY <1>3 DEF Lock, CallGoes
<1> HIDE DEF r
<1>8. /\ obj' \in [Objs -> ObjRecord] /\ obj'[o] = r /\ OnlyOn(o) /\ \A q \in Objs \ {o} : obj'[q] = obj[q]
      /\ InOrder' /\ Tabled' /\ ScreenOK' /\ PINsOK'
  BY <1>1, <1>2, <1>5, <1>6, <1>7, FieldStep
<1>9. call' \in [Ks -> CallRecord] /\ (\A q \in Ks \ {k} : call'[q] = call[q]) /\ CallOK(k)'
  BY <1>1, <1>2, <1>3, <1>6, <1>7, <1>8, CallOwns
<1>10. BLETypeOK'
  BY <1>1, <1>2, <1>8, <1>9 DEF BLETypeOK
<1>11. CallsOK'
  <2>1. \A q \in Ks \ {k} : call[q].at \in {"locked", "own"} => call[q].o # o
    BY <1>1, <1>7, LockedOut
  <2>2. \A q \in Ks \ {k} : CallOK(q)'
    BY <1>1, <1>8, <1>9, <2>1, CallsKept
  <2> QED
    BY <1>9, <2>2, CallsNow
<1>12. TableOK'
  BY <1>1, <1>2, <1>9, IsDropping, TableKept
<1>13. ToldOK'
  BY <1>1, <1>2, <1>6, <1>8, OwedSame, ToldKept
<1> QED
  BY <1>8, <1>10, <1>11, <1>12, <1>13 DEF BLEIInv

LEMMA StepOwnBands ==
  ASSUME BLEIInv, NEW k \in Ks, OwnBands(k)
  PROVE  BLEIInv'
<1>1. BLETypeOK /\ CallsOK /\ InOrder /\ Tabled /\ TableOK /\ ScreenOK /\ PINsOK /\ ToldOK
  BY DEF BLEIInv
<1>2. call[k].at = "own" /\ UNCHANGED <<conns, pinConn, pins, own, tableMu, auth, client, reply, taken, lost>>
  BY DEF OwnBands
<1>3. PICK o \in Objs : o = call[k].o /\ obj[o].mu = k /\ obj[o].stage = "authenticated"
  BY <1>1, <1>2, MessageAt
<1> DEFINE w == Creator(call[k].msg.req, own)
           r == [obj[o] EXCEPT !.mu = 0, !.outcome = w]
           out == [typ |-> "request"]
<1>4. obj[o] \in ObjRecord /\ 0 \in 0 .. Slots /\ w \in BLEOutcomes
  BY <1>1, Bounds, MadeObjs, CreatorOutcome
<1>7. obj' = [obj EXCEPT ![o] = r] /\ call' = [call EXCEPT ![k].at = "return", ![k].out = out]
  BY <1>3 DEF OwnBands
<1> HIDE DEF w
<1>5. r \in ObjRecord
  BY <1>4 DEF ObjRecord
<1>6. /\ r.dev = obj[o].dev /\ r.stage = obj[o].stage /\ r.pin = obj[o].pin /\ r.attempt = obj[o].attempt
      /\ r.refused = obj[o].refused
  BY <1>4 DEF ObjRecord
<1> HIDE DEF r
<1>8. /\ obj' \in [Objs -> ObjRecord] /\ obj'[o] = r /\ OnlyOn(o) /\ \A q \in Objs \ {o} : obj'[q] = obj[q]
      /\ InOrder' /\ Tabled' /\ ScreenOK' /\ PINsOK'
  BY <1>1, <1>2, <1>5, <1>6, <1>7, FieldStep
<1>9. call' \in [Ks -> CallRecord] /\ (\A q \in Ks \ {k} : call'[q] = call[q]) /\ CallOK(k)'
  BY <1>1, <1>2, <1>3, <1>6, <1>7, <1>8, CallAnswers
<1>10. BLETypeOK'
  BY <1>1, <1>2, <1>8, <1>9 DEF BLETypeOK
<1>11. CallsOK'
  <2>1. \A q \in Ks \ {k} : call[q].at \in {"locked", "own"} => call[q].o # o
    BY <1>1, <1>3, LockedOut
  <2>2. \A q \in Ks \ {k} : CallOK(q)'
    BY <1>1, <1>8, <1>9, <2>1, CallsKept
  <2> QED
    BY <1>9, <2>2, CallsNow
<1>12. TableOK'
  BY <1>1, <1>2, <1>9, IsDropping, TableKept
<1>13. ToldOK'
  BY <1>1, <1>2, <1>3, <1>6, <1>8, OwedSame, ToldKept
<1> QED
  BY <1>8, <1>10, <1>11, <1>12, <1>13 DEF BLEIInv

\* The connection of a name ends.
LEMMA ConnEnds ==
  ASSUME BLEIInv, NEW d \in Devices, NEW o, o = conns[d], o # 0, Close(o), conns' = [conns EXCEPT ![d] = 0]
  PROVE  /\ obj' \in [Objs -> ObjRecord] /\ OnlyOn(o) /\ pins' \in Seq(PINRecord) /\ pinConn' \in 0 .. MaxObjs
         /\ obj'[o].stage = "closed" /\ obj'[o].outcome = obj[o].outcome
         /\ conns' \in [Devices -> 0 .. MaxObjs] /\ o \in Objs /\ obj[o].dev = d
         /\ InOrder' /\ Tabled' /\ ScreenOK' /\ PINsOK'
<1>1. BLETypeOK /\ InOrder /\ Tabled /\ ScreenOK /\ PINsOK
  BY DEF BLEIInv
<1>2. o \in Objs /\ obj[o].dev = d
  BY <1>1, Bounds DEF BLETypeOK, Tabled, Objs
<1>3. o \in ObjsMade
  BY <1>1, <1>2, Bounds DEF ObjsMade
<1>4. /\ obj' \in [Objs -> ObjRecord] /\ OnlyOn(o) /\ pins' \in Seq(PINRecord) /\ pinConn' \in 0 .. MaxObjs
      /\ obj'[o].stage = "closed" /\ obj'[o].outcome = obj[o].outcome
      /\ ScreenOK' /\ PINsOK'
  BY <1>1, <1>2, Closes
<1>5. conns' \in [Devices -> 0 .. MaxObjs]
  BY <1>1, Bounds DEF BLETypeOK
<1>6. InOrder' /\ Tabled'
  BY <1>1, <1>2, <1>3, <1>4, TabledKept
<1> QED
  BY <1>2, <1>4, <1>5, <1>6

\* A call that ends, or drops what its name names, and goes on.
LEMMA CallDrops ==
  ASSUME BLETypeOK, CallsOK, NEW k \in Ks, Dropping(k), AfterDrop(k), \A o \in Objs : obj'[o].dev = obj[o].dev
  PROVE  call' \in [Ks -> CallRecord] /\ (\A q \in Ks \ {k} : call'[q] = call[q]) /\ CallOK(k)'
<1>1. CASE call[k].kind = "close"
  <2>1. call' = [call EXCEPT ![k] = NoCall]
    BY <1>1 DEF AfterDrop, CallEnds
  <2>2. call' \in [Ks -> CallRecord] /\ (\A q \in Ks \ {k} : call'[q] = call[q]) /\ call'[k] = NoCall
    BY <2>1, NoCallOK DEF BLETypeOK
  <2> QED
    BY <2>2 DEF CallOK, NoCall
<1>2. CASE call[k].kind # "close"
  <2> DEFINE c == [call[k] EXCEPT !.at = "return"]
  <2>1. call[k].kind = "message" /\ call[k].at = "drop" /\ call' = [call EXCEPT ![k] = c]
    BY <1>2 DEF AfterDrop, CallGoes, Dropping
  <2>2. call[k] \in CallRecord /\ "return" \in BLEPlaces
    BY DEF BLETypeOK, BLEPlaces
  <2>3. c \in CallRecord
    BY <2>2 DEF CallRecord
  <2>4. c.at = "return" /\ c.out = call[k].out /\ c.kind = call[k].kind /\ c.msg = call[k].msg /\ c.o = call[k].o /\ c.dev = call[k].dev
    BY <2>2 DEF CallRecord
  <2> HIDE DEF c
  <2>5. call' \in [Ks -> CallRecord] /\ (\A q \in Ks \ {k} : call'[q] = call[q]) /\ call'[k] = c
    BY <2>1, <2>3 DEF BLETypeOK
  <2>6. CallOK(k)'
    BY <2>1, <2>4, <2>5, MessageAt DEF CallOK
  <2> QED
    BY <2>5, <2>6
<1> QED
  BY <1>1, <1>2

LEMMA DroppingDev ==
  ASSUME BLETypeOK, CallsOK, NEW k \in Ks, Dropping(k)
  PROVE  call[k].dev \in Devices
<1>1. CallOK(k) /\ call[k].kind # "none"
  BY DEF CallsOK, Dropping
<1> QED
  BY <1>1 DEF CallOK

\* Both ways of bleDrop that end a connection.
LEMMA StepDrops ==
  ASSUME BLEIInv, NEW k \in Ks, Dropping(k), tableMu \in {0, k}, NEW d \in Devices, d = call[k].dev, conns[d] # 0, obj[conns[d]].mu = 0,
         Close(conns[d]), conns' = [conns EXCEPT ![d] = 0], AfterDrop(k), tableMu' = 0,
         UNCHANGED <<own, auth, client, reply, taken, lost>>
  PROVE  BLEIInv'
<1>1. BLETypeOK /\ CallsOK /\ InOrder /\ Tabled /\ TableOK /\ ScreenOK /\ PINsOK /\ ToldOK
  BY DEF BLEIInv
<1>2. PICK o : o = conns[d]
  OBVIOUS
<1>3. /\ obj' \in [Objs -> ObjRecord] /\ OnlyOn(o) /\ pins' \in Seq(PINRecord) /\ pinConn' \in 0 .. MaxObjs
      /\ obj'[o].stage = "closed" /\ obj'[o].outcome = obj[o].outcome
      /\ conns' \in [Devices -> 0 .. MaxObjs] /\ o \in Objs
      /\ InOrder' /\ Tabled' /\ ScreenOK' /\ PINsOK'
  BY <1>2, ConnEnds
<1>4. \A q \in Objs : obj'[q].dev = obj[q].dev
  BY <1>3 DEF OnlyOn, Kept
<1>5. call' \in [Ks -> CallRecord] /\ (\A q \in Ks \ {k} : call'[q] = call[q]) /\ CallOK(k)'
  BY <1>1, <1>4, CallDrops
<1>6. CallsOK'
  <2>1. \A q \in Ks \ {k} : call[q].at \in {"locked", "own"} => call[q].o # o
    BY <1>1, <1>2, <1>3, LockedOut
  <2>2. \A q \in Ks \ {k} : CallOK(q)'
    BY <1>1, <1>3, <1>5, <2>1, CallsKept
  <2> QED
    BY <1>5, <2>2, CallsNow
<1>7. BLETypeOK'
  <2>1. 0 \in 0 .. Slots
    BY Bounds
  <2> QED
    BY <1>1, <1>3, <1>5, <2>1 DEF BLETypeOK
<1>8. TableOK'
  BY DEF TableOK
<1>9. ToldOK'
  BY <1>1, <1>3, OwedSame, ToldKept
<1> QED
  BY <1>3, <1>6, <1>7, <1>8, <1>9 DEF BLEIInv

\* Nothing of the objects changes.
LEMMA ObjsUnchanged ==
  ASSUME InOrder, Tabled, ScreenOK, PINsOK, UNCHANGED <<obj, conns, pinConn, pins>>
  PROVE  InOrder' /\ Tabled' /\ ScreenOK' /\ PINsOK'
BY DEF InOrder, Tabled, ScreenOK, PINsOK, OnScreen, ObjsMade

LEMMA CallsUnchanged ==
  ASSUME CallsOK, NEW k, obj' = obj, \A q \in Ks \ {k} : call'[q] = call[q]
  PROVE  \A q \in Ks \ {k} : CallOK(q)'
BY DEF CallsOK, CallOK

LEMMA ToldUnchanged ==
  ASSUME ToldOK, obj' = obj, taken' = taken, auth' = auth
  PROVE  ToldOK'
BY DEF ToldOK, Told, Owed

LEMMA StepDrop ==
  ASSUME BLEIInv, NEW k \in Ks, Drop(k)
  PROVE  BLEIInv'
<1>1. BLETypeOK /\ CallsOK /\ InOrder /\ Tabled /\ TableOK /\ ScreenOK /\ PINsOK /\ ToldOK
  BY DEF BLEIInv
<1>2. Dropping(k) /\ tableMu = 0 /\ UNCHANGED <<own, auth, client, reply, taken, lost>>
  BY DEF Drop
<1>3. PICK d \in Devices : d = call[k].dev
  BY <1>1, <1>2, DroppingDev
<1>4. CASE conns[d] # 0 /\ obj[conns[d]].mu = 0 /\ Close(conns[d]) /\ conns' = [conns EXCEPT ![d] = 0] /\ AfterDrop(k) /\ tableMu' = tableMu
  BY <1>2, <1>3, <1>4, StepDrops
<1>5. CASE AfterDrop(k) /\ UNCHANGED <<obj, conns, pinConn, pins, tableMu>>
  <2>1. call' \in [Ks -> CallRecord] /\ (\A q \in Ks \ {k} : call'[q] = call[q]) /\ CallOK(k)'
    BY <1>1, <1>2, <1>5, CallDrops
  <2>2. CallsOK'
    BY <1>1, <1>5, <2>1, CallsUnchanged, CallsNow
  <2>3. BLETypeOK'
    BY <1>1, <1>2, <1>5, <2>1 DEF BLETypeOK
  <2>4. TableOK'
    BY <1>2, <1>5 DEF TableOK
  <2> QED
    BY <1>1, <1>2, <1>5, <2>2, <2>3, <2>4, ObjsUnchanged, ToldUnchanged DEF BLEIInv
<1>6. CASE conns[d] # 0 /\ tableMu' = k /\ UNCHANGED <<obj, conns, pinConn, pins, call>>
  <2>1. BLETypeOK'
    <3>1. k \in 0 .. Slots
      BY Bounds DEF Ks
    <3> QED
      BY <1>1, <1>2, <1>6, <3>1 DEF BLETypeOK
  <2>2. CallsOK'
    BY <1>1, <1>6 DEF CallsOK, CallOK
  <2>3. TableOK'
    BY <1>2, <1>3, <1>6 DEF TableOK, Dropping
  <2> QED
    BY <1>1, <1>2, <1>6, <2>1, <2>2, <2>3, ObjsUnchanged, ToldUnchanged DEF BLEIInv
<1> QED
  BY <1>3, <1>4, <1>5, <1>6 DEF Drop

LEMMA StepDropped ==
  ASSUME BLEIInv, NEW k \in Ks, Dropped(k)
  PROVE  BLEIInv'
<1>1. BLETypeOK /\ CallsOK /\ TableOK
  BY DEF BLEIInv
<1>2. Dropping(k) /\ tableMu = k
  BY DEF Dropped
<1>3. PICK d \in Devices : d = call[k].dev
  BY <1>1, <1>2, DroppingDev
<1>4. conns[d] # 0
  BY <1>1, <1>2, <1>3, Bounds DEF TableOK, Ks
<1> QED
  BY <1>2, <1>3, <1>4, StepDrops DEF Dropped

LEMMA StepMessage ==
  ASSUME BLEIInv, NEW k \in Ks, Message(k)
  PROVE  BLEIInv'
<1>1. BLETypeOK /\ CallsOK /\ InOrder /\ Tabled /\ TableOK /\ ScreenOK /\ PINsOK /\ ToldOK
  BY DEF BLEIInv
<1>2. /\ call[k].kind = "message" /\ call[k].at = "start" /\ tableMu = 0 /\ own' \in Own
      /\ UNCHANGED <<pinConn, pins, tableMu, auth, client, taken, lost>>
  BY DEF Message
<1>3. CallOK(k) /\ call[k] \in CallRecord
  BY <1>1 DEF CallsOK, BLETypeOK
<1>4. PICK d \in Devices : d = call[k].dev
  BY <1>2, <1>3 DEF CallOK
<1>5. TableOK'
  BY <1>2 DEF TableOK
<1>6. ASSUME NEW o \in Objs, call' = [call EXCEPT ![k].at = "receive", ![k].o = o], obj'[o].dev = d
      PROVE  call' \in [Ks -> CallRecord] /\ (\A q \in Ks \ {k} : call'[q] = call[q]) /\ CallOK(k)'
  <2> DEFINE c == [call[k] EXCEPT !.at = "receive", !.o = o]
  <2>1. "receive" \in BLEPlaces /\ o \in 0 .. MaxObjs
    BY Bounds DEF BLEPlaces, Objs
  <2>2. c \in CallRecord
    BY <1>3, <2>1 DEF CallRecord
  <2>3. c.at = "receive" /\ c.out = call[k].out /\ c.kind = call[k].kind /\ c.msg = call[k].msg /\ c.o = o /\ c.dev = call[k].dev
    BY <1>3 DEF CallRecord
  <2>4. call' = [call EXCEPT ![k] = c]
    BY <1>6
  <2> HIDE DEF c
  <2>5. call' \in [Ks -> CallRecord] /\ (\A q \in Ks \ {k} : call'[q] = call[q]) /\ call'[k] = c
    BY <1>1, <2>2, <2>4 DEF BLETypeOK
  <2>6. CallOK(k)'
    BY <1>2, <1>3, <1>4, <1>6, <2>3, <2>5 DEF CallOK
  <2> QED
    BY <2>5, <2>6
<1>7. CASE conns[d] # 0 /\ call' = [call EXCEPT ![k].at = "receive", ![k].o = conns[d]] /\ UNCHANGED <<obj, conns, reply>>
  <2>1. conns[d] \in Objs /\ obj[conns[d]].dev = d
    BY <1>1, <1>7, Bounds DEF BLETypeOK, Tabled, Objs
  <2>2. call' \in [Ks -> CallRecord] /\ (\A q \in Ks \ {k} : call'[q] = call[q]) /\ CallOK(k)'
    BY <1>6, <1>7, <2>1
  <2>3. CallsOK'
    BY <1>1, <1>7, <2>2, CallsUnchanged, CallsNow
  <2>4. BLETypeOK'
    BY <1>1, <1>2, <1>7, <2>2 DEF BLETypeOK
  <2> QED
    BY <1>1, <1>2, <1>5, <1>7, <2>3, <2>4, ObjsUnchanged, ToldUnchanged DEF BLEIInv
<1>8. CASE conns[d] = 0 /\ reply' = [reply EXCEPT ![d] = Refuse] /\ CallEnds(k) /\ UNCHANGED <<obj, conns>>
  <2>1. call' \in [Ks -> CallRecord] /\ (\A q \in Ks \ {k} : call'[q] = call[q]) /\ call'[k] = NoCall
    BY <1>1, <1>8, NoCallOK DEF BLETypeOK, CallEnds
  <2>2. CallOK(k)'
    BY <2>1 DEF CallOK, NoCall
  <2>3. CallsOK'
    BY <1>1, <1>8, <2>1, <2>2, CallsUnchanged, CallsNow
  <2>4. reply' \in [Devices -> Answers]
    BY <1>1, <1>8 DEF BLETypeOK, Answers
  <2>5. BLETypeOK'
    BY <1>1, <1>2, <1>8, <2>1, <2>4 DEF BLETypeOK
  <2> QED
    BY <1>1, <1>2, <1>5, <1>8, <2>3, <2>5, ObjsUnchanged, ToldUnchanged DEF BLEIInv
<1>9. ASSUME NEW o \in Objs, o = 1 + Cardinality(ObjsMade), conns[d] = 0, obj' = [obj EXCEPT ![o].dev = d],
             conns' = [conns EXCEPT ![d] = o], call' = [call EXCEPT ![k].at = "receive", ![k].o = o], reply' = reply
      PROVE  BLEIInv'
  <2> DEFINE r == [obj[o] EXCEPT !.dev = d]
  <2>1. PICK n \in 0 .. MaxObjs : ObjsMade = 1 .. n
    BY <1>1 DEF InOrder
  <2>2. n \in Nat /\ o = n + 1 /\ o \notin ObjsMade /\ obj[o].dev = Self /\ obj[o].stage = "idle"
    <3>1. n \in Nat /\ Cardinality(1 .. n) = n
      BY Bounds, FS_Interval
    <3>2. o = n + 1
      BY <1>9, <2>1, <3>1
    <3>3. o \notin ObjsMade
      BY <2>1, <3>1, <3>2
    <3>4. obj[o].dev = Self
      BY <3>3 DEF ObjsMade
    <3>5. obj[o].stage = "idle"
      BY <1>1, <3>3 DEF Tabled
    <3> QED
      BY <3>1, <3>2, <3>3, <3>4, <3>5
  <2>3. obj[o] \in ObjRecord
    BY <1>1 DEF BLETypeOK
  <2>4. r \in ObjRecord /\ obj' = [obj EXCEPT ![o] = r]
    BY <1>9, <2>3 DEF ObjRecord
  <2>5. r.dev = d /\ r.stage = "idle" /\ r.attempt = obj[o].attempt /\ r.pin = obj[o].pin /\ r.refused = obj[o].refused /\ d # Self
    BY <2>2, <2>3, Bounds DEF ObjRecord
  <2> HIDE DEF r
  <2>6. obj' \in [Objs -> ObjRecord] /\ obj'[o] = r /\ \A q \in Objs \ {o} : obj'[q] = obj[q]
    BY <1>1, <2>4, SetObj
  <2>7. ObjsMade' = ObjsMade \cup {o}
    BY <2>5, <2>6 DEF ObjsMade
  <2>8. InOrder'
    <3>1. ObjsMade' = 1 .. o /\ o \in 0 .. MaxObjs
      BY <2>1, <2>2, <2>7, Bounds DEF Objs
    <3> QED
      BY <3>1 DEF InOrder
  <2>9. conns' \in [Devices -> 0 .. MaxObjs] /\ conns'[d] = o /\ \A e \in Devices \ {d} : conns'[e] = conns[e]
    BY <1>1, <1>9, Bounds DEF BLETypeOK, Objs
  <2>10. Tabled'
    <3>1. ASSUME NEW q \in ObjsMade', obj'[q].stage # "closed" PROVE conns'[obj'[q].dev] = q
      <4>1. CASE q = o
        BY <2>5, <2>6, <2>9, <4>1
      <4>2. CASE q # o
        <5>1. q \in ObjsMade /\ q \in Objs /\ obj'[q] = obj[q] /\ obj[q].dev \in Devices /\ q # 0
          BY <1>1, <2>6, <2>7, <3>1, <4>2, MadeObjs DEF ObjsMade
        <5>2. conns[obj[q].dev] = q
          BY <1>1, <3>1, <5>1 DEF Tabled
        <5> QED
          BY <1>9, <2>9, <5>1, <5>2
      <4> QED
        BY <4>1, <4>2
    <3>2. ASSUME NEW e \in Devices, conns'[e] # 0 PROVE obj'[conns'[e]].dev = e
      <4>1. CASE e = d
        BY <2>5, <2>6, <2>9, <4>1
      <4>2. CASE e # d
        <5>1. conns[e] \in Objs /\ obj[conns[e]].dev = e /\ conns'[e] = conns[e]
          BY <1>1, <2>9, <3>2, <4>2, Bounds DEF BLETypeOK, Tabled, Objs
        <5>2. conns[e] # o
          BY <2>2, <5>1, Bounds
        <5> QED
          BY <2>6, <5>1, <5>2
      <4> QED
        BY <4>1, <4>2
    <3>3. \A q \in Objs : obj'[q].stage # "idle" => q \in ObjsMade'
      BY <1>1, <2>5, <2>6, <2>7 DEF Tabled
    <3> QED
      BY <3>1, <3>2, <3>3 DEF Tabled
  <2>11. call' \in [Ks -> CallRecord] /\ (\A q \in Ks \ {k} : call'[q] = call[q]) /\ CallOK(k)'
    BY <1>6, <1>9, <2>5, <2>6
  <2>12. CallsOK'
    <3>1. ASSUME NEW q \in Ks \ {k} PROVE CallOK(q)'
      <4>1. CallOK(q) /\ call'[q] = call[q]
        BY <1>1, <2>11 DEF CallsOK
      <4>2. ASSUME call[q].at # "start" PROVE obj'[call[q].o] = obj[call[q].o]
        <5>1. call[q].o \in Objs /\ obj[call[q].o].dev = call[q].dev /\ call[q].dev \in Devices
          BY <4>1, <4>2 DEF CallOK, NoCall
        <5>2. call[q].o # o
          BY <2>2, <5>1, Bounds
        <5> QED
          BY <2>6, <5>1, <5>2
      <4> QED
        BY <4>1, <4>2 DEF CallOK
    <3> QED
      BY <2>11, <3>1, CallsNow
  <2>13. ScreenOK' /\ PINsOK'
    <3>1. \A q \in Objs : /\ obj'[q].stage = obj[q].stage /\ obj'[q].attempt = obj[q].attempt /\ obj'[q].pin = obj[q].pin
                          /\ obj'[q].refused = obj[q].refused
      BY <2>2, <2>5, <2>6
    <3> QED
      BY <1>1, <1>2, <3>1 DEF ScreenOK, PINsOK, OnScreen
  <2>14. ToldOK'
    <3>1. ASSUME NEW e \in Devices PROVE Told(e)' = Told(e)
      <4>1. \A q \in Objs : /\ q # o => obj'[q] = obj[q]
                            /\ q = o => obj'[q].stage = "idle" /\ obj[q].stage = "idle"
        BY <2>2, <2>5, <2>6
      <4> QED
        BY <4>1 DEF Told
    <3>2. \A e \in Devices : Owed(e)' = Owed(e)
      BY <1>2 DEF Owed
    <3> QED
      BY <1>1, <1>2, <3>1, <3>2 DEF ToldOK
  <2>15. BLETypeOK'
    BY <1>1, <1>2, <1>9, <2>6, <2>9, <2>11 DEF BLETypeOK
  <2> QED
    BY <1>5, <2>8, <2>10, <2>12, <2>13, <2>14, <2>15 DEF BLEIInv
<1> QED
  BY <1>4, <1>7, <1>8, <1>9 DEF Message

\* What the platform has to say, of a call that ends here.
LEMMA StepReturn ==
  ASSUME BLEIInv, NEW k \in Ks, Return(k)
  PROVE  BLEIInv'
<1>1. BLETypeOK /\ CallsOK /\ InOrder /\ Tabled /\ TableOK /\ ScreenOK /\ PINsOK /\ ToldOK
  BY DEF BLEIInv
<1>2. /\ call[k].at = "return" /\ tableMu = 0
      /\ UNCHANGED <<conns, pinConn, pins, own, tableMu, auth, client, taken, lost>>
  BY DEF Return
<1>3. PICK o \in Objs : o = call[k].o /\ call[k].dev \in Devices /\ call[k].out \in Answers \cup {[typ |-> "request"]}
  BY <1>1, <1>2, MessageAt
<1>4. TableOK'
  BY <1>2 DEF TableOK
<1>5. CASE call[k].out.typ = "request"
  <2> DEFINE r == [obj[o] EXCEPT !.named = TRUE]
  <2>1. obj[o] \in ObjRecord
    BY <1>1, MadeObjs
  <2>2. r \in ObjRecord
    BY <2>1 DEF ObjRecord
  <2>3. /\ r.dev = obj[o].dev /\ r.stage = obj[o].stage /\ r.pin = obj[o].pin /\ r.attempt = obj[o].attempt
        /\ r.refused = obj[o].refused /\ r.outcome = obj[o].outcome /\ r.mu = obj[o].mu
    BY <2>1 DEF ObjRecord
  <2>4. obj' = [obj EXCEPT ![o] = r] /\ reply' = reply
    BY <1>3, <1>5 DEF Return
  <2>5. PICK w \in {obj[o].outcome} \cup (IF obj[o].outcome = "responder" THEN {"none"} ELSE {}) :
          call' = [call EXCEPT ![k] = [NoCall EXCEPT !.kind = "answer", !.dev = call[k].dev, !.out = [typ |-> "reply", outcome |-> w, admits |-> FALSE]]]
    BY <1>3, <1>5 DEF Return
  <2> HIDE DEF r
  <2>6. /\ obj' \in [Objs -> ObjRecord] /\ obj'[o] = r /\ OnlyOn(o) /\ \A q \in Objs \ {o} : obj'[q] = obj[q]
        /\ InOrder' /\ Tabled' /\ ScreenOK' /\ PINsOK'
    BY <1>1, <1>2, <2>2, <2>3, <2>4, FieldStep
  <2>7. \A q \in Objs : obj'[q].dev = obj[q].dev /\ obj'[q].mu = obj[q].mu /\ obj'[q].stage = obj[q].stage
    BY <2>3, <2>6
  <2> DEFINE out == [typ |-> "reply", outcome |-> w, admits |-> FALSE]
             c == [NoCall EXCEPT !.kind = "answer", !.dev = call[k].dev, !.out = out]
  <2>8. w \in BLEOutcomes /\ out \in Decisions
    BY <2>1, <2>5 DEF ObjRecord, BLEOutcomes, Decisions
  <2>9. c \in CallRecord /\ c.kind = "answer" /\ c.at = "start" /\ c.dev = call[k].dev /\ c.out = out
    <3>1. out \in Outs
      BY <2>8 DEF Outs
    <3> HIDE DEF out
    <3>2. c \in CallRecord
      BY <1>3, <3>1, NoCallOK DEF CallRecord
    <3> QED
      BY <3>2 DEF NoCall
  <2>10. call' = [call EXCEPT ![k] = c]
    BY <2>5
  <2> HIDE DEF c, out
  <2>11. call' \in [Ks -> CallRecord] /\ (\A q \in Ks \ {k} : call'[q] = call[q]) /\ call'[k] = c
    BY <1>1, <2>9, <2>10 DEF BLETypeOK
  <2>12. CallOK(k)'
    BY <1>3, <2>8, <2>9, <2>11 DEF CallOK
  <2>13. \A q \in Ks \ {k} : CallOK(q)'
    BY <1>1, <2>7, <2>11 DEF CallsOK, CallOK
  <2>14. BLETypeOK'
    BY <1>1, <1>2, <2>4, <2>6, <2>11 DEF BLETypeOK
  <2>15. ToldOK'
    BY <1>1, <1>2, <2>3, <2>6, OwedSame, ToldKept
  <2> QED
    BY <1>4, <2>6, <2>12, <2>13, <2>14, <2>15, CallsNow DEF BLEIInv
<1>6. CASE call[k].out.typ # "request"
  <2>1. reply' = [reply EXCEPT ![call[k].dev] = call[k].out] /\ CallEnds(k) /\ obj' = obj
    BY <1>6 DEF Return
  <2>2. call[k].out \in Answers
    BY <1>3, <1>6
  <2>3. call' \in [Ks -> CallRecord] /\ (\A q \in Ks \ {k} : call'[q] = call[q]) /\ call'[k] = NoCall
    BY <1>1, <2>1, NoCallOK DEF BLETypeOK, CallEnds
  <2>4. CallOK(k)'
    BY <2>3 DEF CallOK, NoCall
  <2>5. CallsOK'
    BY <1>1, <2>1, <2>3, <2>4, CallsUnchanged, CallsNow
  <2>6. reply' \in [Devices -> Answers]
    BY <1>1, <2>1, <2>2 DEF BLETypeOK
  <2>7. BLETypeOK'
    BY <1>1, <1>2, <2>1, <2>3, <2>6 DEF BLETypeOK
  <2> QED
    BY <1>1, <1>2, <1>4, <2>1, <2>5, <2>7, ObjsUnchanged, ToldUnchanged DEF BLEIInv
<1> QED
  BY <1>5, <1>6

LEMMA StepAnswerStarts ==
  ASSUME BLEIInv, NEW k \in Ks, AnswerStarts(k)
  PROVE  BLEIInv'
<1>1. BLETypeOK /\ CallsOK /\ InOrder /\ Tabled /\ TableOK /\ ScreenOK /\ PINsOK /\ ToldOK
  BY DEF BLEIInv
<1>2. /\ call[k].kind = "answer" /\ call[k].at = "start" /\ tableMu = 0
      /\ UNCHANGED <<obj, conns, pinConn, pins, own, tableMu, auth, client, reply, taken, lost>>
  BY DEF AnswerStarts
<1>3. CallOK(k) /\ call[k] \in CallRecord
  BY <1>1 DEF CallsOK, BLETypeOK
<1>4. PICK d \in Devices : d = call[k].dev
  BY <1>2, <1>3 DEF CallOK
<1> DEFINE admits == obj[conns[d]].named /\ ~obj[conns[d]].trusted
           out == [call[k].out EXCEPT !.admits = admits]
           c == IF conns[d] = 0 THEN NoCall
                ELSE [call[k] EXCEPT !.at = "answer", !.o = conns[d], !.out = out]
<1>5. call' = [call EXCEPT ![k] = c]
  <2>1. call' = IF conns[d] = 0 THEN [call EXCEPT ![k] = NoCall]
                ELSE [call EXCEPT ![k].at = "answer", ![k].o = conns[d], ![k].out.admits = admits]
    BY <1>2, <1>4 DEF AnswerStarts, CallEnds
  <2>2. [call EXCEPT ![k].at = "answer", ![k].o = conns[d], ![k].out.admits = admits]
        = [call EXCEPT ![k] = [call[k] EXCEPT !.at = "answer", !.o = conns[d], !.out = out]]
    <3> HIDE DEF admits
    <3> QED
      BY <1>1, <1>3 DEF BLETypeOK, CallRecord
  <2> HIDE DEF admits, out
  <2> QED
    BY <2>1, <2>2
<1>6. c \in CallRecord
  <2>1. "answer" \in BLEPlaces /\ conns[d] \in 0 .. MaxObjs
    BY <1>1 DEF BLEPlaces, BLETypeOK
  <2>2. out \in Decisions
    BY <1>2, <1>3 DEF CallOK, Decisions
  <2>3. out \in Outs
    BY <2>2 DEF Outs
  <2> HIDE DEF out
  <2> QED
    BY <1>3, <2>1, <2>3, NoCallOK DEF CallRecord
<1>7. conns[d] # 0 => /\ c.kind = "answer" /\ c.at = "answer" /\ c.o = conns[d] /\ c.dev = d /\ c.out \in Decisions
                      /\ conns[d] \in Objs /\ obj[conns[d]].dev = d
  <2>1. conns[d] # 0 => c.kind = "answer" /\ c.at = "answer" /\ c.o = conns[d] /\ c.dev = d /\ c.out \in Decisions
    <3>1. out \in Decisions
      BY <1>2, <1>3 DEF CallOK, Decisions
    <3> HIDE DEF out
    <3> QED
      BY <1>2, <1>3, <1>4, <3>1 DEF CallRecord
  <2>2. conns[d] # 0 => conns[d] \in Objs /\ obj[conns[d]].dev = d
    BY <1>1, Bounds DEF BLETypeOK, Tabled, Objs
  <2> QED
    BY <2>1, <2>2
<1>8. conns[d] = 0 => c = NoCall
  OBVIOUS
<1> HIDE DEF c
<1>9. call' \in [Ks -> CallRecord] /\ (\A q \in Ks \ {k} : call'[q] = call[q]) /\ call'[k] = c
  BY <1>1, <1>5, <1>6 DEF BLETypeOK
<1>10. CallOK(k)'
  <2>1. CASE conns[d] = 0
    BY <1>8, <1>9, <2>1 DEF CallOK, NoCall
  <2>2. CASE conns[d] # 0
    BY <1>2, <1>3, <1>7, <1>9, <2>2 DEF CallOK
  <2> QED
    BY <2>1, <2>2
<1>11. CallsOK'
  BY <1>1, <1>2, <1>9, <1>10, CallsUnchanged, CallsNow
<1>12. BLETypeOK' /\ TableOK'
  BY <1>1, <1>2, <1>9 DEF BLETypeOK, TableOK
<1> QED
  BY <1>1, <1>2, <1>11, <1>12, ObjsUnchanged, ToldUnchanged DEF BLEIInv

\* One more told, for one key more accepted.
LEMMA OneMoreTold ==
  ASSUME BLETypeOK, ToldOK, NEW o \in Objs, OnlyOn(o), NEW d \in Devices, obj[o].dev = d,
         obj[o].stage = "authenticated", obj'[o].stage = "done", obj'[o].outcome = "responder",
         auth' = auth \cup {[on |-> Self, of |-> d]}, taken' = taken
  PROVE  ToldOK'
<1>1. \A q \in Objs : obj'[q].dev = obj[q].dev /\ (q # o => obj'[q].stage = obj[q].stage /\ obj'[q].outcome = obj[q].outcome)
  BY DEF OnlyOn, Kept
<1>2. ASSUME NEW e \in Devices PROVE taken'[e] + Owed(e)' <= Cardinality(Told(e)')
  <2>1. taken[e] + Owed(e) <= Cardinality(Told(e)) /\ taken[e] \in Nat /\ Owed(e) \in {0, 1} /\ Owed(e)' \in {0, 1}
    BY DEF ToldOK, BLETypeOK, Owed
  <2>2. IsFiniteSet(Told(e))
    <3>1. IsFiniteSet(Objs) /\ Told(e) \in SUBSET Objs
      BY FS_Interval, Bounds DEF Objs, Told
    <3> QED
      BY <3>1, FS_Subset
  <2>3. CASE e = d
    <3>1. Told(e)' = Told(e) \cup {o}
      BY <1>1, <2>3 DEF Told
    <3>2. o \notin Told(e)
      BY DEF Told
    <3>3. Cardinality(Told(e)') = Cardinality(Told(e)) + 1 /\ Cardinality(Told(e)) \in Nat
      BY <2>2, <3>1, <3>2, FS_AddElement, FS_CardinalityType
    <3> QED
      BY <2>1, <3>3
  <2>4. CASE e # d
    <3>1. Told(e)' = Told(e)
      BY <1>1, <2>4 DEF Told
    <3>2. Owed(e)' = Owed(e)
      <4>1. [on |-> Self, of |-> e] # [on |-> Self, of |-> d]
        BY <2>4
      <4> QED
        BY <4>1 DEF Owed
    <3> QED
      BY <2>1, <3>1, <3>2
  <2> QED
    BY <2>3, <2>4
<1> QED
  BY <1>2 DEF ToldOK

LEMMA StepAnswer ==
  ASSUME BLEIInv, NEW k \in Ks, Answer(k)
  PROVE  BLEIInv'
<1>1. BLETypeOK /\ CallsOK /\ InOrder /\ Tabled /\ TableOK /\ ScreenOK /\ PINsOK /\ ToldOK
  BY DEF BLEIInv
<1>2. /\ call[k].kind = "answer" /\ call[k].at = "answer" /\ CallEnds(k)
      /\ UNCHANGED <<conns, pinConn, pins, own, tableMu, client, taken, lost>>
  BY DEF Answer
<1>3. CallOK(k) /\ call[k] \in CallRecord
  BY <1>1 DEF CallsOK, BLETypeOK
<1>4. PICK o \in Objs : o = call[k].o /\ obj[o].mu = 0 /\ call[k].dev \in Devices /\ obj[o].dev = call[k].dev /\ call[k].out \in Decisions
  BY <1>2, <1>3 DEF CallOK, Answer
<1>5. call' \in [Ks -> CallRecord] /\ (\A q \in Ks \ {k} : call'[q] = call[q]) /\ call'[k] = NoCall
  BY <1>1, <1>2, NoCallOK DEF BLETypeOK, CallEnds
<1>6. CallOK(k)'
  BY <1>5 DEF CallOK, NoCall
<1>7. TableOK'
  BY <1>1, <1>2, <1>5, IsDropping, TableKept
<1>8. CASE obj[o].stage = "authenticated"
  <2> DEFINE w == call[k].out.outcome
             s == IF w = "initiator" THEN "await" ELSE "done"
             r == [obj[o] EXCEPT !.stage = s, !.outcome = w]
             d == call[k].dev
  <2>1. w \in BLEOutcomes /\ s \in BLEStages /\ s \in {"await", "done"} /\ obj[o] \in ObjRecord
    BY <1>1, <1>4, MadeObjs DEF Decisions, BLEStages
  <2>2. /\ obj' = [obj EXCEPT ![o] = r]
        /\ auth' = IF w = "responder" /\ call[k].out.admits THEN auth \cup {[on |-> Self, of |-> d]} ELSE auth
        /\ reply' = [reply EXCEPT ![d] = [typ |-> "reply", key |-> obj[o].key, outcome |-> w]]
    BY <1>4, <1>8 DEF Answer
  <2>3. w = "responder" => s = "done"
    OBVIOUS
  <2> HIDE DEF w, s
  <2>4. r \in ObjRecord
    BY <2>1 DEF ObjRecord
  <2>5. r.dev = obj[o].dev /\ r.stage = s /\ r.pin = obj[o].pin /\ r.attempt = obj[o].attempt /\ r.outcome = w
    BY <2>1 DEF ObjRecord
  <2>6. [typ |-> "reply", key |-> obj[o].key, outcome |-> w] \in Answers
    BY <2>1 DEF Answers, Replies, ObjRecord
  <2> HIDE DEF r
  <2>7. obj' \in [Objs -> ObjRecord] /\ obj'[o] = r /\ \A q \in Objs \ {o} : obj'[q] = obj[q]
    BY <1>1, <2>2, <2>4, SetObj
  <2>8. OnlyOn(o)
    BY <2>5, <2>7, Same DEF OnlyOn
  <2>9. o \in ObjsMade /\ obj'[o].stage \notin {"shown", "answered"}
    BY <1>4, <2>1, <2>5, <2>7, Bounds DEF ObjsMade
  <2>10. InOrder' /\ Tabled'
    BY <1>1, <1>2, <1>8, <2>8, <2>9, TabledKept
  <2>11. CallsOK'
    <3>1. \A q \in Ks \ {k} : call[q].at \in {"locked", "own"} => call[q].o # o
      BY <1>1, <1>4, LockedOut
    <3>2. \A q \in Ks \ {k} : CallOK(q)'
      BY <1>1, <1>5, <2>8, <3>1, CallsKept
    <3> QED
      BY <1>6, <3>2, CallsNow
  <2>12. ScreenOK' /\ PINsOK'
    <3>1. ~obj'[o].attempt /\ obj'[o].pin \in 0 .. Len(pins') /\ ~OnScreen(o)'
      BY <1>1, <1>2, <1>8, <2>5, <2>7, <2>9 DEF ScreenOK, OnScreen
    <3>2. \A q \in Objs \ {o} : OnScreen(q)' => pinConn' = q
      BY <1>1, <1>2, <2>8, ScreenStays
    <3> QED
      BY <1>1, <1>2, <2>7, <2>8, <2>9, <3>1, <3>2, PINsUnchanged, ScreenKept
  <2>13. ToldOK'
    <3>1. CASE auth' = auth
      BY <1>1, <1>2, <1>8, <2>8, <3>1, OwedSame, ToldKept
    <3>2. CASE w = "responder" /\ auth' = auth \cup {[on |-> Self, of |-> d]}
      BY <1>1, <1>2, <1>4, <1>8, <2>3, <2>5, <2>7, <2>8, <3>2, OneMoreTold
    <3> QED
      BY <2>2, <3>1, <3>2
  <2>14. auth' \subseteq [on : Devices \cup {Self}, of : Devices \cup {Self}]
    BY <1>1, <1>4, <2>2 DEF BLETypeOK
  <2>15. reply' \in [Devices -> Answers]
    BY <1>1, <2>2, <2>6 DEF BLETypeOK
  <2>16. BLETypeOK'
    BY <1>1, <1>2, <1>5, <2>7, <2>14, <2>15 DEF BLETypeOK
  <2> QED
    BY <1>7, <2>10, <2>11, <2>12, <2>13, <2>16 DEF BLEIInv
<1>9. CASE obj[o].stage # "authenticated"
  <2>1. UNCHANGED <<obj, auth, reply>>
    BY <1>4, <1>9 DEF Answer
  <2>2. CallsOK'
    BY <1>1, <1>5, <1>6, <2>1, CallsUnchanged, CallsNow
  <2>3. BLETypeOK'
    BY <1>1, <1>2, <1>5, <2>1 DEF BLETypeOK
  <2> QED
    BY <1>1, <1>2, <1>7, <2>1, <2>2, <2>3, ObjsUnchanged, ToldUnchanged DEF BLEIInv
<1> QED
  BY <1>8, <1>9

-----------------------------------------------------------------------------
(* The user, time and the networks.                                        *)

LEMMA StepEvict ==
  ASSUME BLEIInv, NEW d \in Devices, Evict(d)
  PROVE  BLEIInv'
<1>1. BLETypeOK /\ CallsOK /\ InOrder /\ Tabled /\ TableOK /\ ScreenOK /\ PINsOK /\ ToldOK
  BY DEF BLEIInv
<1>2. PICK o : o = conns[d] /\ o # 0 /\ Close(o) /\ conns' = [conns EXCEPT ![d] = 0]
  BY DEF Evict
<1>3. tableMu = 0 /\ (\A k \in Ks : call[k].dev # d) /\ UNCHANGED <<own, call, tableMu, auth, client, reply, taken, lost>>
  BY DEF Evict
<1>4. /\ obj' \in [Objs -> ObjRecord] /\ OnlyOn(o) /\ pins' \in Seq(PINRecord) /\ pinConn' \in 0 .. MaxObjs
      /\ obj'[o].stage = "closed" /\ obj'[o].outcome = obj[o].outcome
      /\ conns' \in [Devices -> 0 .. MaxObjs] /\ o \in Objs /\ obj[o].dev = d
      /\ InOrder' /\ Tabled' /\ ScreenOK' /\ PINsOK'
  BY <1>2, ConnEnds
<1>5. CallsOK'
  <2>1. 0 \notin Ks /\ \A q \in Ks \ {0} : call[q].at \in {"locked", "own"} => call[q].o # o
    <3>1. ASSUME NEW q \in Ks, call[q].at \in {"locked", "own"} PROVE call[q].o # o
      BY <1>1, <1>3, <1>4, <3>1, MessageAt
    <3> QED
      BY <3>1, Bounds DEF Ks
  <2>2. \A q \in Ks \ {0} : CallOK(q)'
    BY <1>1, <1>3, <1>4, <2>1, CallsKept
  <2> QED
    BY <2>1, <2>2, CallsNow
<1>6. BLETypeOK' /\ TableOK'
  BY <1>1, <1>3, <1>4 DEF BLETypeOK, TableOK
<1>7. ToldOK'
  BY <1>1, <1>3, <1>4, OwedSame, ToldKept
<1> QED
  BY <1>4, <1>5, <1>6, <1>7 DEF BLEIInv

\* A field that no other part looks at.
LEMMA StepField ==
  ASSUME BLEIInv, NEW o \in Objs, NEW r \in ObjRecord, obj' = [obj EXCEPT ![o] = r],
         r.dev = obj[o].dev, r.stage = obj[o].stage, r.pin = obj[o].pin, r.attempt = obj[o].attempt,
         r.outcome = obj[o].outcome, r.mu = obj[o].mu, obj[o].refused => r.refused,
         \A d \in Devices : Owed(d)' <= Owed(d), auth' \subseteq auth,
         UNCHANGED <<conns, pinConn, pins, own, call, tableMu, client, reply, taken, lost>>
  PROVE  BLEIInv'
<1>1. BLETypeOK /\ CallsOK /\ InOrder /\ Tabled /\ TableOK /\ ScreenOK /\ PINsOK /\ ToldOK
  BY DEF BLEIInv
<1>2. /\ obj' \in [Objs -> ObjRecord] /\ obj'[o] = r /\ OnlyOn(o) /\ \A q \in Objs \ {o} : obj'[q] = obj[q]
      /\ InOrder' /\ Tabled' /\ ScreenOK' /\ PINsOK'
  BY <1>1, FieldStep
<1>3. \A q \in Objs : obj'[q].dev = obj[q].dev /\ obj'[q].mu = obj[q].mu /\ obj'[q].stage = obj[q].stage
  BY <1>2
<1>4. CallsOK'
  BY <1>1, <1>3 DEF CallsOK, CallOK
<1>5. BLETypeOK' /\ TableOK'
  BY <1>1, <1>2 DEF BLETypeOK, TableOK, Dropping
<1>6. ToldOK'
  BY <1>1, <1>2, ToldKept
<1> QED
  BY <1>2, <1>4, <1>5, <1>6 DEF BLEIInv

LEMMA StepRefusePIN ==
  ASSUME BLEIInv, RefusePIN
  PROVE  BLEIInv'
<1>1. BLETypeOK /\ UNCHANGED <<conns, pinConn, pins, own, call, tableMu, auth, client, reply, taken, lost>>
  BY DEF BLEIInv, RefusePIN
<1>2. PICK o \in Objs : o = pinConn /\ obj' = [obj EXCEPT ![o] = [obj[o] EXCEPT !.refused = TRUE]]
  <2>1. pinConn \in Objs
    BY <1>1, Bounds DEF RefusePIN, BLETypeOK, Objs
  <2>2. obj' = [obj EXCEPT ![pinConn] = [obj[pinConn] EXCEPT !.refused = TRUE]]
    BY DEF RefusePIN
  <2> QED
    BY <2>1, <2>2
<1> DEFINE r == [obj[o] EXCEPT !.refused = TRUE]
<1>3. obj[o] \in ObjRecord
  BY <1>1, MadeObjs
<1>4. r \in ObjRecord
  BY <1>3 DEF ObjRecord
<1>5. /\ r.dev = obj[o].dev /\ r.stage = obj[o].stage /\ r.pin = obj[o].pin /\ r.attempt = obj[o].attempt
      /\ r.outcome = obj[o].outcome /\ r.mu = obj[o].mu /\ r.refused = TRUE
  BY <1>3 DEF ObjRecord
<1>6. obj' = [obj EXCEPT ![o] = r]
  BY <1>2
<1> HIDE DEF r
<1> QED
  BY <1>1, <1>4, <1>5, <1>6, OwedSame, StepField

LEMMA StepGrowsLate ==
  ASSUME BLEIInv, NEW o \in Objs, GrowsLate(o)
  PROVE  BLEIInv'
<1> DEFINE r == [obj[o] EXCEPT !.late = TRUE]
<1>1. BLETypeOK /\ UNCHANGED <<conns, pinConn, pins, own, call, tableMu, auth, client, reply, taken, lost>>
      /\ obj' = [obj EXCEPT ![o] = r]
  BY DEF BLEIInv, GrowsLate
<1>2. obj[o] \in ObjRecord
  BY <1>1, MadeObjs
<1>3. r \in ObjRecord
  BY <1>2 DEF ObjRecord
<1>4. /\ r.dev = obj[o].dev /\ r.stage = obj[o].stage /\ r.pin = obj[o].pin /\ r.attempt = obj[o].attempt
      /\ r.outcome = obj[o].outcome /\ r.mu = obj[o].mu /\ r.refused = obj[o].refused
  BY <1>2 DEF ObjRecord
<1> HIDE DEF r
<1> QED
  BY <1>1, <1>3, <1>4, OwedSame, StepField

LEMMA StepJoinTheirs ==
  ASSUME BLEIInv, NEW o \in Objs, JoinTheirs(o)
  PROVE  BLEIInv'
<1> DEFINE r == [obj[o] EXCEPT !.join = FALSE]
<1>1. BLETypeOK /\ UNCHANGED <<conns, pinConn, pins, own, call, tableMu, client, reply, taken, lost>>
      /\ obj' = [obj EXCEPT ![o] = r] /\ auth' \subseteq auth
  BY DEF BLEIInv, JoinTheirs, Take
<1>2. obj[o] \in ObjRecord
  BY <1>1, MadeObjs
<1>3. r \in ObjRecord
  BY <1>2 DEF ObjRecord
<1>4. /\ r.dev = obj[o].dev /\ r.stage = obj[o].stage /\ r.pin = obj[o].pin /\ r.attempt = obj[o].attempt
      /\ r.outcome = obj[o].outcome /\ r.mu = obj[o].mu /\ r.refused = obj[o].refused
  BY <1>2 DEF ObjRecord
<1>5. \A d \in Devices : Owed(d)' <= Owed(d)
  BY <1>1 DEF Owed
<1> HIDE DEF r
<1> QED
  BY <1>1, <1>3, <1>4, <1>5, StepField

LEMMA StepPINExpires ==
  ASSUME BLEIInv, PINExpires
  PROVE  BLEIInv'
<1>1. BLETypeOK /\ CallsOK /\ InOrder /\ Tabled /\ TableOK /\ ScreenOK /\ PINsOK /\ ToldOK
  BY DEF BLEIInv
<1>2. UNCHANGED <<obj, conns, pinConn, own, call, tableMu, auth, client, reply, taken, lost>>
  BY DEF PINExpires
<1>3. PICK p \in 1 .. Len(pins) : p = Current
  <2>1. Len(pins) # 0 /\ Len(pins) \in Nat
    BY <1>1, PINsAre DEF PINExpires, LivePIN, Current
  <2> QED
    BY <2>1 DEF Current
<1> DEFINE r == [pins[p] EXCEPT !.over = TRUE]
<1>4. pins[p] \in PINRecord /\ Len(pins) \in Nat
  BY <1>1, PINsAre
<1>5. r \in PINRecord /\ r.over = TRUE /\ r.paired = pins[p].paired
  BY <1>4 DEF PINRecord
<1>6. pins' = [pins EXCEPT ![p] = r]
  BY <1>3 DEF PINExpires
<1> HIDE DEF r
<1>7. pins' \in Seq(PINRecord) /\ Len(pins') = Len(pins) /\ pins'[p] = r /\ \A q \in (1 .. Len(pins)) \ {p} : pins'[q] = pins[q]
  BY <1>1, <1>5, <1>6, SetPIN
<1>8. DOMAIN pins = 1 .. Len(pins) /\ DOMAIN pins' = 1 .. Len(pins)
  BY <1>1, <1>7, PINsAre, LenProperties
<1>9. \A q \in 1 .. Len(pins) : pins'[q].paired = pins[q].paired /\ (pins[q].over => pins'[q].over)
  BY <1>5, <1>7
<1>10. PINsOK'
  BY <1>1, <1>8, <1>9 DEF PINsOK
<1>11. ScreenOK'
  <2>1. ASSUME NEW o \in Objs, obj[o].attempt, ~obj[o].refused PROVE pins'[obj[o].pin].paired = 0
    <3>1. obj[o].pin \in 1 .. Len(pins) /\ pins[obj[o].pin].paired = 0
      BY <1>1, <1>4, <2>1 DEF ScreenOK
    <3> QED
      BY <1>9, <3>1
  <2> QED
    BY <1>1, <1>2, <1>7, <2>1 DEF ScreenOK, OnScreen
<1>12. BLETypeOK' /\ TableOK' /\ CallsOK' /\ InOrder' /\ Tabled'
  BY <1>1, <1>2, <1>7 DEF BLETypeOK, TableOK, Dropping, CallsOK, CallOK, InOrder, Tabled, ObjsMade
<1> QED
  BY <1>1, <1>2, <1>10, <1>11, <1>12, ToldUnchanged DEF BLEIInv

-----------------------------------------------------------------------------
(* The other devices.                                                      *)

\* A call made for a device.
LEMMA NewCallKeeps ==
  ASSUME BLEIInv, UNCHANGED <<obj, conns, pinConn, pins, own, tableMu, auth, taken>>,
         client' \in [Devices -> ClientRecord], reply' \in [Devices -> Answers], lost' \in Nat,
         Free # {}, NEW c \in CallRecord, call' = [call EXCEPT ![Slot] = c],
         c.kind \in {"message", "close"}, c.at = "start", c.dev \in Devices, c.out = Nothing,
         c.kind = "message" => c.msg \in Messages
  PROVE  BLEIInv'
<1>1. BLETypeOK /\ CallsOK /\ InOrder /\ Tabled /\ TableOK /\ ScreenOK /\ PINsOK /\ ToldOK
  BY DEF BLEIInv
<1>2. PICK k \in Ks : k = Slot /\ call[k] = NoCall
  BY FreeSlot
<1>3. call' \in [Ks -> CallRecord] /\ (\A q \in Ks \ {k} : call'[q] = call[q]) /\ call'[k] = c
  BY <1>1, <1>2 DEF BLETypeOK
<1>4. CallOK(k)'
  BY <1>3 DEF CallOK, Answers
<1>5. CallsOK'
  BY <1>1, <1>3, <1>4, CallsUnchanged, CallsNow
<1>6. BLETypeOK'
  BY <1>1, <1>3 DEF BLETypeOK
<1>7. TableOK'
  <2>1. ~Dropping(k)
    BY <1>2 DEF Dropping, NoCall
  <2> QED
    BY <1>1, <1>3, <2>1, TableKept
<1> QED
  BY <1>1, <1>5, <1>6, <1>7, ObjsUnchanged, ToldUnchanged DEF BLEIInv

LEMMA WritesKeeps ==
  ASSUME BLEIInv, NEW d \in Devices, NEW m \in Messages, Writes(d, m), client' \in [Devices -> ClientRecord]
  PROVE  BLEIInv'
<1>1. BLETypeOK
  BY DEF BLEIInv
<1> DEFINE c == [NoCall EXCEPT !.kind = "message", !.dev = d, !.msg = m]
<1>2. c \in CallRecord
  BY NoCallOK DEF CallRecord
<1>3. c.kind = "message" /\ c.at = "start" /\ c.dev = d /\ c.out = Nothing /\ c.msg = m
  BY DEF NoCall
<1>4. /\ Free # {} /\ call' = [call EXCEPT ![Slot] = c] /\ reply' = [reply EXCEPT ![d] = Nothing]
      /\ UNCHANGED <<obj, conns, pinConn, pins, own, tableMu, auth, taken, lost>>
  BY DEF Writes
<1> HIDE DEF c
<1>5. reply' \in [Devices -> Answers] /\ lost' \in Nat
  BY <1>1, <1>4 DEF BLETypeOK, Answers
<1> QED
  BY <1>2, <1>3, <1>4, <1>5, NewCallKeeps

LEMMA ClientKeeps ==
  ASSUME BLEIInv, UNCHANGED <<obj, conns, pinConn, pins, own, call, tableMu>>,
         client' \in [Devices -> ClientRecord], reply' \in [Devices -> Answers], lost' \in Nat,
         auth' \subseteq [on : Devices \cup {Self}, of : Devices \cup {Self}], taken' \in [Devices -> Nat], ToldOK'
  PROVE  BLEIInv'
<1>1. BLETypeOK /\ CallsOK /\ InOrder /\ Tabled /\ TableOK /\ ScreenOK /\ PINsOK /\ ToldOK
  BY DEF BLEIInv
<1>2. BLETypeOK' /\ CallsOK' /\ TableOK'
  BY <1>1 DEF BLETypeOK, CallsOK, CallOK, TableOK, Dropping
<1> QED
  BY <1>1, <1>2, ObjsUnchanged DEF BLEIInv

LEMMA OnlyKeeps ==
  ASSUME BLEIInv, Only, client' \in [Devices -> ClientRecord]
  PROVE  BLEIInv'
<1>1. BLETypeOK /\ ToldOK
  BY DEF BLEIInv
<1>2. ToldOK'
  BY <1>1, ToldUnchanged DEF Only
<1> QED
  BY <1>1, <1>2, ClientKeeps DEF Only, BLETypeOK

LEMMA TypedReply ==
  ASSUME BLETypeOK, NEW d \in Devices
  PROVE  /\ Reads(d, "helloReply") => reply[d].r \in Nat \X Nat
         /\ Reads(d, "pinReady") => reply[d].r \in Nat \X Nat
         /\ Reads(d, "reply") /\ reply[d].key = client[d].key => reply[d].outcome \in BLEOutcomes
<1>1. reply[d] \in Answers
  BY DEF BLETypeOK
<1>2. CASE reply[d] \in {Nothing, Refuse}
  BY <1>2 DEF Reads, Nothing, Refuse
<1>3. CASE reply[d] \in Challenged
  BY <1>3 DEF Reads, Challenged
<1>4. CASE reply[d] \in Ready
  BY <1>4 DEF Reads, Ready
<1>5. CASE reply[d] \in Keyed
  BY <1>5 DEF Reads, Keyed
<1>6. CASE reply[d] \in Replies
  BY <1>6 DEF Reads, Replies
<1> QED
  BY <1>1, <1>2, <1>3, <1>4, <1>5, <1>6 DEF Answers

LEMMA SetClient ==
  ASSUME BLETypeOK, NEW d \in Devices, NEW r \in ClientRecord, client' = [client EXCEPT ![d] = r]
  PROVE  client' \in [Devices -> ClientRecord]
BY DEF BLETypeOK

LEMMA AtClient ==
  ASSUME BLETypeOK, NEW d \in Devices,
         NEW at \in {"known", "unknown", "wanted", "asked", "given", "done", "failed"}, At(d, at)
  PROVE  client' \in [Devices -> ClientRecord]
<1>1. client[d] \in ClientRecord
  BY DEF BLETypeOK
<1>2. [client[d] EXCEPT !.at = at] \in ClientRecord
  BY <1>1 DEF ClientRecord
<1>3. client' = [client EXCEPT ![d] = [client[d] EXCEPT !.at = at]]
  BY DEF At
<1> QED
  BY <1>2, <1>3, SetClient

LEMMA StepAsks ==
  ASSUME BLEIInv, NEW d \in Devices, Hello(d) \/ AskTrusted(d) \/ PINWanted(d) \/ TypePIN(d) \/ PINReply(d) \/ Network(d)
  PROVE  BLEIInv'
<1>1. BLETypeOK /\ client[d] \in ClientRecord /\ client[d].try \in Nat /\ client[d].r \in Nat \X Nat /\ client[d].key \in Keys
  BY DEF BLEIInv, BLETypeOK, ClientRecord
<1>2. <<d, client[d].try>> \in Challenges /\ client[d].try + 1 \in Nat /\ <<d, client[d].try + 1>> \in Challenges
  BY <1>1 DEF Challenges
<1>3. CASE Hello(d)
  <2> DEFINE r == [NewClient EXCEPT !.at = "hello", !.try = client[d].try + 1]
             m == [typ |-> "hello", i |-> <<d, client[d].try + 1>>]
  <2>1. r \in ClientRecord
    BY <1>2, NoCallOK DEF ClientRecord
  <2>2. m \in Messages
    BY <1>2 DEF Messages, HelloMsgs
  <2>3. client' = [client EXCEPT ![d] = r] /\ Writes(d, m)
    BY <1>3 DEF Hello
  <2> HIDE DEF r, m
  <2> QED
    BY <1>1, <2>1, <2>2, <2>3, SetClient, WritesKeeps
<1>4. CASE AskTrusted(d)
  <2> DEFINE key == Key(<<d, client[d].try>>, client[d].r, PairKey)
             c == [client[d] EXCEPT !.at = "asked", !.key = key]
  <2>1. key \in Keys
    BY <1>1, <1>2, SomeCodes, AKey
  <2>2. PICK r \in Requests : client' = [client EXCEPT ![d] = c] /\ Writes(d, [typ |-> "trusted", key |-> key, req |-> r])
    BY <1>4 DEF AskTrusted
  <2> HIDE DEF key
  <2>3. c \in ClientRecord
    BY <1>1, <2>1 DEF ClientRecord
  <2>4. [typ |-> "trusted", key |-> key, req |-> r] \in Messages
    BY <2>1 DEF Messages, KeyMsgs
  <2> HIDE DEF c
  <2> QED
    BY <1>1, <2>2, <2>3, <2>4, SetClient, WritesKeeps
<1>5. CASE PINWanted(d)
  <2>1. [typ |-> "pinWanted", i |-> <<d, client[d].try>>] \in Messages
    BY <1>2 DEF Messages, HelloMsgs
  <2>2. client' \in [Devices -> ClientRecord]
    BY <1>1, <1>5, AtClient DEF PINWanted
  <2> QED
    BY <1>5, <2>1, <2>2, WritesKeeps DEF PINWanted
<1>6. CASE TypePIN(d)
  <2>1. PICK code \in {WrongCode} \cup (IF pins = <<>> THEN {} ELSE {Code(Current)}) :
          /\ client' = [client EXCEPT ![d].at = "typed", ![d].key = Key(<<d, client[d].try>>, client[d].r, code)]
          /\ Writes(d, [typ |-> "pin", code |-> code])
    BY <1>6 DEF TypePIN
  <2>2. code \in Codes
    <3>1. CASE code = WrongCode
      BY <3>1, SomeCodes
    <3>2. CASE pins # <<>> /\ code = Code(Current)
      <4>1. Len(pins) \in Nat \ {0}
        BY <1>1, <3>2, EmptySeq DEF BLETypeOK
      <4>2. pins[Len(pins)] \in PINRecord
        BY <1>1, <4>1, PINsAre
      <4> QED
        BY <3>2, <4>1, <4>2 DEF Code, Current, Codes, PINRecord
    <3> QED
      BY <2>1, <3>1, <3>2
  <2> DEFINE key == Key(<<d, client[d].try>>, client[d].r, code)
             c == [client[d] EXCEPT !.at = "typed", !.key = key]
  <2>3. key \in Keys
    BY <1>1, <1>2, <2>2, AKey
  <2>4. client' = [client EXCEPT ![d] = c]
    BY <2>1
  <2> HIDE DEF key
  <2>5. c \in ClientRecord
    BY <1>1, <2>3 DEF ClientRecord
  <2>6. [typ |-> "pin", code |-> code] \in Messages
    BY <2>2 DEF Messages, PINMsgs
  <2> HIDE DEF c
  <2> QED
    BY <1>1, <2>1, <2>4, <2>5, <2>6, SetClient, WritesKeeps
<1>7. CASE PINReply(d)
  <2>1. PICK r \in Requests : Writes(d, [typ |-> "pinConfirm", key |-> client[d].key, req |-> r])
    BY <1>7 DEF PINReply
  <2>2. [typ |-> "pinConfirm", key |-> client[d].key, req |-> r] \in Messages
    BY <1>1 DEF Messages, KeyMsgs
  <2>3. client' \in [Devices -> ClientRecord]
    BY <1>1, <1>7, AtClient DEF PINReply
  <2> QED
    BY <2>1, <2>2, <2>3, WritesKeeps
<1>8. CASE Network(d)
  <2>1. [typ |-> "network", key |-> client[d].key] \in Messages
    BY <1>1 DEF Messages, NetworkMsgs
  <2>2. client' \in [Devices -> ClientRecord]
    BY <1>1, <1>8, AtClient DEF Network
  <2> QED
    BY <1>8, <2>1, <2>2, WritesKeeps DEF Network
<1> QED
  BY <1>3, <1>4, <1>5, <1>6, <1>7, <1>8

LEMMA StepReads ==
  ASSUME BLEIInv, NEW d \in Devices, Recognize(d) \/ PINReady(d) \/ Ack(d) \/ IsRefused(d)
  PROVE  BLEIInv'
<1>1. BLETypeOK /\ client[d] \in ClientRecord
  BY DEF BLEIInv, BLETypeOK
<1>2. CASE Recognize(d)
  <2>1. PICK known \in {"known", "unknown"} : client' = [client EXCEPT ![d] = [client[d] EXCEPT !.at = known, !.r = reply[d].r]]
    BY <1>2 DEF Recognize
  <2>2. reply[d].r \in Nat \X Nat
    BY <1>1, <1>2, TypedReply DEF Recognize
  <2>3. [client[d] EXCEPT !.at = known, !.r = reply[d].r] \in ClientRecord
    BY <1>1, <2>2 DEF ClientRecord
  <2> QED
    BY <1>1, <1>2, <2>1, <2>3, SetClient, OnlyKeeps DEF Recognize
<1>3. CASE PINReady(d)
  <2>1. client' = [client EXCEPT ![d] = [client[d] EXCEPT !.at = "ready", !.r = reply[d].r]]
    BY <1>3 DEF PINReady
  <2>2. reply[d].r \in Nat \X Nat
    BY <1>1, <1>3, TypedReply DEF PINReady
  <2>3. [client[d] EXCEPT !.at = "ready", !.r = reply[d].r] \in ClientRecord
    BY <1>1, <2>2 DEF ClientRecord
  <2> QED
    BY <1>1, <1>3, <2>1, <2>3, SetClient, OnlyKeeps DEF PINReady
<1>4. CASE Ack(d)
  BY <1>1, <1>4, AtClient, OnlyKeeps DEF Ack
<1>5. CASE IsRefused(d)
  BY <1>1, <1>5, AtClient, OnlyKeeps DEF IsRefused
<1> QED
  BY <1>2, <1>3, <1>4, <1>5

LEMMA StepReply ==
  ASSUME BLEIInv, NEW d \in Devices, Reply(d)
  PROVE  BLEIInv'
<1>1. BLETypeOK /\ client[d] \in ClientRecord /\ ToldOK
  BY DEF BLEIInv, BLETypeOK
<1> DEFINE w == reply[d].outcome
           at == CASE w = "responder" -> "join" [] w = "initiator" -> "create" [] OTHER -> "failed"
           r == [client[d] EXCEPT !.at = at, !.outcome = w]
<1>2. w \in BLEOutcomes
  BY <1>1, TypedReply DEF Reply
<1>3. /\ client' = [client EXCEPT ![d] = r]
      /\ auth' = IF w = "initiator" THEN auth \cup {[on |-> d, of |-> Self]} ELSE auth
      /\ UNCHANGED <<obj, conns, pinConn, pins, own, call, tableMu, reply, taken, lost>>
  BY DEF Reply
<1>4. at \in {"join", "create", "failed"}
  OBVIOUS
<1> HIDE DEF w, at
<1>5. r \in ClientRecord
  BY <1>1, <1>2, <1>4 DEF ClientRecord
<1> HIDE DEF r
<1>6. client' \in [Devices -> ClientRecord]
  BY <1>1, <1>3, <1>5, SetClient
<1>7. auth' \subseteq [on : Devices \cup {Self}, of : Devices \cup {Self}]
  BY <1>1, <1>3 DEF BLETypeOK
<1>8. ToldOK'
  <2>1. \A e \in Devices : [on |-> Self, of |-> e] # [on |-> d, of |-> Self]
    BY Bounds
  <2>2. \A e \in Devices : Owed(e)' = Owed(e)
    BY <1>3, <2>1 DEF Owed
  <2>3. \A e \in Devices : Told(e)' = Told(e)
    BY <1>3 DEF Told
  <2> QED
    BY <1>1, <1>3, <2>2, <2>3 DEF ToldOK
<1> QED
  BY <1>1, <1>3, <1>6, <1>7, <1>8, ClientKeeps DEF BLETypeOK

LEMMA StepLinkLost ==
  ASSUME BLEIInv, NEW d \in Devices, LinkLost(d)
  PROVE  BLEIInv'
<1>1. BLETypeOK /\ ToldOK
  BY DEF BLEIInv
<1>2. /\ client' \in [Devices -> ClientRecord]
      /\ UNCHANGED <<obj, conns, pinConn, pins, own, tableMu, auth, taken>>
  BY <1>1, AtClient DEF LinkLost
<1>3. reply' \in [Devices -> Answers] /\ lost' \in Nat
  BY <1>1 DEF LinkLost, BLETypeOK, Answers
<1> DEFINE c == [NoCall EXCEPT !.kind = "close", !.dev = d]
<1>4. CASE Free # {} /\ call' = [call EXCEPT ![Slot] = c]
  <2>1. c \in CallRecord
    BY NoCallOK DEF CallRecord
  <2>2. c.kind = "close" /\ c.at = "start" /\ c.dev = d /\ c.out = Nothing
    BY DEF NoCall
  <2> HIDE DEF c
  <2> QED
    BY <1>2, <1>3, <1>4, <2>1, <2>2, NewCallKeeps
<1>5. CASE call' = call
  <2>1. ToldOK'
    BY <1>1, <1>2, ToldUnchanged
  <2> QED
    BY <1>1, <1>2, <1>3, <1>5, <2>1, ClientKeeps DEF BLETypeOK
<1> QED
  BY <1>4, <1>5 DEF LinkLost

\* The key is spent.
LEMMA StepJoin ==
  ASSUME BLEIInv, NEW d \in Devices, Join(d)
  PROVE  BLEIInv'
<1>1. BLETypeOK /\ ToldOK
  BY DEF BLEIInv
<1>2. /\ [on |-> Self, of |-> d] \in auth /\ auth' = auth \ {[on |-> Self, of |-> d]}
      /\ taken' = [taken EXCEPT ![d] = @ + 1]
      /\ UNCHANGED <<obj, conns, pinConn, pins, own, call, tableMu, client, reply, lost>>
  BY DEF Join, Take
<1>3. taken' \in [Devices -> Nat] /\ taken'[d] = taken[d] + 1 /\ \A e \in Devices \ {d} : taken'[e] = taken[e]
  BY <1>1, <1>2 DEF BLETypeOK
<1>4. ToldOK'
  <2>1. Owed(d) = 1 /\ Owed(d)' = 0
    BY <1>2 DEF Owed
  <2>2. ASSUME NEW e \in Devices \ {d} PROVE Owed(e)' = Owed(e)
    <3>1. [on |-> Self, of |-> e] # [on |-> Self, of |-> d]
      OBVIOUS
    <3> QED
      BY <1>2, <3>1 DEF Owed
  <2>3. \A e \in Devices : Told(e)' = Told(e) /\ taken[e] \in Nat
    BY <1>1, <1>2 DEF Told, BLETypeOK
  <2>4. ASSUME NEW e \in Devices PROVE taken'[e] + Owed(e)' = taken[e] + Owed(e)
    BY <1>3, <2>1, <2>2, <2>3
  <2> QED
    BY <1>1, <2>3, <2>4 DEF ToldOK
<1> QED
  BY <1>1, <1>2, <1>3, <1>4, ClientKeeps DEF BLETypeOK

-----------------------------------------------------------------------------
(* The theorems of BLE.                                                    *)

LEMMA BLEStarts ==
  ASSUME BLEInit
  PROVE  BLEIInv
<1>1. 0 \in 0 .. MaxObjs /\ 0 \in 0 .. Slots /\ Nothing \in Answers
  BY Bounds DEF Answers
<1>2. <<>> \in Seq(PINRecord) /\ Len(<<>>) = 0
  BY EmptySeq
<1>3. BLETypeOK
  BY <1>1, <1>2, NoCallOK DEF BLEInit, BLETypeOK
<1>4. ObjsMade = {} /\ \A o \in Objs : obj[o] = NewObj
  BY DEF BLEInit, ObjsMade, NewObj
<1>5. InOrder
  <2>1. ObjsMade = 1 .. 0
    BY <1>4
  <2> QED
    BY <1>1, <2>1 DEF InOrder
<1>6. Tabled /\ CallsOK /\ TableOK
  BY <1>4 DEF BLEInit, Tabled, CallsOK, CallOK, TableOK, NoCall, NewObj
<1>7. ScreenOK
  BY <1>2, <1>4 DEF BLEInit, ScreenOK, OnScreen, NewObj
<1>8. PINsOK
  <2>1. \A p \in DOMAIN pins : FALSE
    BY <1>2, <1>3, PINsAre DEF BLEInit
  <2> QED
    BY <2>1 DEF PINsOK
<1>9. ToldOK
  <2>1. ASSUME NEW d \in Devices PROVE taken[d] + Owed(d) <= Cardinality(Told(d))
    <3>1. taken[d] = 0 /\ Owed(d) = 0
      BY DEF BLEInit, Owed
    <3>2. Told(d) = {}
      BY <1>4 DEF Told, NewObj
    <3>3. Cardinality(Told(d)) = 0
      BY <3>2, FS_EmptySet
    <3> QED
      BY <3>1, <3>3
  <2> QED
    BY <2>1 DEF ToldOK
<1> QED
  BY <1>3, <1>5, <1>6, <1>7, <1>8, <1>9 DEF BLEIInv

LEMMA BLEStays ==
  ASSUME BLEIInv, UNCHANGED bleVars
  PROVE  BLEIInv'
<1>1. BLETypeOK /\ CallsOK /\ InOrder /\ Tabled /\ TableOK /\ ScreenOK /\ PINsOK /\ ToldOK
  BY DEF BLEIInv
<1>2. ToldOK'
  BY <1>1, ToldUnchanged DEF bleVars
<1> QED
  BY <1>1, <1>2, ClientKeeps DEF bleVars, BLETypeOK

LEMMA BLESteps ==
  ASSUME BLEIInv, [BLENext]_bleVars
  PROVE  BLEIInv'
<1>1. CASE UNCHANGED bleVars
  BY <1>1, BLEStays
<1>2. CASE PINExpires \/ RefusePIN
  BY <1>2, StepPINExpires, StepRefusePIN
<1>3. ASSUME NEW k \in Ks, Calls(k) PROVE BLEIInv'
  BY <1>3, StepMessage, StepLock, StepReceive, StepOwnBands, StepDrop, StepDropped, StepReturn, StepAnswerStarts, StepAnswer
     DEF Calls
<1>4. ASSUME NEW d \in Devices, Touches(d) PROVE BLEIInv'
  BY <1>4, StepAsks, StepReads, StepReply, StepLinkLost, StepJoin, StepEvict DEF Touches
<1>5. ASSUME NEW o \in Objs, GrowsLate(o) \/ JoinTheirs(o) PROVE BLEIInv'
  BY <1>5, StepGrowsLate, StepJoinTheirs
<1> QED
  BY <1>1, <1>2, <1>3, <1>4, <1>5 DEF BLENext

\* In every reachable state: the table names the connections that serve, a call
\* holds the lock it says, one request is on screen, and who is let in was told.
THEOREM BLEIInvHolds == BLESpec => []BLEIInv
<1>1. BLEInit => BLEIInv
  BY BLEStarts
<1>2. BLEIInv /\ [BLENext]_bleVars => BLEIInv'
  BY BLESteps
<1> QED
  BY <1>1, <1>2, PTL DEF BLESpec

\* An attempt on the PIN that was begun belongs to a connection of the table
\* (pkg/api's bleState), for every number of devices, connections and calls:
\* ending that connection counts it, whatever else runs meanwhile.
THEOREM AttemptsHeldHolds == BLESpec => []AttemptsAreHeld
<1>1. BLEIInv => AttemptsAreHeld
  <2>1. ASSUME BLEIInv, NEW o \in Objs, obj[o].attempt PROVE o \in {conns[d] : d \in Devices}
    <3>1. BLETypeOK /\ Tabled /\ ScreenOK
      BY <2>1 DEF BLEIInv
    <3>2. obj[o].stage = "answered"
      BY <2>1, <3>1 DEF ScreenOK
    <3>3. o \in ObjsMade
      BY <3>1, <3>2 DEF Tabled
    <3>4. conns[obj[o].dev] = o /\ obj[o].dev \in Devices
      BY <3>1, <3>2, <3>3, MadeObjs DEF Tabled
    <3> QED
      BY <3>4
  <2> QED
    BY <2>1 DEF AttemptsAreHeld
<1> QED
  BY <1>1, BLEIInvHolds, PTL

\* A PIN drawn on demand pairs one device (BLEConn.pinConfirm), however many
\* had its request on screen, one after the other.
THEOREM OnePeerHolds == BLESpec => []OnePeerPerPIN
<1>1. BLEIInv => OnePeerPerPIN
  BY DEF BLEIInv, PINsOK, OnePeerPerPIN
<1> QED
  BY <1>1, BLEIInvHolds, PTL

\* A key is taken once (BLEAuthenticated.Take), by a device that BLE told to come:
\* never more often than it was told.
THEOREM AcceptedHolds == BLESpec => []AcceptedWereTold
<1>1. BLEIInv => AcceptedWereTold
  <2>1. ASSUME BLEIInv, NEW d \in Devices PROVE taken[d] <= Cardinality(Told(d))
    <3>1. BLETypeOK /\ ToldOK
      BY <2>1 DEF BLEIInv
    <3>2. taken[d] + Owed(d) <= Cardinality(Told(d)) /\ taken[d] \in Nat /\ Owed(d) \in {0, 1}
      BY <3>1 DEF ToldOK, BLETypeOK, Owed
    <3>3. Cardinality(Told(d)) \in Nat
      <4>1. IsFiniteSet(Objs) /\ Told(d) \in SUBSET Objs
        BY FS_Interval, Bounds DEF Objs, Told
      <4> QED
        BY <4>1, FS_Subset, FS_CardinalityType
    <3> QED
      BY <3>2, <3>3
  <2> QED
    BY <2>1 DEF AcceptedWereTold, Told
<1> QED
  BY <1>1, BLEIInvHolds, PTL

-----------------------------------------------------------------------------
(* Pairing by PIN.                                                         *)

USE BoundsAssumption, NamesAssumption

Most == 3 * MaxSeries

\* The attempts begun on the code that is drawn are in flight, failed or paired.
Counted(r, k) ==
  /\ k + r.failed + r.pairings = r.reserved
  /\ r.reserved <= Attempts
  /\ r.paired <=> r.pairings > 0
  /\ r.timer # "none" /\ ~r.closed => k = 0 /\ ~r.valid

\* The codes drawn, and the guesses tested on them.
Drawing(r) ==
  /\ r.drawn = 0 => r.tested = 0 /\ r.reserved = 0 /\ ~r.valid /\ r.timer = "none"
  /\ r.drawn > 0 => r.tested <= Attempts * (r.drawn - 1) + r.reserved
  /\ r.drawn <= Most
  /\ r.drawn > 0 /\ ~r.closed /\ ~r.paired =>
       /\ r.destroyed < Most
       /\ r.drawn = IF r.timer = "none" THEN r.destroyed + 1 ELSE r.destroyed

Good(r, k) == r \in PinRecord /\ k \in Nat /\ Counted(r, k) /\ Drawing(r)

-----------------------------------------------------------------------------
(* The operations of a PIN.                                                *)

\* What the code's last attempts leave for the next one: one more series of
\* Attempts guesses.
LEMMA OneMoreCode ==
  ASSUME NEW n \in Nat, n > 0
  PROVE  Attempts * (n - 1) + Attempts = Attempts * n /\ Attempts * n \in Nat
OBVIOUS

LEMMA GoodMade ==
  ASSUME NEW r, NEW k, Good(r, k), r.drawn = 0
  PROVE  Good(Made, k) /\ Made.shows = {}
<1>1. r.reserved = 0 /\ k = 0
  BY DEF Good, Counted, Drawing, PinRecord
<1>2. Made \in PinRecord /\ Made.shows = {}
  <2>1. Unmade \in PinRecord /\ Unmade.shows = {}
    BY DEF Unmade, PinRecord
  <2> QED
    BY <2>1 DEF Made, PinRecord
<1> QED
  BY <1>1, <1>2 DEF Good, Counted, Drawing, Made, Unmade, Most

LEMMA GoodBegun ==
  ASSUME NEW r, NEW k, Good(r, k), MayBegin(r)
  PROVE  Good(Begun(r), k + 1) /\ Begun(r).shows = r.shows
<1>0. r \in PinRecord /\ r.reserved + 1 \in Nat /\ r.tested + 1 \in Nat
  BY DEF Good, PinRecord
<1>1. Begun(r) \in PinRecord /\ Begun(r).shows = r.shows
  BY <1>0 DEF Begun, PinRecord
<1>2. Counted(Begun(r), k + 1)
  BY DEF Good, Counted, Begun, MayBegin, PinRecord
<1>3. Drawing(Begun(r))
  BY DEF Good, Drawing, Begun, MayBegin, PinRecord, Most
<1> QED
  BY <1>1, <1>2, <1>3 DEF Good

LEMMA GoodUsed ==
  ASSUME NEW r, NEW k, Good(r, k), k > 0
  PROVE  Good(Used(r), k - 1) /\ Used(r).shows = r.shows
<1>0. r \in PinRecord /\ r.pairings + 1 \in Nat
  BY DEF Good, PinRecord
<1>1. Used(r) \in PinRecord /\ Used(r).shows = r.shows
  BY <1>0 DEF Used, PinRecord
<1>2. Counted(Used(r), k - 1)
  BY DEF Good, Counted, Used, PinRecord
<1>3. Drawing(Used(r))
  BY DEF Good, Drawing, Used, PinRecord, Most
<1> QED
  BY <1>1, <1>2, <1>3 DEF Good

LEMMA GoodClosed ==
  ASSUME NEW r, NEW k, Good(r, k)
  PROVE  Good(Closed(r), k) /\ Closed(r).shows = r.shows
<1>1. Closed(r) \in PinRecord /\ Closed(r).shows = r.shows
  BY DEF Good, Closed, PinRecord
<1>2. Counted(Closed(r), k) /\ Drawing(Closed(r))
  BY DEF Good, Counted, Drawing, Closed, PinRecord
<1> QED
  BY <1>1, <1>2 DEF Good

LEMMA GoodExpired ==
  ASSUME NEW r, NEW k, Good(r, k)
  PROVE  Good([r EXCEPT !.expired = TRUE], k)
BY DEF Good, Counted, Drawing, PinRecord

LEMMA GoodFired ==
  ASSUME NEW r, NEW k, Good(r, k), r.timer = "set"
  PROVE  Good([r EXCEPT !.timer = "fired"], k)
BY DEF Good, Counted, Drawing, PinRecord

LEMMA GoodShown ==
  ASSUME NEW r, NEW k, Good(r, k), NEW s \in r.shows
  PROVE  Good(Shown(r, s), k) /\ Shown(r, s).shows = r.shows \ {s}
<1>1. s.n \in Nat /\ s.code \in Nat
  BY DEF Good, PinRecord
<1>2. Shown(r, s) \in PinRecord /\ Shown(r, s).shows = r.shows \ {s}
  BY <1>1 DEF Good, Shown, PinRecord
<1>3. Counted(Shown(r, s), k) /\ Drawing(Shown(r, s))
  BY DEF Good, Counted, Drawing, Shown, PinRecord
<1> QED
  BY <1>2, <1>3 DEF Good

\* A change to show, made by x, and the shows there were.
Adds(r, q, x) == /\ q.changes = r.changes + 1
                 /\ \E s : s.by = x /\ q.shows = r.shows \cup {s}

LEMMA GoodToShow ==
  ASSUME NEW r, NEW k, Good(r, k), NEW code \in Nat, NEW x \in Conns \cup {Timer}
  PROVE  Good(ToShow(r, code, x), k) /\ Adds(r, ToShow(r, code, x), x)
<1> DEFINE s == [n |-> r.changes + 1, code |-> code, by |-> x]
           q == ToShow(r, code, x)
<1>1. r \in PinRecord /\ r.changes + 1 \in Nat
  BY DEF Good, PinRecord
<1>2. s \in [n : Nat, code : Nat, by : Conns \cup {Timer}] /\ s.by = x
  BY <1>1
<1>3. r.shows \cup {s} \in SUBSET [n : Nat, code : Nat, by : Conns \cup {Timer}]
  BY <1>1, <1>2 DEF PinRecord
<1>4. q \in PinRecord
  BY <1>1, <1>3 DEF ToShow, PinRecord
<1>5. Adds(r, q, x)
  BY <1>1, <1>2 DEF Adds, ToShow, PinRecord
<1>6. Counted(q, k) /\ Drawing(q)
  BY <1>1 DEF Good, Counted, Drawing, ToShow, PinRecord
<1> QED
  BY <1>4, <1>5, <1>6 DEF Good

LEMMA NotAWholeSeries ==
  ASSUME NEW n \in Nat, n <= Most, n % PinDestroyedIn # 0
  PROVE  n < Most
<1>1. (3 * MaxSeries) % 3 = 0
  OBVIOUS
<1> QED
  BY <1>1 DEF Most, PinDestroyedIn

\* A code is drawn once the attempts on the last one have all failed.
LEMMA GoodDrawn ==
  ASSUME NEW r, NEW q, r \in PinRecord, q \in PinRecord, ~r.closed, ~r.paired, r.pairings = 0, r.drawn > 0,
         r.drawn = r.destroyed, r.destroyed < Most, r.tested <= Attempts * r.drawn, r.timer = "none",
         q = Drawn(r)
  PROVE  Good(q, 0) /\ q.shows = r.shows /\ q.changes = r.changes /\ q.drawn = r.drawn + 1
<1>1. /\ q.drawn = r.drawn + 1 /\ q.reserved = 0 /\ q.failed = 0 /\ q.pairings = 0 /\ q.valid
      /\ q.tested = r.tested /\ ~q.closed /\ ~q.paired /\ q.timer = "none" /\ q.destroyed = r.destroyed
      /\ q.shows = r.shows /\ q.changes = r.changes
  BY DEF Drawn, PinRecord
<1>2. Counted(q, 0)
  BY <1>1 DEF Counted
<1>3. Drawing(q)
  BY <1>1 DEF Drawing, PinRecord, Most
<1> QED
  BY <1>1, <1>2, <1>3 DEF Good

LEMMA DrawnType ==
  ASSUME NEW r \in PinRecord
  PROVE  Drawn(r) \in PinRecord
<1>1. r.drawn + 1 \in Nat
  BY DEF PinRecord
<1> QED
  BY <1>1 DEF Drawn, PinRecord

LEMMA GoodRedrawn ==
  ASSUME NEW r, NEW k, Good(r, k), r.timer = "fired"
  PROVE  /\ Good(Redrawn(r), k)
         /\ Redrawn(r).shows = r.shows \/ Adds(r, Redrawn(r), Timer)
<1> DEFINE q == [r EXCEPT !.timer = "none"]
<1>1. q \in PinRecord /\ q.shows = r.shows /\ q.changes = r.changes /\ r.drawn \in Nat /\ r.drawn > 0
  BY DEF Good, Drawing, PinRecord
<1>2. CASE r.closed \/ r.paired
  <2>1. Redrawn(r) = q
    BY <1>2 DEF Redrawn
  <2>2. Counted(q, k) /\ Drawing(q)
    BY <1>2 DEF Good, Counted, Drawing, PinRecord
  <2> QED
    BY <1>1, <2>1, <2>2 DEF Good
<1>3. CASE ~r.closed /\ ~r.paired
  <2>1. Redrawn(r) = ToShow(Drawn(q), r.drawn + 1, Timer)
    BY <1>3 DEF Redrawn
  <2>2. k = 0 /\ r.pairings = 0 /\ r.reserved <= Attempts /\ r.drawn = r.destroyed /\ r.destroyed < Most
    BY <1>1, <1>3 DEF Good, Counted, Drawing, PinRecord
  <2>3. r.tested <= Attempts * r.drawn
    BY <1>1, <2>2, OneMoreCode DEF Good, Drawing, PinRecord
  <2>4. ~q.closed /\ ~q.paired /\ q.pairings = 0 /\ q.drawn = r.drawn /\ q.destroyed = r.destroyed /\ q.tested = r.tested /\ q.timer = "none"
    BY <1>3, <2>2 DEF Good, PinRecord
  <2>5. Good(Drawn(q), 0) /\ Drawn(q).shows = r.shows /\ Drawn(q).changes = r.changes
    BY <1>1, <2>2, <2>3, <2>4, GoodDrawn, DrawnType
  <2> HIDE DEF q
  <2>6. r.drawn + 1 \in Nat /\ Timer \in Conns \cup {Timer}
    BY <1>1
  <2>7. Good(ToShow(Drawn(q), r.drawn + 1, Timer), 0) /\ Adds(Drawn(q), ToShow(Drawn(q), r.drawn + 1, Timer), Timer)
    BY <2>5, <2>6, GoodToShow
  <2> QED
    BY <2>1, <2>2, <2>5, <2>7 DEF Adds
<1> QED
  BY <1>2, <1>3

LEMMA GoodFailed ==
  ASSUME NEW r, NEW k, Good(r, k), k > 0, NEW c \in Conns
  PROVE  /\ Good(Failed(r, c), k - 1)
         /\ \/ Failed(r, c).shows = r.shows /\ Failed(r, c).changes = r.changes
            \/ Adds(r, Failed(r, c), c)
<1> DEFINE f == [r EXCEPT !.failed = @ + 1]
           d == Destroyed(r)
<1>1. r \in PinRecord /\ r.failed + 1 \in Nat /\ r.destroyed \in Nat /\ r.destroyed + 1 \in Nat /\ r.drawn \in Nat /\ r.changes \in Nat
  BY DEF Good, PinRecord
<1>2. CASE r.closed \/ r.failed + 1 < Attempts
  <2>1. Failed(r, c) = f
    BY <1>2 DEF Failed
  <2>2. f \in PinRecord /\ f.shows = r.shows /\ f.changes = r.changes
    BY <1>1 DEF PinRecord
  <2>3. Counted(f, k - 1) /\ Drawing(f)
    BY <1>1 DEF Good, Counted, Drawing, PinRecord
  <2> QED
    BY <2>1, <2>2, <2>3 DEF Good
<1>3. CASE ~(r.closed \/ r.failed + 1 < Attempts)
  <2>1. /\ k = 1 /\ r.pairings = 0 /\ r.reserved = Attempts /\ r.failed + 1 = Attempts /\ ~r.closed /\ ~r.paired
        /\ r.timer = "none" /\ r.drawn > 0
    BY <1>1, <1>3 DEF Good, Counted, Drawing, PinRecord
  <2>2. r.drawn = r.destroyed + 1 /\ r.destroyed < Most
    BY <2>1 DEF Good, Drawing
  <2>3. r.tested <= Attempts * r.drawn
    BY <1>1, <2>1, OneMoreCode DEF Good, Drawing, PinRecord
  <2>4. d \in PinRecord
    BY <1>1 DEF Destroyed, PinRecord
  <2>5. /\ d.failed = Attempts /\ d.reserved = Attempts /\ d.destroyed = r.destroyed + 1 /\ d.drawn = d.destroyed /\ ~d.valid
        /\ ~d.closed /\ ~d.paired /\ d.pairings = 0 /\ d.timer = "none" /\ d.tested = r.tested /\ d.drawn = r.drawn
        /\ d.shows = r.shows /\ d.changes = r.changes
    BY <1>1, <2>1, <2>2 DEF Destroyed, PinRecord
  <2>6. CASE Stops(d.destroyed)
    <3> DEFINE q == [d EXCEPT !.closed = TRUE, !.stopped = TRUE]
    <3>1. q \in PinRecord /\ q.shows = r.shows /\ q.changes = r.changes
      BY <2>4, <2>5 DEF PinRecord
    <3>2. Counted(q, 0) /\ Drawing(q)
      BY <1>1, <2>1, <2>2, <2>3, <2>4, <2>5, OneMoreCode DEF Counted, Drawing, PinRecord, Most
    <3>3. Good(q, 0)
      BY <3>1, <3>2 DEF Good
    <3>4. Failed(r, c) = ToShow(q, 0, c)
      BY <1>3, <2>6 DEF Failed, Stopped
    <3> HIDE DEF q
    <3>5. Good(ToShow(q, 0, c), 0) /\ Adds(q, ToShow(q, 0, c), c)
      BY <3>3, GoodToShow
    <3> QED
      BY <2>1, <3>1, <3>4, <3>5 DEF Adds
  <2>7. CASE ~Stops(d.destroyed) /\ d.destroyed % PinDestroyedIn = 0
    <3> DEFINE q == [d EXCEPT !.timer = "set", !.expired = FALSE]
    <3>1. q \in PinRecord /\ q.shows = r.shows /\ q.changes = r.changes
      BY <2>4, <2>5 DEF PinRecord
    <3>2. d.destroyed < Most
      BY <1>1, <2>2, <2>5, <2>7 DEF Stops, PinDestroyedIn, Most
    <3>3. Counted(q, 0) /\ Drawing(q)
      BY <1>1, <2>1, <2>2, <2>3, <2>4, <2>5, <3>2, OneMoreCode DEF Counted, Drawing, PinRecord, Most
    <3>4. Good(q, 0)
      BY <3>1, <3>3 DEF Good
    <3>5. Failed(r, c) = ToShow(q, 0, c)
      BY <1>3, <2>7 DEF Failed, Delayed
    <3> HIDE DEF q
    <3>6. Good(ToShow(q, 0, c), 0) /\ Adds(q, ToShow(q, 0, c), c)
      BY <3>4, GoodToShow
    <3> QED
      BY <2>1, <3>1, <3>5, <3>6 DEF Adds
  <2>8. CASE ~Stops(d.destroyed) /\ d.destroyed % PinDestroyedIn # 0
    <3> HIDE DEF d
    <3>0. d.destroyed \in Nat /\ d.destroyed <= Most
      BY <1>1, <2>2, <2>5 DEF Most
    <3>1. d.destroyed < Most
      BY <3>0, <2>8, NotAWholeSeries
    <3>2. Good(Drawn(d), 0) /\ Drawn(d).shows = r.shows /\ Drawn(d).changes = r.changes
      BY <2>1, <2>3, <2>4, <2>5, <3>1, GoodDrawn, DrawnType
    <3>3. Failed(r, c) = ToShow(Drawn(d), r.drawn + 1, c)
      BY <1>3, <2>8 DEF Failed, d
    <3>4. r.drawn + 1 \in Nat /\ c \in Conns \cup {Timer}
      BY <1>1
    <3>5. Good(ToShow(Drawn(d), r.drawn + 1, c), 0) /\ Adds(Drawn(d), ToShow(Drawn(d), r.drawn + 1, c), c)
      BY <3>2, <3>4, GoodToShow
    <3> QED
      BY <2>1, <3>2, <3>3, <3>5 DEF Adds
  <2> QED
    BY <2>6, <2>7, <2>8
<1> QED
  BY <1>2, <1>3

-----------------------------------------------------------------------------
(* The connections.                                                        *)

Flies(y, p) == y.at = "answered" /\ y.counted /\ y.pin = p

\* One connection moves: what it means for the attempts in flight on p.
LEMMA Flight ==
  ASSUME NEW c \in Conns, NEW p, \A x \in Conns \ {c} : conn'[x] = conn[x]
  PROVE  /\ Cardinality(InFlight(p)) \in Nat
         /\ (Flies(conn[c], p) <=> Flies(conn'[c], p)) => InFlight(p)' = InFlight(p)
         /\ Flies(conn[c], p) /\ ~Flies(conn'[c], p) =>
              Cardinality(InFlight(p)) > 0 /\ Cardinality(InFlight(p)') = Cardinality(InFlight(p)) - 1
         /\ ~Flies(conn[c], p) /\ Flies(conn'[c], p) => Cardinality(InFlight(p)') = Cardinality(InFlight(p)) + 1
<1>1. IsFiniteSet(InFlight(p)) /\ Cardinality(InFlight(p)) \in Nat
  BY ConnsAssumption, FS_Subset, FS_CardinalityType DEF InFlight
<1>2. (Flies(conn[c], p) <=> Flies(conn'[c], p)) => InFlight(p)' = InFlight(p)
  BY DEF InFlight, Flies
<1>3. ASSUME Flies(conn[c], p), ~Flies(conn'[c], p)
      PROVE  Cardinality(InFlight(p)) > 0 /\ Cardinality(InFlight(p)') = Cardinality(InFlight(p)) - 1
  <2>1. c \in InFlight(p) /\ InFlight(p)' = InFlight(p) \ {c}
    BY <1>3 DEF InFlight, Flies
  <2>2. Cardinality(InFlight(p)') = Cardinality(InFlight(p)) - 1 /\ Cardinality(InFlight(p)') \in Nat
    BY <1>1, <2>1, FS_RemoveElement, FS_CardinalityType
  <2> QED
    BY <1>1, <2>2
<1>4. ASSUME ~Flies(conn[c], p), Flies(conn'[c], p)
      PROVE  Cardinality(InFlight(p)') = Cardinality(InFlight(p)) + 1
  <2>1. c \notin InFlight(p) /\ InFlight(p)' = InFlight(p) \cup {c}
    BY <1>4 DEF InFlight, Flies
  <2> QED
    BY <1>1, <2>1, FS_AddElement
<1> QED
  BY <1>1, <1>2, <1>3, <1>4

LEMMA Ended ==
  ASSUME TypeOK, NEW c \in Conns, Ends(c)
  PROVE  /\ conn' \in [Conns -> ConnRecord] /\ conn'[c] = NoConn /\ NoConn.at = "idle"
         /\ \A x \in Conns \ {c} : conn'[x] = conn[x]
<1>1. NoConn \in ConnRecord /\ NoConn.at = "idle"
  BY DEF NoConn, ConnRecord, PINOrNone
<1> QED
  BY <1>1 DEF TypeOK, Ends

LEMMA Gone ==
  ASSUME TypeOK, NEW c \in Conns, NEW to \in {"got", "ready", "typed", "answered", "shows", "paired"}, NEW p \in PINs, Goes(c, to, p)
  PROVE  /\ conn' \in [Conns -> ConnRecord] /\ conn'[c].at = to /\ conn'[c].pin = p
         /\ \A x \in Conns \ {c} : conn'[x] = conn[x]
<1>1. conn[c] \in ConnRecord /\ [conn[c] EXCEPT !.at = to, !.pin = p] \in ConnRecord
  <2>1. conn[c] \in ConnRecord
    BY DEF TypeOK
  <2>2. p \in PINOrNone
    BY DEF PINOrNone
  <2> QED
    BY <2>1, <2>2 DEF ConnRecord
<1>2. conn' = [conn EXCEPT ![c] = [conn[c] EXCEPT !.at = to, !.pin = p]]
  BY DEF Goes
<1> QED
  BY <1>1, <1>2 DEF TypeOK, ConnRecord

-----------------------------------------------------------------------------
(* The inductive invariant.                                                *)

AllGood == \A p \in PINs : Good(pin[p], Cardinality(InFlight(p)))

\* A change not shown yet is the only one of the connection that made it, which
\* waits for it.
Waiting ==
  \A p \in PINs : \A s \in pin[p].shows : s.by \in Conns =>
    /\ conn[s.by].at = "shows" /\ conn[s.by].pin = p
    /\ \A t \in pin[p].shows : t.by = s.by => t = s

IInv == TypeOK /\ AllGood /\ Waiting

LEMMA InitIInv == Init => IInv
<1> SUFFICES ASSUME Init PROVE IInv
  OBVIOUS
<1>1. Unmade \in PinRecord /\ Unmade.shows = {}
  BY DEF Unmade, PinRecord
<1>2. NoConn \in ConnRecord /\ NoConn.at = "idle"
  BY DEF NoConn, ConnRecord, PINOrNone
<1>3. TypeOK
  BY <1>1, <1>2 DEF Init, TypeOK, PINOrNone
<1>4. ASSUME NEW p \in PINs PROVE Good(pin[p], Cardinality(InFlight(p)))
  <2>1. Cardinality(InFlight(p)) = 0
    <3>1. InFlight(p) = {}
      BY <1>2 DEF Init, InFlight
    <3> QED
      BY <3>1, FS_EmptySet
  <2>2. Good(Unmade, 0)
    BY <1>1 DEF Good, Counted, Drawing, Unmade, Most
  <2> QED
    BY <2>1, <2>2 DEF Init
<1>5. Waiting
  BY <1>1 DEF Init, Waiting
<1> QED
  BY <1>3, <1>4, <1>5 DEF IInv, AllGood

\* A connection that neither had an attempt in flight nor has one now, and that had
\* no change to show, moves.
LEMMA QuietConn ==
  ASSUME IInv, NEW c \in Conns, conn[c].at \notin {"answered", "shows"}, conn'[c].at # "answered",
         \A x \in Conns \ {c} : conn'[x] = conn[x], TypeOK',
         \A p \in PINs : /\ \A k : Good(pin[p], k) => Good(pin'[p], k)
                         /\ pin'[p].shows \subseteq pin[p].shows
  PROVE  IInv'
<1>1. ASSUME NEW p \in PINs PROVE Good(pin'[p], Cardinality(InFlight(p)'))
  <2>1. InFlight(p)' = InFlight(p)
    BY Flight DEF Flies
  <2> QED
    BY <2>1 DEF IInv, AllGood
<1>2. Waiting'
  BY DEF IInv, Waiting
<1> QED
  BY <1>1, <1>2 DEF IInv, AllGood

\* The PINs change, and the connections do not.
LEMMA QuietPins ==
  ASSUME IInv, UNCHANGED conn, TypeOK',
         \A p \in PINs : /\ \A k : Good(pin[p], k) => Good(pin'[p], k)
                         /\ \/ pin'[p].shows \subseteq pin[p].shows
                            \/ Adds(pin[p], pin'[p], Timer)
  PROVE  IInv'
<1>1. ASSUME NEW p \in PINs PROVE Good(pin'[p], Cardinality(InFlight(p)'))
  <2>1. InFlight(p)' = InFlight(p)
    BY DEF InFlight
  <2> QED
    BY <2>1 DEF IInv, AllGood
<1>2. ASSUME NEW p \in PINs, NEW s \in pin'[p].shows, s.by \in Conns
      PROVE  /\ conn[s.by].at = "shows" /\ conn[s.by].pin = p
             /\ \A t \in pin'[p].shows : t.by = s.by => t = s
  BY <1>2 DEF IInv, Waiting, Adds
<1>3. Waiting'
  BY <1>2 DEF Waiting
<1> QED
  BY <1>1, <1>3 DEF IInv, AllGood

-----------------------------------------------------------------------------
(* The steps.                                                              *)

\* One PIN's fields are changed to a record.
LEMMA OnePINType ==
  ASSUME TypeOK, NEW p \in PINs, NEW r \in PinRecord, pin' = [pin EXCEPT ![p] = r]
  PROVE  pin' \in [PINs -> PinRecord] /\ pin'[p] = r /\ \A q \in PINs \ {p} : pin'[q] = pin[q]
BY DEF TypeOK

\* Close of one PIN, or of none.
LEMMA CloseThatPIN ==
  ASSUME IInv, NEW q \in PINOrNone
  PROVE  /\ CloseThat(q) \in [PINs -> PinRecord]
         /\ \A p \in PINs : /\ \A k : Good(pin[p], k) => Good(CloseThat(q)[p], k)
                            /\ CloseThat(q)[p].shows = pin[p].shows
                            /\ CloseThat(q)[p].drawn = pin[p].drawn
<1>1. pin \in [PINs -> PinRecord] /\ \A p \in PINs : Good(pin[p], Cardinality(InFlight(p)))
  BY DEF IInv, TypeOK, AllGood
<1>2. CASE q = None
  BY <1>1, <1>2 DEF CloseThat
<1>3. CASE q # None
  <2>1. q \in PINs /\ CloseThat(q) = [pin EXCEPT ![q] = Closed(pin[q])]
    BY <1>3 DEF PINOrNone, CloseThat
  <2>2. \A k : Good(pin[q], k) => Good(Closed(pin[q]), k) /\ Closed(pin[q]).shows = pin[q].shows
    BY GoodClosed
  <2>3. Closed(pin[q]) \in PinRecord /\ Closed(pin[q]).shows = pin[q].shows
    BY <1>1, <2>1, <2>2 DEF Good
  <2>4. Closed(pin[q]).drawn = pin[q].drawn
    BY <1>1, <2>1 DEF Closed, PinRecord
  <2> QED
    BY <1>1, <2>1, <2>2, <2>3, <2>4
<1> QED
  BY <1>2, <1>3

\* The steps of a PIN's timer, and time.
LEMMA TimerSteps ==
  ASSUME IInv, NEW p \in PINs, Expire(p) \/ TimerFires(p) \/ Redraw(p)
  PROVE  IInv'
<1> DEFINE r == pin[p]
<1>1. Good(r, Cardinality(InFlight(p))) /\ TypeOK
  BY DEF IInv, AllGood
<1>2. UNCHANGED <<shown, demand, conn, user>>
  BY DEF Expire, TimerFires, Redraw
<1>3. \E q \in PinRecord : /\ pin' = [pin EXCEPT ![p] = q]
                           /\ \A k : Good(r, k) => Good(q, k)
                           /\ q.shows = r.shows \/ Adds(r, q, Timer)
  <2>1. CASE Expire(p)
    <3> DEFINE q == [r EXCEPT !.expired = TRUE]
    <3>1. pin' = [pin EXCEPT ![p] = q] /\ q.shows = r.shows
      BY <1>1, <2>1 DEF Expire, Good, PinRecord
    <3>2. \A k : Good(r, k) => Good(q, k)
      BY GoodExpired
    <3> QED
      BY <1>1, <3>1, <3>2 DEF Good
  <2>2. CASE TimerFires(p)
    <3> DEFINE q == [r EXCEPT !.timer = "fired"]
    <3>1. pin' = [pin EXCEPT ![p] = q] /\ q.shows = r.shows /\ r.timer = "set"
      BY <1>1, <2>2 DEF TimerFires, Good, PinRecord
    <3>2. \A k : Good(r, k) => Good(q, k)
      BY <3>1, GoodFired
    <3> QED
      BY <1>1, <3>1, <3>2 DEF Good
  <2>3. CASE Redraw(p)
    <3>1. pin' = [pin EXCEPT ![p] = Redrawn(r)] /\ r.timer = "fired"
      BY <2>3 DEF Redraw
    <3>2. \A k : Good(r, k) => Good(Redrawn(r), k) /\ (Redrawn(r).shows = r.shows \/ Adds(r, Redrawn(r), Timer))
      BY <3>1, GoodRedrawn
    <3> QED
      BY <1>1, <3>1, <3>2 DEF Good
  <2> QED
    BY <2>1, <2>2, <2>3
<1>4. PICK q \in PinRecord : /\ pin' = [pin EXCEPT ![p] = q]
                             /\ \A k : Good(r, k) => Good(q, k)
                             /\ q.shows = r.shows \/ Adds(r, q, Timer)
  BY <1>3
<1>5. pin' \in [PINs -> PinRecord] /\ pin'[p] = q /\ \A x \in PINs \ {p} : pin'[x] = pin[x]
  BY <1>1, <1>4, OnePINType
<1>6. TypeOK'
  BY <1>1, <1>2, <1>5 DEF TypeOK
<1>7. \A x \in PINs : /\ \A k : Good(pin[x], k) => Good(pin'[x], k)
                      /\ \/ pin'[x].shows \subseteq pin[x].shows
                         \/ Adds(pin[x], pin'[x], Timer)
  BY <1>4, <1>5
<1> QED
  BY <1>2, <1>6, <1>7, QuietPins

LEMMA ShowStep ==
  ASSUME IInv, NEW p \in PINs, Show(p)
  PROVE  IInv'
<1>1. PICK s \in pin[p].shows :
        /\ pin' = [pin EXCEPT ![p] = Shown(pin[p], s)]
        /\ conn' = [c \in Conns |-> IF s.by = c THEN NoConn ELSE conn[c]]
  BY DEF Show
<1>2. UNCHANGED <<shown, demand, user>> /\ TypeOK
  BY DEF Show, IInv
<1>3. \A k : Good(pin[p], k) => Good(Shown(pin[p], s), k) /\ Shown(pin[p], s).shows = pin[p].shows \ {s}
  BY GoodShown
<1>4. Shown(pin[p], s) \in PinRecord /\ Shown(pin[p], s).shows = pin[p].shows \ {s}
  BY <1>3 DEF IInv, AllGood, Good
<1>5. pin' \in [PINs -> PinRecord] /\ pin'[p] = Shown(pin[p], s) /\ \A q \in PINs \ {p} : pin'[q] = pin[q]
  BY <1>1, <1>2, <1>4, OnePINType
<1>6. NoConn \in ConnRecord /\ NoConn.at = "idle"
  BY DEF NoConn, ConnRecord, PINOrNone
<1>7. TypeOK'
  BY <1>1, <1>2, <1>5, <1>6 DEF TypeOK
<1>8. AllGood'
  <2> SUFFICES ASSUME NEW q \in PINs PROVE Good(pin'[q], Cardinality(InFlight(q)'))
    BY DEF AllGood
  <2>1. InFlight(q)' = InFlight(q)
    BY <1>1, <1>6 DEF InFlight, IInv, Waiting
  <2> QED
    BY <1>3, <1>5, <2>1 DEF IInv, AllGood
<1>9. Waiting'
  <2> SUFFICES ASSUME NEW q \in PINs, NEW t \in pin'[q].shows, t.by \in Conns
               PROVE  /\ conn'[t.by].at = "shows" /\ conn'[t.by].pin = q
                      /\ \A u \in pin'[q].shows : u.by = t.by => u = t
    BY DEF Waiting
  <2>1. t \in pin[q].shows /\ pin'[q].shows \subseteq pin[q].shows
    BY <1>4, <1>5
  <2>2. /\ conn[t.by].at = "shows" /\ conn[t.by].pin = q
        /\ \A u \in pin[q].shows : u.by = t.by => u = t
    BY <2>1 DEF IInv, Waiting
  <2>3. t.by # s.by
    BY <1>4, <1>5, <2>1, <2>2 DEF IInv, Waiting
  <2> QED
    BY <1>1, <2>1, <2>2, <2>3
<1> QED
  BY <1>7, <1>8, <1>9 DEF IInv

\* An attempt begins or ends on p.
LEMMA AttemptStep ==
  ASSUME IInv, NEW c \in Conns, NEW p \in PINs, NEW q,
         conn[c].at # "shows", conn[c].pin = p,
         conn'[c].pin = p \/ conn'[c].at # "answered",
         \A x \in Conns \ {c} : conn'[x] = conn[x], conn' \in [Conns -> ConnRecord],
         conn'[c].at \in {"got", "ready", "typed", "answered", "shows", "paired"} => conn'[c].pin # None,
         pin' = [pin EXCEPT ![p] = q], Good(q, Cardinality(InFlight(p)')),
         \/ q.shows = pin[p].shows
         \/ Adds(pin[p], q, c) /\ conn'[c].at = "shows" /\ conn'[c].pin = p,
         UNCHANGED <<shown, demand, user>>
  PROVE  IInv'
<1>1. pin' \in [PINs -> PinRecord] /\ pin'[p] = q /\ \A x \in PINs \ {p} : pin'[x] = pin[x]
  <2>1. q \in PinRecord /\ TypeOK
    BY DEF Good, IInv
  <2> QED
    BY <2>1, OnePINType
<1>2. TypeOK'
  BY <1>1 DEF IInv, TypeOK
<1>3. AllGood'
  <2> SUFFICES ASSUME NEW x \in PINs, x # p PROVE Good(pin'[x], Cardinality(InFlight(x)'))
    BY <1>1 DEF AllGood
  <2>1. InFlight(x)' = InFlight(x)
    BY Flight DEF Flies
  <2> QED
    BY <1>1, <2>1 DEF IInv, AllGood
<1>4. Waiting'
  <2> SUFFICES ASSUME NEW x \in PINs, NEW t \in pin'[x].shows, t.by \in Conns
               PROVE  /\ conn'[t.by].at = "shows" /\ conn'[t.by].pin = x
                      /\ \A u \in pin'[x].shows : u.by = t.by => u = t
    BY DEF Waiting
  <2>1. CASE x # p \/ q.shows = pin[p].shows
    <3>1. pin'[x].shows = pin[x].shows
      BY <1>1, <2>1
    <3> QED
      BY <3>1 DEF IInv, Waiting
  <2>2. CASE x = p /\ Adds(pin[p], q, c) /\ conn'[c].at = "shows" /\ conn'[c].pin = p
    <3>1. PICK new : new.by = c /\ pin'[p].shows = pin[p].shows \cup {new}
      BY <1>1, <2>2 DEF Adds
    <3>2. \A u \in pin[p].shows : u.by # c
      BY DEF IInv, Waiting
    <3> QED
      BY <2>2, <3>1, <3>2 DEF IInv, Waiting
  <2> QED
    BY <2>1, <2>2
<1> QED
  BY <1>2, <1>3, <1>4 DEF IInv

LEMMA BeginsStep ==
  ASSUME IInv, NEW c \in Conns, Begins(c)
  PROVE  IInv'
<1>0. PICK p \in PINs : p = conn[c].pin
  BY DEF Begins, IInv, TypeOK, ConnRecord, PINOrNone
<1> DEFINE k == Cardinality(InFlight(p))
<1>1. conn[c].at = "typed" /\ UNCHANGED <<shown, demand, user>>
  BY DEF Begins
<1>2. TypeOK
  BY DEF IInv
<1>3. /\ conn' \in [Conns -> ConnRecord] /\ conn'[c].at = "answered" /\ conn'[c].pin = p
      /\ conn'[c].counted = MayBegin(pin[p])
      /\ \A x \in Conns \ {c} : conn'[x] = conn[x]
  <2>1. conn[c] \in ConnRecord /\ MayBegin(pin[p]) \in BOOLEAN
    BY <1>2 DEF TypeOK, MayBegin
  <2>2. conn' = [conn EXCEPT ![c] = [conn[c] EXCEPT !.at = "answered", !.counted = MayBegin(pin[p])]]
    BY <1>0 DEF Begins
  <2>3. [conn[c] EXCEPT !.at = "answered", !.counted = MayBegin(pin[p])] \in ConnRecord
    BY <2>1 DEF ConnRecord
  <2> QED
    BY <1>0, <1>2, <2>1, <2>2, <2>3 DEF TypeOK, ConnRecord
<1>4. Good(pin[p], k)
  BY <1>2 DEF IInv, AllGood
<1>5. CASE MayBegin(pin[p])
  <2>1. pin' = [pin EXCEPT ![p] = Begun(pin[p])]
    BY <1>0, <1>5 DEF Begins
  <2>2. Cardinality(InFlight(p)') = k + 1
    BY <1>0, <1>1, <1>3, <1>5, Flight DEF Flies
  <2>3. Good(Begun(pin[p]), Cardinality(InFlight(p)')) /\ Begun(pin[p]).shows = pin[p].shows
    BY <1>4, <1>5, <2>2, GoodBegun
  <2> QED
    BY <1>0, <1>1, <1>2, <1>3, <2>1, <2>3, AttemptStep 
<1>6. CASE ~MayBegin(pin[p])
  <2>1. pin' = [pin EXCEPT ![p] = pin[p]]
    BY <1>0, <1>2, <1>6 DEF Begins, TypeOK
  <2>2. InFlight(p)' = InFlight(p)
    BY <1>0, <1>1, <1>3, <1>6, Flight DEF Flies
  <2> QED
    BY <1>0, <1>1, <1>2, <1>3, <1>4, <2>1, <2>2, AttemptStep
<1> QED
  BY <1>5, <1>6

LEMMA ConfirmedStep ==
  ASSUME IInv, NEW c \in Conns, Confirmed(c)
  PROVE  IInv'
<1>0. PICK p \in PINs : p = conn[c].pin
  BY DEF Confirmed, IInv, TypeOK, ConnRecord, PINOrNone
<1> DEFINE k == Cardinality(InFlight(p))
<1>1. conn[c].at = "answered" /\ conn[c].counted /\ UNCHANGED <<shown, demand, user>>
  BY DEF Confirmed
<1>2. TypeOK
  BY DEF IInv
<1>3. /\ conn' \in [Conns -> ConnRecord] /\ conn'[c].at = "paired" /\ conn'[c].pin = p
      /\ \A x \in Conns \ {c} : conn'[x] = conn[x]
  <2>1. conn[c] \in ConnRecord
    BY <1>2 DEF TypeOK
  <2>2. conn' = [conn EXCEPT ![c] = [conn[c] EXCEPT !.at = "paired"]]
    BY DEF Confirmed
  <2>3. [conn[c] EXCEPT !.at = "paired"] \in ConnRecord
    BY <2>1 DEF ConnRecord
  <2> QED
    BY <1>0, <1>2, <2>1, <2>2, <2>3 DEF TypeOK, ConnRecord
<1>4. k > 0 /\ Cardinality(InFlight(p)') = k - 1
  BY <1>0, <1>1, <1>3, Flight DEF Flies
<1>5. Good(Used(pin[p]), Cardinality(InFlight(p)')) /\ Used(pin[p]).shows = pin[p].shows
  BY <1>0, <1>2, <1>4, GoodUsed DEF IInv, AllGood
<1>6. pin' = [pin EXCEPT ![p] = Used(pin[p])]
  BY <1>0 DEF Confirmed
<1> QED
  BY <1>0, <1>1, <1>2, <1>3, <1>4, <1>5, <1>6, AttemptStep

LEMMA RefusedStep ==
  ASSUME IInv, NEW c \in Conns, Refused(c)
  PROVE  IInv'
<1>0. PICK p \in PINs : p = conn[c].pin
  BY DEF Refused, IInv, TypeOK, ConnRecord, PINOrNone
<1> DEFINE k == Cardinality(InFlight(p))
           r == Failed(pin[p], c)
<1>1. conn[c].at = "answered" /\ UNCHANGED <<shown, demand, user>>
  BY DEF Refused
<1>2. TypeOK
  BY DEF IInv
<1>3. Good(pin[p], k)
  BY <1>2 DEF IInv, AllGood
<1>4. CASE ~conn[c].counted
  <2>1. pin' = [pin EXCEPT ![p] = pin[p]] /\ Ends(c)
    BY <1>0, <1>2, <1>4 DEF Refused, TypeOK
  <2>2. /\ conn' \in [Conns -> ConnRecord] /\ conn'[c].at = "idle"
        /\ \A x \in Conns \ {c} : conn'[x] = conn[x]
    BY <1>2, <2>1, Ended
  <2>3. InFlight(p)' = InFlight(p)
    BY <1>4, <2>2, Flight DEF Flies
  <2> QED
    BY <1>0, <1>1, <1>2, <1>3, <2>1, <2>2, <2>3, AttemptStep
<1>5. CASE conn[c].counted
  <2>1. /\ pin' = [pin EXCEPT ![p] = r]
        /\ IF r.changes = pin[p].changes THEN Ends(c) ELSE Goes(c, "shows", p)
    BY <1>0, <1>5 DEF Refused
  <2>2. /\ conn' \in [Conns -> ConnRecord] /\ \A x \in Conns \ {c} : conn'[x] = conn[x]
        /\ \/ conn'[c].at = "idle" /\ r.changes = pin[p].changes
           \/ conn'[c].at = "shows" /\ conn'[c].pin = p /\ r.changes # pin[p].changes
    BY <1>2, <2>1, Ended, Gone
  <2>3. k > 0 /\ Cardinality(InFlight(p)') = k - 1
    BY <1>0, <1>1, <1>5, <2>2, Flight DEF Flies
  <2>4. /\ Good(r, Cardinality(InFlight(p)'))
        /\ \/ r.shows = pin[p].shows /\ r.changes = pin[p].changes
           \/ Adds(pin[p], r, c)
    BY <1>3, <2>3, GoodFailed
  <2>5. Adds(pin[p], r, c) => r.changes # pin[p].changes
    BY <1>3 DEF Adds, Good, PinRecord
  <2> HIDE DEF r
  <2> QED
    BY <1>0, <1>1, <1>2, <2>1, <2>2, <2>3, <2>4, <2>5, AttemptStep
<1> QED
  BY <1>4, <1>5

\* A PIN that was not made is made, after some are closed.
LEMMA MadeType ==
  ASSUME IInv, NEW x \in PINOrNone, NEW p \in PINs, pin[p].drawn = 0,
         pin' = [CloseThat(x) EXCEPT ![p] = Made]
  PROVE  /\ pin' \in [PINs -> PinRecord]
         /\ \A q \in PINs : /\ \A k : Good(pin[q], k) => Good(pin'[q], k)
                            /\ pin'[q].shows \subseteq pin[q].shows
<1>1. /\ CloseThat(x) \in [PINs -> PinRecord]
      /\ \A q \in PINs : /\ \A k : Good(pin[q], k) => Good(CloseThat(x)[q], k)
                         /\ CloseThat(x)[q].shows = pin[q].shows
  BY CloseThatPIN
<1>2. \A k : Good(pin[p], k) => Good(Made, k) /\ Made.shows = {}
  BY GoodMade
<1>3. Made \in PinRecord /\ Made.shows = {}
  BY <1>2 DEF IInv, AllGood, Good
<1> QED
  BY <1>1, <1>2, <1>3

LEMMA QuietConnStep ==
  ASSUME IInv, NEW c \in Conns,
         Accept(c) \/ PicksPIN(c) \/ GetsPIN(c) \/ Announces(c) \/ Types(c) \/ ClosesDemand(c)
  PROVE  IInv'
<1>1. TypeOK /\ conn[c] \in ConnRecord
  BY DEF IInv, TypeOK
<1>2. /\ conn[c].shown # None => conn[c].shown \in PINs
      /\ conn[c].at \in {"got", "ready", "typed", "answered", "shows", "paired"} => conn[c].pin \in PINs
      /\ demand.pin # None => demand.pin \in PINs
      /\ demand.pin \in PINOrNone
  BY <1>1 DEF TypeOK, ConnRecord, PINOrNone
<1> DEFINE Moves == /\ conn' \in [Conns -> ConnRecord] /\ \A x \in Conns \ {c} : conn'[x] = conn[x]
                    /\ conn'[c].at # "answered"
                    /\ conn'[c].at \in {"got", "ready", "typed", "shows", "paired"} => conn'[c].pin # None
<1>3. ASSUME Ends(c) PROVE Moves
  BY <1>1, <1>3, Ended
<1>4. ASSUME NEW to \in {"got", "ready", "typed"}, NEW p \in PINs, Goes(c, to, p) PROVE Moves
  <2>1. p # None
    OBVIOUS
  <2> QED
    BY <1>1, <1>4, <2>1, Gone
<1>5. CASE Accept(c)
  <2>1. PICK at \in {"pin", "wanted"} :
          conn' = [conn EXCEPT ![c].at = at, ![c].shown = IF Live(shown) THEN shown ELSE None]
    BY <1>5 DEF Accept
  <2>2. (IF Live(shown) THEN shown ELSE None) \in PINOrNone
    BY <1>1 DEF TypeOK, PINOrNone
  <2> DEFINE y == [conn[c] EXCEPT !.at = at, !.shown = IF Live(shown) THEN shown ELSE None]
  <2>3. y \in ConnRecord /\ y.at = at
    BY <1>1, <2>2 DEF ConnRecord
  <2>4. conn' = [conn EXCEPT ![c] = y]
    BY <2>1
  <2>5. Moves
    BY <1>1, <2>3, <2>4 DEF TypeOK
  <2>6. UNCHANGED <<pin, shown, demand, user>> /\ conn[c].at = "idle"
    BY <1>5 DEF Accept
  <2>7. TypeOK'
    BY <1>1, <2>5, <2>6 DEF TypeOK
  <2> QED
    BY <2>5, <2>6, <2>7, QuietConn
<1>6. CASE PicksPIN(c) \/ Announces(c) \/ Types(c)
  <2>1. Moves
    <3>1. CASE PicksPIN(c)
      BY <1>2, <1>3, <1>4, <3>1 DEF PicksPIN, Live
    <3>2. CASE Announces(c)
      BY <1>2, <1>3, <1>4, <3>2 DEF Announces
    <3>3. CASE Types(c)
      BY <1>2, <1>3, <1>4, <3>3 DEF Types
    <3> QED
      BY <1>6, <3>1, <3>2, <3>3
  <2>2. UNCHANGED <<pin, shown, demand, user>> /\ conn[c].at \notin {"answered", "shows"}
    BY <1>6 DEF PicksPIN, Announces, Types
  <2>3. TypeOK'
    BY <1>1, <2>1, <2>2 DEF TypeOK
  <2> QED
    BY <2>1, <2>2, <2>3, QuietConn
<1>7. CASE GetsPIN(c)
  <2>1. conn[c].at = "wanted" /\ UNCHANGED <<shown, user>>
    BY <1>7 DEF GetsPIN
  <2> DEFINE Gets == /\ Moves /\ demand' \in [pin : PINOrNone, stopped : BOOLEAN] /\ pin' \in [PINs -> PinRecord]
                     /\ \A q \in PINs : /\ \A k : Good(pin[q], k) => Good(pin'[q], k)
                                        /\ pin'[q].shows \subseteq pin[q].shows
  <2>2. Gets
    <3>1. CASE UNCHANGED <<pin, demand>>
      <4>1. Moves
        BY <1>2, <1>3, <1>4, <1>7, <3>1 DEF GetsPIN, Live
      <4> QED
        BY <1>1, <3>1, <4>1 DEF TypeOK
    <3>2. CASE demand' = [demand EXCEPT !.stopped = TRUE] /\ Ends(c) /\ UNCHANGED pin
      BY <1>1, <1>3, <3>2 DEF TypeOK
    <3>3. ASSUME NEW p \in PINs, pin[p].drawn = 0, pin' = [CloseThat(demand.pin) EXCEPT ![p] = Made],
                 demand' = [demand EXCEPT !.pin = p], Goes(c, "got", p)
          PROVE  Gets
      <4>1. Moves
        BY <1>4, <3>3
      <4>2. demand' \in [pin : PINOrNone, stopped : BOOLEAN]
        BY <1>1, <3>3 DEF TypeOK, PINOrNone
      <4> QED
        BY <1>2, <3>3, <4>1, <4>2, MadeType
    <3> QED
      BY <1>7, <3>1, <3>2, <3>3 DEF GetsPIN
  <2>3. TypeOK'
    BY <1>1, <2>1, <2>2 DEF TypeOK
  <2> QED
    BY <2>1, <2>2, <2>3, QuietConn
<1>8. CASE ClosesDemand(c)
  <2>1. conn[c].at = "paired" /\ UNCHANGED <<shown, user>> /\ Moves
    BY <1>3, <1>8 DEF ClosesDemand
  <2>2. /\ demand' \in [pin : PINOrNone, stopped : BOOLEAN] /\ pin' \in [PINs -> PinRecord]
        /\ \A q \in PINs : /\ \A k : Good(pin[q], k) => Good(pin'[q], k)
                           /\ pin'[q].shows \subseteq pin[q].shows
    BY <1>1, <1>2, <1>8, CloseThatPIN, SMTT(30) DEF ClosesDemand, TypeOK, PINOrNone
  <2>3. TypeOK'
    BY <1>1, <2>1, <2>2 DEF TypeOK
  <2> QED
    BY <2>1, <2>2, <2>3, QuietConn
<1> QED
  BY <1>5, <1>6, <1>7, <1>8

LEMMA UserSteps ==
  ASSUME IInv, UserStep
  PROVE  IInv'
<1>1. TypeOK /\ demand.pin \in PINOrNone /\ user.old \in PINOrNone
  BY DEF IInv, TypeOK
<1>2. UNCHANGED conn
  BY DEF UserStep, ShowsPIN, Resets, ClosesOld, RefusesPIN
<1>3. /\ pin' \in [PINs -> PinRecord]
      /\ \A q \in PINs : /\ \A k : Good(pin[q], k) => Good(pin'[q], k)
                         /\ pin'[q].shows \subseteq pin[q].shows
  <2>1. CASE ShowsPIN
    <3>1. PICK p \in PINs : pin[p].drawn = 0 /\ pin' = [pin EXCEPT ![p] = Made]
      BY <2>1 DEF ShowsPIN
    <3>2. CloseThat(None) = pin /\ None \in PINOrNone
      BY DEF CloseThat, PINOrNone
    <3> QED
      BY <3>1, <3>2, MadeType
  <2>2. CASE Resets \/ ClosesOld \/ RefusesPIN
    <3>1. pin' = CloseThat(demand.pin) \/ pin' = CloseThat(user.old)
      BY <2>2 DEF Resets, ClosesOld, RefusesPIN
    <3> QED
      BY <1>1, <3>1, CloseThatPIN
  <2> QED
    BY <2>1, <2>2 DEF UserStep
<1>4. demand' \in [pin : PINOrNone, stopped : BOOLEAN] /\ shown' \in PINOrNone
  <2>1. demand \in [pin : PINOrNone, stopped : BOOLEAN] /\ shown \in PINOrNone /\ None \in PINOrNone
    BY <1>1 DEF TypeOK, PINOrNone
  <2>2. CASE ShowsPIN
    BY <2>1, <2>2 DEF ShowsPIN, PINOrNone
  <2>3. CASE Resets
    BY <2>1, <2>3 DEF Resets
  <2>4. CASE ClosesOld \/ RefusesPIN
    BY <2>1, <2>4 DEF ClosesOld, RefusesPIN
  <2> QED
    BY <2>2, <2>3, <2>4 DEF UserStep
<1>5. user' \in [at : {"idle", "resets", "closes"}, old : PINOrNone]
  <2>1. user \in [at : {"idle", "resets", "closes"}, old : PINOrNone] /\ shown \in PINOrNone /\ None \in PINOrNone
    BY <1>1 DEF TypeOK, PINOrNone
  <2>2. CASE ShowsPIN
    BY <2>1, <2>2 DEF ShowsPIN
  <2>3. CASE Resets
    BY <2>1, <2>3 DEF Resets
  <2>4. CASE ClosesOld
    BY <2>1, <2>4 DEF ClosesOld
  <2>5. CASE RefusesPIN
    BY <2>1, <2>5 DEF RefusesPIN
  <2> QED
    BY <2>2, <2>3, <2>4, <2>5 DEF UserStep
<1>6. TypeOK'
  BY <1>1, <1>2, <1>3, <1>4, <1>5 DEF TypeOK
<1> QED
  BY <1>2, <1>3, <1>6, QuietPins

LEMMA StepIInv == IInv /\ [Next]_vars => IInv'
<1> SUFFICES ASSUME IInv, [Next]_vars PROVE IInv'
  OBVIOUS
<1>1. ASSUME NEW p \in PINs, PINStep(p) PROVE IInv'
  BY <1>1, TimerSteps, ShowStep DEF PINStep
<1>2. ASSUME NEW c \in Conns, ConnStep(c) PROVE IInv'
  BY <1>2, BeginsStep, ConfirmedStep, RefusedStep, QuietConnStep DEF ConnStep
<1>3. CASE UserStep
  BY <1>3, UserSteps
<1>4. CASE UNCHANGED vars
  BY <1>4 DEF vars, IInv, TypeOK, AllGood, Waiting, InFlight
<1> QED
  BY <1>1, <1>2, <1>3, <1>4 DEF Next

\* The attempts in flight, the codes drawn and the changes to show agree, in every
\* state the daemon's connections, timers and user can reach.
THEOREM IInvHolds == Spec => []IInv
BY InitIInv, StepIInv, PTL DEF Spec

\* Every PIN, connection and request keeps its type: an attempt always has a PIN
\* (acceptPIN).
THEOREM TypeCorrect == Spec => []TypeOK
<1>1. IInv => TypeOK
  BY DEF IInv
<1> QED
  BY <1>1, IInvHolds, PTL

\* PAIR-04, #105: a PIN answers at most Attempts guesses per code and draws at most
\* three codes a series (begin, end, redrawAfterDelay).
THEOREM GuessesHold == Spec => []GuessesBounded
<1>1. IInv => GuessesBounded
  <2> SUFFICES ASSUME IInv, NEW p \in PINs
               PROVE  pin[p].drawn <= PinDestroyedIn * MaxSeries /\ pin[p].tested <= Attempts * pin[p].drawn
    BY DEF GuessesBounded
  <2>1. Good(pin[p], Cardinality(InFlight(p)))
    BY DEF IInv, AllGood
  <2>2. pin[p].drawn \in Nat /\ pin[p].tested \in Nat /\ pin[p].reserved \in Nat /\ pin[p].reserved <= Attempts
    BY <2>1 DEF Good, Counted, PinRecord
  <2>3. CASE pin[p].drawn = 0
    BY <2>1, <2>3 DEF Good, Drawing, PinDestroyedIn, Most
  <2>4. CASE pin[p].drawn > 0
    BY <2>1, <2>2, <2>4, OneMoreCode DEF Good, Drawing, PinDestroyedIn, Most
  <2> QED
    BY <2>2, <2>3, <2>4
<1> QED
  BY <1>1, IInvHolds, PTL

\* A failure counts for the code it tested, and no attempt is in flight during a
\* delay: so no attempt on an old code ends on a new one (begin, end).
THEOREM AttemptsHold == Spec => []AttemptsAreOnThisCode
<1>1. IInv => AttemptsAreOnThisCode
  <2> SUFFICES ASSUME IInv, NEW p \in PINs
               PROVE  /\ Cardinality(InFlight(p)) + pin[p].failed + pin[p].pairings = pin[p].reserved
                      /\ pin[p].timer # "none" /\ ~pin[p].closed => InFlight(p) = {}
    BY DEF AttemptsAreOnThisCode
  <2>1. Counted(pin[p], Cardinality(InFlight(p)))
    BY DEF IInv, AllGood, Good
  <2>2. IsFiniteSet(InFlight(p))
    BY ConnsAssumption, FS_Subset DEF InFlight
  <2> QED
    BY <2>1, <2>2, FS_EmptySet DEF Counted
<1> QED
  BY <1>1, IInvHolds, PTL
=============================================================================
