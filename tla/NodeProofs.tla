----------------------------- MODULE NodeProofs -----------------------------
(***************************************************************************)
(* Every Listener of a node has one who will close it, and what a node     *)
(* serves was accepted by a user, once: for any number of nodes, and of    *)
(* connections, offers, lines and faults.                                  *)
(*                                                                         *)
(* The program keeps an offer in three places: its Listener is registered  *)
(* in the hub, its number is in lastOffered, and its goroutine serves it.  *)
(* The invariant says that a number is lastOffered of the node that made   *)
(* it alone, that it is not served at the same time, and what the messages *)
(* on the wires may say.                                                   *)
(***************************************************************************)
EXTENDS Node, SequenceTheorems, TLAPS

-----------------------------------------------------------------------------
(* The types.                                                               *)

\* The types of messages.
Verbs == {"pair_request", "pair_accept", "pair_reject", "disconnect", "cancel", "complete", "accept", "reject",
           "offer", "offer_items", "trust_offer", "trust_answer"}

\* What a message may say, a user having accepted the offers y.
Said(y) == {m \in [type : Verbs, offer : Nat] : /\ m.type = "accept" => m.offer \in y
                                                /\ m.type \in {"offer", "offer_items"} => m.offer # 0}
Chan(y) == [from : Nodes, to : Nodes, open : SUBSET Nodes, wire : [Nodes -> Seq(Said(y))]]
Job(k) == [job : {"receive", "serve"}, at : Nodes, offer : Nat, chan : 1 .. k]
Question == [offer : Nat, chan : Nat]
Offer == [by : Nodes, to : Nodes]

Links == chans \in Seq(Chan(yes))
Paired == LET C == 0 .. Len(chans)
          IN active \in [Nodes -> C] /\ dialing \in [Nodes -> C] /\ arriving \in [Nodes -> C]
Asked == coming \in [Nodes -> Nat] /\ asked \in [Nodes -> Question] /\ trust \in [Nodes -> Nat]
Offering == offers \in Seq(Offer) /\ last \in [Nodes -> 0 .. Len(offers)] /\ joinable \subseteq 1 .. Len(offers)
Working ==
  LET J == Job(Len(chans))
  IN /\ jobs \subseteq J /\ stopped \subseteq jobs /\ full \subseteq jobs
     /\ cancel \in [Nodes -> J \cup {None}] /\ resume \in [Nodes -> J \cup {None}]
Counted == up \in [Nodes -> BOOLEAN] /\ count \in [lines : Nat, faults : Nat] /\ yes \subseteq Nat \ {0}

\* Types, and the numbers of connections and of offers in their ranges.
TypeOK == Links /\ Paired /\ Asked /\ Offering /\ Working /\ Counted

-----------------------------------------------------------------------------
(* The invariant.                                                           *)

\* A question on the screen is of an offer, and the node is paired.
Asking == \A n \in Nodes : /\ asked[n] # NoQuestion => active[n] # 0 /\ asked[n].offer # 0
                           /\ trust[n] # 0 => active[n] # 0

\* lastOffered is of the node's own.
Mine == \A n \in Nodes : last[n] # 0 => offers[last[n]].by = n

\* What is served is an offer of the node that serves it, and no lastOffered any more.
Serving(j) == /\ j.offer \in 1 .. Len(offers) /\ offers[j.offer].by = j.at
              /\ \A n \in Nodes : last[n] # j.offer
Served == \A j \in jobs : j.job = "serve" => Serving(j)

\* All of it that is about offers.
OffersGood == Offering /\ Mine /\ Served /\ OffersAreHeld /\ ServedWasAccepted

IInv == TypeOK /\ Asking /\ OffersGood
-----------------------------------------------------------------------------
(* Lemmas on the connections.                                               *)

\* Offers accepted later leave what was said true.
LEMMA SaidLater ==
  ASSUME NEW y, NEW z, y \subseteq z
  PROVE  Seq(Chan(y)) \subseteq Seq(Chan(z))
<1>1. Seq(Said(y)) \subseteq Seq(Said(z))
  <2>1. Said(y) \subseteq Said(z)
    BY DEF Said
  <2> QED
    BY <2>1, SeqMonotonic
<1>2. Chan(y) \subseteq Chan(z)
  <2> SUFFICES ASSUME NEW c \in Chan(y) PROVE c \in Chan(z)
    OBVIOUS
  <2>1. c.wire \in [Nodes -> Seq(Said(z))]
    BY <1>1 DEF Chan
  <2> QED
    BY <2>1 DEF Chan
<1> QED
  BY <1>2, SeqMonotonic

\* A connection gets another queue, which says what it may.
Wired(cs, c, n, q) == [cs EXCEPT ![c].wire[n] = q]
LEMMA Rewired ==
  ASSUME NEW y, NEW cs \in Seq(Chan(y)), NEW c \in 1 .. Len(cs), NEW n \in Nodes, NEW q \in Seq(Said(y))
  PROVE  Wired(cs, c, n, q) \in Seq(Chan(y)) /\ Len(Wired(cs, c, n, q)) = Len(cs)
<1> DEFINE r == [cs[c] EXCEPT !.wire[n] = q]
<1>1. cs[c] \in Chan(y)
  BY ElementOfSeq
<1>2. r \in Chan(y)
  BY <1>1 DEF Chan
<1>3. Wired(cs, c, n, q) = [cs EXCEPT ![c] = r]
  BY DEF Wired
<1> HIDE DEF r
<1> QED
  BY <1>2, <1>3, ExceptSeq

\* What a node sends on a connection.
LEMMA SentSays ==
  ASSUME Links, NEW y, NEW cs \in Seq(Chan(y)), Len(cs) = Len(chans), NEW c \in 1 .. Len(chans), NEW n \in Nodes,
         NEW ms \in Seq(Said(y))
  PROVE  Sent(cs, n, c, ms) \in Seq(Chan(y)) /\ Len(Sent(cs, n, c, ms)) = Len(chans)
<1> DEFINE o == Other(n, c)
           q == cs[c].wire[o] \o ms
<1>1. o \in Nodes
  <2>1. chans[c] \in Chan(yes)
    BY ElementOfSeq DEF Links
  <2> QED
    BY <2>1 DEF Other, Chan
<1>2. q \in Seq(Said(y))
  <2>1. cs[c] \in Chan(y)
    BY ElementOfSeq
  <2>2. cs[c].wire[o] \in Seq(Said(y))
    BY <1>1, <2>1 DEF Chan
  <2> QED
    BY <2>2, ConcatProperties
<1>3. Sent(cs, n, c, ms) = cs \/ Sent(cs, n, c, ms) = Wired(cs, c, o, q)
  BY DEF Sent, Wired
<1> HIDE DEF o, q
<1> QED
  BY <1>1, <1>2, <1>3, Rewired

\* One side closes it.
LEMMA ClosedSays ==
  ASSUME NEW y, NEW cs \in Seq(Chan(y)), NEW c \in 1 .. Len(cs), NEW n
  PROVE  Closed(cs, n, c) \in Seq(Chan(y)) /\ Len(Closed(cs, n, c)) = Len(cs)
<1> DEFINE r == [cs[c] EXCEPT !.open = @ \ {n}]
<1>1. cs[c] \in Chan(y)
  BY ElementOfSeq
<1>2. r \in Chan(y)
  BY <1>1 DEF Chan
<1>3. Closed(cs, n, c) = [cs EXCEPT ![c] = r]
  BY DEF Closed
<1> HIDE DEF r
<1> QED
  BY <1>2, <1>3, ExceptSeq

\* The first message of a queue, and what is left when it is read.
LEMMA TakenSays ==
  ASSUME Links, NEW c \in 1 .. Len(chans), NEW n \in Nodes, chans[c].wire[n] # <<>>
  PROVE  /\ Head(chans[c].wire[n]) \in Said(yes)
         /\ Taken(n, c) \in Seq(Chan(yes)) /\ Len(Taken(n, c)) = Len(chans)
<1> DEFINE q == chans[c].wire[n]
<1>1. q \in Seq(Said(yes)) /\ q # <<>>
  <2>1. chans[c] \in Chan(yes)
    BY ElementOfSeq DEF Links
  <2> QED
    BY <2>1 DEF Chan
<1>2. Taken(n, c) = Wired(chans, c, n, Tail(q))
  BY DEF Taken, Wired
<1> HIDE DEF q
<1>3. Tail(q) \in Seq(Said(yes)) /\ Head(q) \in Said(yes)
  BY <1>1, HeadTailProperties
<1>4. chans \in Seq(Chan(yes))
  BY DEF Links
<1>5. Wired(chans, c, n, Tail(q)) \in Seq(Chan(yes)) /\ Len(Wired(chans, c, n, Tail(q))) = Len(chans)
  BY <1>3, <1>4, Rewired
<1> QED
  BY <1>2, <1>3, <1>5 DEF q

\* Words without an offer, and with one.
LEMMA Words ==
  ASSUME NEW y, NEW type \in Verbs, NEW o \in Nat,
         type = "accept" => o \in y, type \in {"offer", "offer_items"} => o # 0
  PROVE  Msg(type, o) \in Said(y) /\ <<Msg(type, o)>> \in Seq(Said(y))
<1>1. Msg(type, o) \in Said(y)
  BY DEF Msg, Said
<1> QED
  BY <1>1
-----------------------------------------------------------------------------
(* What a step leaves as it was.                                            *)

\* The connections after a step that opens none.
Linked == chans' \in Seq(Chan(yes')) /\ Len(chans') = Len(chans)

LEMMA LinksKept ==
  ASSUME IInv, UNCHANGED chans, yes \subseteq yes'
  PROVE  Linked
<1>1. Seq(Chan(yes)) \subseteq Seq(Chan(yes'))
  BY SaidLater
<1> QED
  BY <1>1 DEF Linked, IInv, TypeOK, Links

LEMMA PairedKept ==
  ASSUME IInv, Linked, UNCHANGED pairing
  PROVE  Paired'
BY DEF Linked, IInv, TypeOK, Paired, pairing

LEMMA PairedNow ==
  ASSUME Linked, LET C == 0 .. Len(chans)
                 IN active' \in [Nodes -> C] /\ dialing' \in [Nodes -> C] /\ arriving' \in [Nodes -> C]
  PROVE  Paired'
BY DEF Linked, Paired

LEMMA AskingKept ==
  ASSUME IInv, UNCHANGED <<active, coming, asked, trust>>
  PROVE  Asked' /\ Asking'
BY DEF IInv, TypeOK, Asked, Asking

LEMMA WorkKept ==
  ASSUME IInv, Linked, jobs' \subseteq jobs, stopped' \subseteq jobs', full' \subseteq jobs',
         cancel' \in [Nodes -> Job(Len(chans)) \cup {None}], resume' \in [Nodes -> Job(Len(chans)) \cup {None}]
  PROVE  Working'
BY DEF Linked, IInv, TypeOK, Working

\* The same jobs, stopped and cancelled or not.
LEMMA CancelIs ==
  ASSUME IInv, NEW n, CancelTransfer(n) \/ UNCHANGED <<stopped, cancel>>
  PROVE  stopped' \subseteq jobs /\ cancel' \in [Nodes -> Job(Len(chans)) \cup {None}]
<1> DEFINE K == Job(Len(chans)) \cup {None}
<1>1. stopped \subseteq jobs /\ cancel \in [Nodes -> K]
  BY DEF IInv, TypeOK, Working
<1>2. None \in K
  OBVIOUS
<1> HIDE DEF K
<1>3. cancel' \in [Nodes -> K]
  BY <1>1, <1>2 DEF CancelTransfer
<1>4. stopped' \subseteq jobs
  BY <1>1 DEF CancelTransfer
<1> QED
  BY <1>3, <1>4 DEF K

LEMMA ResumeIs ==
  ASSUME IInv, NEW n, TakesResume(n) \/ UNCHANGED resume
  PROVE  resume' \in [Nodes -> Job(Len(chans)) \cup {None}]
<1> DEFINE K == Job(Len(chans)) \cup {None}
<1>1. resume \in [Nodes -> K] /\ None \in K
  BY DEF IInv, TypeOK, Working
<1> HIDE DEF K
<1>2. resume' \in [Nodes -> K]
  BY <1>1 DEF TakesResume
<1> QED
  BY <1>2 DEF K

\* No job begins or ends.
LEMMA JobsKept ==
  ASSUME IInv, Linked, NEW n, UNCHANGED <<jobs, full>>, CancelTransfer(n) \/ UNCHANGED <<stopped, cancel>>,
         TakesResume(n) \/ UNCHANGED resume
  PROVE  Working'
<1>1. stopped' \subseteq jobs /\ cancel' \in [Nodes -> Job(Len(chans)) \cup {None}]
  BY CancelIs
<1>2. resume' \in [Nodes -> Job(Len(chans)) \cup {None}]
  BY ResumeIs
<1>3. full \subseteq jobs
  BY DEF IInv, TypeOK, Working
<1> QED
  BY <1>1, <1>2, <1>3, WorkKept

\* No offer is made or withdrawn, and none begins or ends to be served.
LEMMA OffersKept ==
  ASSUME IInv, UNCHANGED offering, yes \subseteq yes',
         \A j : j.job = "serve" => (j \in jobs' <=> j \in jobs)
  PROVE  OffersGood'
<1>1. Offering' /\ Mine'
  BY DEF IInv, OffersGood, Offering, Mine, offering
<1>2. Served'
  BY DEF IInv, OffersGood, Served, Serving, offering
<1>3. OffersAreHeld'
  BY DEF IInv, OffersGood, OffersAreHeld, offering
<1>4. ServedWasAccepted'
  BY DEF IInv, OffersGood, ServedWasAccepted
<1> QED
  BY <1>1, <1>2, <1>3, <1>4 DEF OffersGood

\* What a node offered last, or another one, is withdrawn.
LEMMA Withdrawn ==
  ASSUME IInv, NEW n \in Nodes, Withdraws(n), UNCHANGED <<jobs, yes>>
  PROVE  OffersGood'
<1>1. Offering
  BY DEF IInv, OffersGood
<1>2. /\ last' \in [Nodes -> 0 .. Len(offers)] /\ UNCHANGED offers /\ joinable' = joinable \ {last[n]}
      /\ \A m \in Nodes : last'[m] = IF m = n THEN 0 ELSE last[m]
  BY <1>1, LenProperties DEF Withdraws, Offering
<1>3. Offering'
  BY <1>1, <1>2 DEF Offering
<1>4. Mine'
  BY <1>2 DEF IInv, OffersGood, Mine
<1>5. Served'
  BY <1>2 DEF IInv, OffersGood, Served, Serving
<1>6. OffersAreHeld'
  BY <1>2 DEF IInv, OffersGood, OffersAreHeld
<1>7. ServedWasAccepted'
  BY DEF IInv, OffersGood, ServedWasAccepted
<1> QED
  BY <1>3, <1>4, <1>5, <1>6, <1>7 DEF OffersGood

\* A node forgets its session.
LEMMA SessionEnded ==
  ASSUME IInv, Linked, NEW n \in Nodes, EndsSession(n), UNCHANGED <<dialing, arriving, jobs, yes>>
  PROVE  Paired' /\ Asked' /\ Asking' /\ OffersGood'
<1>1. OffersGood'
  BY Withdrawn DEF EndsSession
<1>2. Paired'
  BY DEF EndsSession, IInv, TypeOK, Paired, Linked, Links
<1>3. Asked'
  BY DEF EndsSession, ForgetsAsked, ForgetsTrust, IInv, TypeOK, Asked, NoQuestion, Question
<1>4. Asking'
  BY <1>3 DEF EndsSession, ForgetsAsked, ForgetsTrust, IInv, TypeOK, Asked, Asking, Paired, NoQuestion
<1> QED
  BY <1>1, <1>2, <1>3, <1>4

\* A session starts.
LEMMA SessionStarts ==
  ASSUME IInv, NEW n \in Nodes, NEW c, c # 0, Starts(n, c), UNCHANGED asking
  PROVE  Asked' /\ Asking'
<1>1. Asked'
  BY DEF IInv, TypeOK, Asked, asking
<1>2. Asking'
  BY DEF IInv, TypeOK, Paired, Asking, asking, Starts
<1> QED
  BY <1>1, <1>2

LEMMA Kept ==
  ASSUME Linked, Paired', Asked', Asking', OffersGood', Working', Counted'
  PROVE  IInv'
BY DEF Linked, IInv, TypeOK, Links, OffersGood
-----------------------------------------------------------------------------
(* Pairing.                                                                 *)

\* The numbers of connections.
LEMMA ChanNumbers ==
  ASSUME IInv
  PROVE  /\ Links /\ Len(chans) \in Nat /\ DOMAIN chans = 1 .. Len(chans)
         /\ \A n \in Nodes : /\ active[n] # 0 => active[n] \in 1 .. Len(chans)
                             /\ dialing[n] # 0 => dialing[n] \in 1 .. Len(chans)
                             /\ arriving[n] # 0 => arriving[n] \in 1 .. Len(chans)
<1>1. Links /\ Len(chans) \in Nat /\ DOMAIN chans = 1 .. Len(chans)
  BY LenProperties DEF IInv, TypeOK, Links
<1> QED
  BY <1>1 DEF IInv, TypeOK, Paired

LEMMA PairStep ==
  ASSUME IInv, NEW n \in Nodes, NEW m \in Nodes, Pair(n, m)
  PROVE  IInv'
<1> DEFINE r == [from |-> n, to |-> m, open |-> {n, m},
                 wire |-> [k \in Nodes |-> IF k = m THEN <<Msg("pair_request", 0)>> ELSE <<>>]]
<1>1. r \in Chan(yes)
  <2>1. <<Msg("pair_request", 0)>> \in Seq(Said(yes))
    BY Words DEF Verbs
  <2>2. << >> \in Seq(Said(yes))
    OBVIOUS
  <2>3. r.wire \in [Nodes -> Seq(Said(yes))]
    BY <2>1, <2>2
  <2> QED
    BY <2>3 DEF Chan
<1>2. chans \in Seq(Chan(yes)) /\ UNCHANGED yes /\ chans' = Append(chans, r)
  BY DEF Pair, IInv, TypeOK, Links
<1> HIDE DEF r
<1>3. Links' /\ Len(chans') = Len(chans) + 1 /\ Len(chans) \in Nat
  BY <1>1, <1>2, AppendProperties, LenProperties DEF Links
<1>4. Paired'
  BY <1>3 DEF Pair, IInv, TypeOK, Paired
<1>5. Asked' /\ Asking'
  BY AskingKept DEF Pair, asking
<1>6. OffersGood'
  BY OffersKept DEF Pair, serving
<1>7. Working'
  <2>1. Job(Len(chans)) \subseteq Job(Len(chans'))
    BY <1>3 DEF Job
  <2>2. UNCHANGED <<jobs, stopped, cancel, full, resume>>
    BY DEF Pair, serving, disk
  <2> QED
    BY <2>1, <2>2 DEF IInv, TypeOK, Working
<1>8. Counted'
  BY DEF Pair, Command, Types, IInv, TypeOK, Counted
<1> QED
  BY <1>3, <1>4, <1>5, <1>6, <1>7, <1>8 DEF IInv, TypeOK, OffersGood

\* The node answers a request to pair that waits.
LEMMA Answered ==
  ASSUME IInv, NEW n \in Nodes, NEW c \in 1 .. Len(chans), Heard(n, c, "pair_request"),
         NEW type \in {"pair_reject", "pair_accept"}
  PROVE  LET cs == Sent(Taken(n, c), n, c, <<Msg(type, 0)>>)
         IN cs \in Seq(Chan(yes)) /\ Len(cs) = Len(chans)
<1>1. Links
  BY DEF IInv, TypeOK
<1>2. Taken(n, c) \in Seq(Chan(yes)) /\ Len(Taken(n, c)) = Len(chans)
  BY <1>1, TakenSays DEF Heard
<1>3. <<Msg(type, 0)>> \in Seq(Said(yes))
  BY Words DEF Verbs
<1> QED
  BY <1>1, <1>2, <1>3, SentSays

LEMMA RefusesStep ==
  ASSUME IInv, NEW n \in Nodes, NEW c \in 1 .. Len(chans), Refuses(n, c)
  PROVE  IInv'
<1>1. Linked
  <2> DEFINE cs == Sent(Taken(n, c), n, c, <<Msg("pair_reject", 0)>>)
  <2>1. cs \in Seq(Chan(yes)) /\ Len(cs) = Len(chans)
    BY Answered DEF Refuses, Listens
  <2>2. chans' = Closed(cs, n, c) /\ UNCHANGED yes
    BY DEF Refuses, Rejected, ghosts
  <2> HIDE DEF cs
  <2> QED
    BY <2>1, <2>2, ClosedSays DEF Linked
<1>2. Paired' /\ Asked' /\ Asking' /\ OffersGood'
  BY <1>1, PairedKept, AskingKept, OffersKept DEF Refuses, pairing, asking, serving, ghosts
<1>3. Working'
  BY <1>1, JobsKept DEF Refuses, serving, disk
<1>4. Counted'
  BY DEF Refuses, ghosts, IInv, TypeOK, Counted
<1> QED
  BY <1>1, <1>2, <1>3, <1>4, Kept

LEMMA AdmitsStep ==
  ASSUME IInv, NEW n \in Nodes, NEW c \in 1 .. Len(chans), Admits(n, c)
  PROVE  IInv'
<1>1. Linked
  BY Answered DEF Admits, Listens, Linked, ghosts
<1>2. Paired'
  <2>1. UNCHANGED <<active, dialing>> /\ arriving' = [arriving EXCEPT ![n] = c]
    BY DEF Admits
  <2> QED
    BY <1>1, <2>1, PairedNow, ChanNumbers DEF IInv, TypeOK, Paired
<1>3. Asked' /\ Asking' /\ OffersGood'
  BY AskingKept, OffersKept DEF Admits, asking, serving, ghosts
<1>4. Working'
  BY <1>1, JobsKept DEF Admits, serving, disk
<1>5. Counted'
  BY DEF Admits, ghosts, IInv, TypeOK, Counted
<1> QED
  BY <1>1, <1>2, <1>3, <1>4, <1>5, Kept

LEMMA TakesPairingStep ==
  ASSUME IInv, NEW n \in Nodes, TakesPairing(n)
  PROVE  IInv'
<1>1. arriving[n] \in 1 .. Len(chans) /\ Links
  BY ChanNumbers DEF TakesPairing
<1>2. ASSUME active[n] # 0 PROVE Linked
  <2> DEFINE cs == Sent(chans, n, arriving[n], <<Msg("disconnect", 0)>>)
  <2>1. <<Msg("disconnect", 0)>> \in Seq(Said(yes))
    BY Words DEF Verbs
  <2>2. cs \in Seq(Chan(yes)) /\ Len(cs) = Len(chans)
    BY <1>1, <2>1, SentSays DEF Links
  <2>3. chans' = Closed(cs, n, arriving[n]) /\ UNCHANGED <<active, yes>>
    BY <1>2 DEF TakesPairing, ghosts
  <2> HIDE DEF cs
  <2> QED
    BY <1>1, <2>2, <2>3, ClosedSays DEF Linked
<1>3. ASSUME active[n] = 0 PROVE Linked
  <2>1. UNCHANGED chans /\ UNCHANGED yes /\ Starts(n, arriving[n])
    BY <1>3 DEF TakesPairing, ghosts
  <2> QED
    BY <2>1, LinksKept
<1>4. Linked
  BY <1>2, <1>3
<1>5. Paired'
  <2>1. UNCHANGED dialing /\ arriving' = [arriving EXCEPT ![n] = 0]
    BY DEF TakesPairing
  <2>2. active' = active \/ active' = [active EXCEPT ![n] = arriving[n]]
    BY DEF TakesPairing, Starts
  <2> DEFINE C == 0 .. Len(chans)
  <2>3. active \in [Nodes -> C] /\ dialing \in [Nodes -> C] /\ arriving \in [Nodes -> C]
        /\ arriving[n] \in C /\ 0 \in C
    BY <1>1, ChanNumbers DEF IInv, TypeOK, Paired
  <2> HIDE DEF C
  <2>4. active' \in [Nodes -> C] /\ dialing' \in [Nodes -> C] /\ arriving' \in [Nodes -> C]
    BY <2>1, <2>2, <2>3
  <2> QED
    BY <1>4, <2>4, PairedNow DEF C
<1>6. Asked' /\ Asking'
  BY <1>1, AskingKept, SessionStarts DEF TakesPairing, asking
<1>7. OffersGood'
  BY OffersKept DEF TakesPairing, serving, ghosts
<1>8. Working'
  BY <1>4, JobsKept DEF TakesPairing, serving, disk
<1>9. Counted'
  BY DEF TakesPairing, ghosts, IInv, TypeOK, Counted
<1> QED
  BY <1>4, <1>5, <1>6, <1>7, <1>8, <1>9, Kept

LEMMA AcceptedStep ==
  ASSUME IInv, NEW n \in Nodes, Accepted(n)
  PROVE  IInv'
<1>1. dialing[n] \in 1 .. Len(chans) /\ Links
  BY ChanNumbers DEF Accepted
<1>2. Linked
  BY <1>1, TakenSays DEF Accepted, Heard, Linked, ghosts
<1>3. Paired'
  BY <1>1, <1>2, LenProperties DEF Accepted, Starts, Linked, IInv, TypeOK, Paired, Links
<1>4. Asked' /\ Asking'
  BY <1>1, SessionStarts DEF Accepted
<1>5. OffersGood'
  BY OffersKept DEF Accepted, serving, ghosts
<1>6. Working'
  BY <1>2, JobsKept DEF Accepted, serving, disk
<1>7. Counted'
  BY DEF Accepted, ghosts, IInv, TypeOK, Counted
<1> QED
  BY <1>2, <1>3, <1>4, <1>5, <1>6, <1>7, Kept

LEMMA NotPairedStep ==
  ASSUME IInv, NEW n \in Nodes, NotPaired(n)
  PROVE  IInv'
<1>1. dialing[n] \in 1 .. Len(chans) /\ Links
  BY ChanNumbers DEF NotPaired
<1>2. Linked
  BY <1>1, ClosedSays DEF NotPaired, Links, Linked, ghosts
<1>3. Paired'
  BY <1>2, LenProperties DEF NotPaired, Linked, IInv, TypeOK, Paired, Links
<1>4. Asked' /\ Asking' /\ OffersGood'
  BY AskingKept, OffersKept DEF NotPaired, asking, serving, ghosts
<1>5. Working'
  BY <1>2, JobsKept DEF NotPaired, serving, disk
<1>6. Counted'
  BY DEF NotPaired, ghosts, IInv, TypeOK, Counted
<1> QED
  BY <1>2, <1>3, <1>4, <1>5, <1>6, Kept
-----------------------------------------------------------------------------
(* What the user types.                                                     *)

\* One message on the session there is.
LEMMA Says ==
  ASSUME IInv, NEW n \in Nodes, active[n] # 0, NEW y, yes \subseteq y, NEW type \in Verbs, NEW o \in Nat,
         type = "accept" => o \in y, type \in {"offer", "offer_items"} => o # 0
  PROVE  LET cs == Sent(chans, n, active[n], <<Msg(type, o)>>)
         IN cs \in Seq(Chan(y)) /\ Len(cs) = Len(chans)
<1>1. Links /\ active[n] \in 1 .. Len(chans)
  BY ChanNumbers
<1>2. chans \in Seq(Chan(y))
  BY <1>1, SaidLater DEF Links
<1>3. <<Msg(type, o)>> \in Seq(Said(y))
  BY Words
<1> QED
  BY <1>1, <1>2, <1>3, SentSays

\* What is on the screen.
LEMMA Screen ==
  ASSUME IInv, NEW n \in Nodes
  PROVE  /\ asked[n] # NoQuestion => active[n] # 0 /\ asked[n].offer \in Nat \ {0}
         /\ trust[n] # 0 => active[n] # 0
         /\ yes \subseteq Nat \ {0}
<1>1. asked[n] \in Question
  BY DEF IInv, TypeOK, Asked
<1> QED
  BY <1>1 DEF IInv, TypeOK, Asking, Question, Counted

LEMMA EnterStep ==
  ASSUME IInv, NEW n \in Nodes, Enter(n)
  PROVE  IInv'
<1>1. Linked
  BY LinksKept DEF Enter, ghosts
<1>2. Paired' /\ Asked' /\ Asking' /\ OffersGood'
  BY <1>1, PairedKept, AskingKept, OffersKept DEF Enter, pairing, asking, serving, ghosts
<1>3. Working'
  <2>1. resume' \in [Nodes -> Job(Len(chans)) \cup {None}]
    BY ResumeIs DEF Enter
  <2> QED
    BY <1>1, <2>1, WorkKept DEF Enter, serving, IInv, TypeOK, Working
<1>4. Counted'
  BY DEF Enter, ghosts, IInv, TypeOK, Counted
<1> QED
  BY <1>1, <1>2, <1>3, <1>4, Kept

LEMMA AnswersTrustStep ==
  ASSUME IInv, NEW n \in Nodes, AnswersTrust(n)
  PROVE  IInv'
<1>1. Linked
  <2>1. CASE UNCHANGED chans
    BY <2>1, LinksKept DEF AnswersTrust, ghosts
  <2>2. CASE chans' = Sent(chans, n, active[n], <<Msg("trust_answer", 0)>>)
    BY <2>2, Screen, Says DEF AnswersTrust, Verbs, Linked, ghosts
  <2> QED
    BY <2>1, <2>2 DEF AnswersTrust
<1>2. Paired' /\ OffersGood'
  BY <1>1, PairedKept, OffersKept DEF AnswersTrust, serving, ghosts
<1>3. Asked' /\ Asking'
  BY DEF AnswersTrust, ForgetsTrust, pairing, IInv, TypeOK, Asked, Asking
<1>4. Working'
  BY <1>1, JobsKept DEF AnswersTrust, serving
<1>5. Counted'
  BY DEF AnswersTrust, ghosts, IInv, TypeOK, Counted
<1> QED
  BY <1>1, <1>2, <1>3, <1>4, <1>5, Kept

\* The question is answered.
LEMMA QuestionGone ==
  ASSUME IInv, NEW n, ForgetsAsked(n), UNCHANGED <<active, coming, trust>>
  PROVE  Asked' /\ Asking'
BY DEF ForgetsAsked, IInv, TypeOK, Asked, Asking, NoQuestion, Question

LEMMA DeclinesStep ==
  ASSUME IInv, NEW n \in Nodes, Declines(n)
  PROVE  IInv'
<1>1. Linked
  BY Screen, Says DEF Declines, Answers, Verbs, Linked, ghosts
<1>2. Paired' /\ Asked' /\ Asking' /\ OffersGood'
  BY <1>1, PairedKept, QuestionGone, OffersKept DEF Declines, Answers, pairing, serving, ghosts
<1>3. Working'
  BY <1>1, JobsKept DEF Declines, Answers, serving
<1>4. Counted'
  BY DEF Declines, ghosts, IInv, TypeOK, Counted
<1> QED
  BY <1>1, <1>2, <1>3, <1>4, Kept

LEMMA NoSpaceStep ==
  ASSUME IInv, NEW n \in Nodes, NoSpace(n)
  PROVE  IInv'
<1>1. Linked
  BY Screen, Says DEF NoSpace, Fault, Answers, Verbs, Linked
<1>2. Paired' /\ Asked' /\ Asking' /\ OffersGood'
  BY <1>1, PairedKept, QuestionGone, OffersKept DEF NoSpace, Fault, Answers, pairing
<1>3. Working'
  BY <1>1, JobsKept DEF NoSpace, Answers
<1>4. Counted'
  BY DEF NoSpace, Fault, IInv, TypeOK, Counted
<1> QED
  BY <1>1, <1>2, <1>3, <1>4, Kept

\* A job begins, which the next cancel is of.
LEMMA JobBegins ==
  ASSUME IInv, Linked, NEW n, NEW j \in Job(Len(chans)), jobs' = jobs \cup {j}, cancel' = [cancel EXCEPT ![n] = j],
         stopped' \subseteq jobs, full' = full, TakesResume(n) \/ UNCHANGED resume
  PROVE  Working'
<1> DEFINE J == Job(Len(chans))
           K == J \cup {None}
<1>1. resume' \in [Nodes -> K]
  BY ResumeIs
<1>2. j \in J /\ j \in K /\ cancel \in [Nodes -> K] /\ jobs \subseteq J /\ full \subseteq jobs
  BY DEF IInv, TypeOK, Working
<1> HIDE DEF K
<1>3. cancel' \in [Nodes -> K]
  BY <1>2
<1> HIDE DEF J
<1>4. jobs' \subseteq J /\ stopped' \subseteq jobs' /\ full' \subseteq jobs'
  BY <1>2
<1> QED
  BY <1>1, <1>3, <1>4 DEF J, K, Linked, Working

LEMMA AcceptsStep ==
  ASSUME IInv, NEW n \in Nodes, Accepts(n)
  PROVE  IInv'
<1>1. active[n] # 0 /\ asked[n].offer \in Nat \ {0} /\ yes \subseteq Nat \ {0}
  BY Screen DEF Accepts, Answers
<1>2. yes' = yes \cup {asked[n].offer}
  BY DEF Accepts
<1>3. Linked
  BY <1>1, <1>2, Says DEF Accepts, Verbs, Linked
<1> DEFINE j == Receives(n, asked[n].offer, active[n])
<1>4. /\ j \in Job(Len(chans)) /\ j.job = "receive"
      /\ jobs' = jobs \cup {j} /\ cancel' = [cancel EXCEPT ![n] = j]
  BY <1>1, ChanNumbers DEF Accepts, Receives, Job
<1> HIDE DEF j
<1>5. Paired' /\ Asked' /\ Asking'
  BY <1>3, PairedKept, QuestionGone DEF Accepts, Answers, pairing
<1>6. OffersGood'
  BY <1>2, <1>4, OffersKept DEF Accepts
<1>7. Working'
  <2>1. stopped' \subseteq jobs
    BY DEF Accepts, IInv, TypeOK, Working
  <2> QED
    BY <1>3, <1>4, <2>1, JobBegins DEF Accepts, Answers
<1>8. Counted'
  BY <1>1, <1>2 DEF Accepts, IInv, TypeOK, Counted
<1> QED
  BY <1>3, <1>5, <1>6, <1>7, <1>8, Kept

LEMMA DisconnectStep ==
  ASSUME IInv, NEW n \in Nodes, Disconnect(n)
  PROVE  IInv'
<1> DEFINE cs == Sent(chans, n, active[n], <<Msg("disconnect", 0)>>)
<1>1. cs \in Seq(Chan(yes)) /\ Len(cs) = Len(chans)
  BY Says DEF Disconnect, Verbs
<1>2. active[n] \in 1 .. Len(chans) /\ chans' = Closed(cs, n, active[n]) /\ UNCHANGED yes
  BY ChanNumbers DEF Disconnect
<1> HIDE DEF cs
<1>3. Linked
  BY <1>1, <1>2, ClosedSays DEF Linked
<1>4. Paired' /\ Asked' /\ Asking' /\ OffersGood'
  BY <1>3, SessionEnded DEF Disconnect, serving
<1>5. Working'
  BY <1>3, JobsKept DEF Disconnect, serving, disk
<1>6. Counted'
  BY DEF Disconnect, Command, Types, IInv, TypeOK, Counted
<1> QED
  BY <1>3, <1>4, <1>5, <1>6, Kept

LEMMA StopStep ==
  ASSUME IInv, NEW n \in Nodes, Stop(n)
  PROVE  IInv'
<1>1. Linked
  <2>1. UNCHANGED yes
    BY DEF Stop
  <2>2. CASE active[n] = 0
    BY <2>1, <2>2, LinksKept DEF Stop
  <2>3. CASE active[n] # 0
    BY <2>1, <2>3, Says DEF Stop, Verbs, Linked
  <2> QED
    BY <2>2, <2>3
<1>2. Paired' /\ Asked' /\ Asking' /\ OffersGood'
  BY <1>1, PairedKept, AskingKept, OffersKept DEF Stop, pairing, asking
<1>3. Working'
  BY <1>1, JobsKept DEF Stop, disk
<1>4. Counted'
  BY DEF Stop, Command, Types, IInv, TypeOK, Counted
<1> QED
  BY <1>1, <1>2, <1>3, <1>4, Kept

LEMMA TrustsStep ==
  ASSUME IInv, NEW n \in Nodes, Trusts(n)
  PROVE  IInv'
<1>1. Linked
  BY Says DEF Trusts, Verbs, Linked
<1>2. Paired' /\ Asked' /\ Asking' /\ OffersGood'
  BY <1>1, PairedKept, AskingKept, OffersKept DEF Trusts, pairing, asking, serving
<1>3. Working'
  BY <1>1, JobsKept DEF Trusts, serving, disk
<1>4. Counted'
  BY DEF Trusts, Command, Types, IInv, TypeOK, Counted
<1> QED
  BY <1>1, <1>2, <1>3, <1>4, Kept
\* A new offer has the next number, which nothing has yet.
LEMMA Registered ==
  ASSUME IInv, NEW n \in Nodes, Registers(n, Len(offers) + 1), Other(n, active[n]) \in Nodes, UNCHANGED <<jobs, yes>>
  PROVE  OffersGood'
<1> DEFINE o == Len(offers) + 1
           r == [by |-> n, to |-> Other(n, active[n])]
<1>1. /\ offers \in Seq(Offer) /\ Len(offers) \in Nat /\ r \in Offer /\ r.by = n
      /\ last \in [Nodes -> 0 .. Len(offers)] /\ joinable \subseteq 1 .. Len(offers)
  BY LenProperties DEF IInv, OffersGood, Offering, Offer
<1>2. /\ offers' = Append(offers, r) /\ joinable' = (joinable \cup {o}) \ {last[n]} /\ last' = [last EXCEPT ![n] = o]
  BY DEF Registers
<1> HIDE DEF r
<1>3. /\ offers' \in Seq(Offer) /\ Len(offers') = Len(offers) + 1 /\ offers'[o].by = n
      /\ \A i \in 1 .. Len(offers) : offers'[i] = offers[i]
  BY <1>1, <1>2, AppendProperties
<1>4. \A m \in Nodes : last'[m] = (IF m = n THEN o ELSE last[m]) /\ last[m] \in 0 .. Len(offers)
  BY <1>1, <1>2
<1>5. Offering'
  <2> DEFINE L == 0 .. Len(offers')
  <2>1. last \in [Nodes -> L] /\ o \in L
    BY <1>1, <1>3
  <2>2. joinable' \subseteq 1 .. Len(offers')
    <3>1. joinable' \subseteq joinable \cup {o}
      BY <1>2
    <3>2. \A i \in 1 .. Len(offers) : i \in 1 .. Len(offers')
      BY <1>1, <1>3
    <3>3. o \in 1 .. Len(offers')
      BY <1>1, <1>3
    <3> HIDE DEF o
    <3> QED
      BY <1>1, <3>1, <3>2, <3>3
  <2> HIDE DEF L, o
  <2>3. last' \in [Nodes -> L]
    BY <1>2, <2>1
  <2> QED
    BY <1>3, <2>2, <2>3 DEF Offering, L
<1>6. Mine'
  BY <1>1, <1>3, <1>4 DEF IInv, OffersGood, Mine
<1>7. Served'
  BY <1>1, <1>3, <1>4 DEF IInv, OffersGood, Served, Serving
<1>8. OffersAreHeld'
  BY <1>1, <1>2, <1>4 DEF IInv, OffersGood, OffersAreHeld
<1>9. ServedWasAccepted'
  BY DEF IInv, OffersGood, ServedWasAccepted
<1> QED
  BY <1>5, <1>6, <1>7, <1>8, <1>9 DEF OffersGood

LEMMA OtherIsNode ==
  ASSUME Links, NEW n \in Nodes, NEW c \in 1 .. Len(chans)
  PROVE  Other(n, c) \in Nodes
<1>1. chans[c] \in Chan(yes)
  BY ElementOfSeq DEF Links
<1> QED
  BY <1>1 DEF Other, Chan

LEMMA SendStep ==
  ASSUME IInv, NEW n \in Nodes, Send(n)
  PROVE  IInv'
<1>1. active[n] \in 1 .. Len(chans) /\ Links /\ Len(offers) \in Nat
  BY ChanNumbers, LenProperties DEF Send, IInv, OffersGood, Offering
<1>2. Linked
  <2> DEFINE o == Len(offers) + 1
  <2>1. o \in Nat /\ o # 0
    BY <1>1
  <2> HIDE DEF o
  <2>2. Msg("offer", o) \in Said(yes) /\ Msg("offer_items", o) \in Said(yes)
    BY <2>1, Words DEF Verbs
  <2>3. Pages(o) \in Seq(Said(yes))
    BY <2>2 DEF Pages
  <2>4. chans' = Sent(chans, n, active[n], Pages(o)) /\ UNCHANGED yes
    BY DEF Send, o
  <2> QED
    BY <1>1, <2>3, <2>4, SentSays DEF Linked, Links
<1>3. OffersGood'
  BY <1>1, Registered, OtherIsNode DEF Send
<1>4. Paired' /\ Asked' /\ Asking'
  BY <1>2, PairedKept, AskingKept DEF Send, pairing, asking
<1>5. Working'
  BY <1>2, JobsKept DEF Send, disk
<1>6. Counted'
  BY DEF Send, Command, Types, IInv, TypeOK, Counted
<1> QED
  BY <1>2, <1>3, <1>4, <1>5, <1>6, Kept

\* The program is gone: so are the offers it made and its jobs.
LEMMA OffersGone ==
  ASSUME IInv, NEW n \in Nodes, last' = [last EXCEPT ![n] = 0], UNCHANGED <<offers, yes>>,
         joinable' = {o \in joinable : offers[o].by # n}, jobs' = {j \in jobs : j.at # n}
  PROVE  OffersGood'
<1>1. /\ offers \in Seq(Offer) /\ Len(offers) \in Nat
      /\ last \in [Nodes -> 0 .. Len(offers)] /\ joinable \subseteq 1 .. Len(offers)
  BY LenProperties DEF IInv, OffersGood, Offering
<1>2. \A m \in Nodes : last'[m] = IF m = n THEN 0 ELSE last[m]
  BY <1>1
<1>3. Offering'
  <2> DEFINE L == 0 .. Len(offers)
  <2>1. last \in [Nodes -> L] /\ 0 \in L
    BY <1>1
  <2> HIDE DEF L
  <2>2. last' \in [Nodes -> L]
    BY <2>1
  <2> QED
    BY <1>1, <2>2 DEF Offering, L
<1>4. Mine'
  BY <1>2 DEF IInv, OffersGood, Mine
<1>5. Served'
  BY <1>2 DEF IInv, OffersGood, Served, Serving
<1>6. OffersAreHeld'
  <2> SUFFICES ASSUME NEW o \in joinable, offers[o].by # n
               PROVE  \/ \E m \in Nodes : last'[m] = o
                      \/ \E j \in jobs' : j.job = "serve" /\ j.offer = o
    BY DEF OffersAreHeld
  <2>1. o # 0
    BY <1>1
  <2>2. CASE \E m \in Nodes : last[m] = o
    BY <1>2, <2>1, <2>2 DEF IInv, OffersGood, Mine
  <2>3. CASE \E j \in jobs : j.job = "serve" /\ j.offer = o
    BY <2>3 DEF IInv, OffersGood, Served, Serving
  <2> QED
    BY <2>2, <2>3 DEF IInv, OffersGood, OffersAreHeld
<1>7. ServedWasAccepted'
  BY DEF IInv, OffersGood, ServedWasAccepted
<1> QED
  BY <1>3, <1>4, <1>5, <1>6, <1>7 DEF OffersGood

LEMMA ExitStep ==
  ASSUME IInv, NEW n \in Nodes, Exit(n)
  PROVE  IInv'
<1>1. Links /\ Len(chans) \in Nat
  BY ChanNumbers
<1>2. Linked
  <2>1. PICK said : /\ said = chans \/ (active[n] # 0 /\ said = Sent(chans, n, active[n], Goodbyes(n)))
                    /\ chans' = [c \in DOMAIN said |-> [said[c] EXCEPT !.open = @ \ {n}]]
    BY DEF Exit
  <2>2. said \in Seq(Chan(yes)) /\ Len(said) = Len(chans)
    <3>1. CASE said = chans
      BY <1>1, <3>1 DEF Links
    <3>2. CASE active[n] # 0 /\ said = Sent(chans, n, active[n], Goodbyes(n))
      <4>1. Msg("cancel", 0) \in Said(yes) /\ Msg("disconnect", 0) \in Said(yes)
        BY Words DEF Verbs
      <4>2. Goodbyes(n) \in Seq(Said(yes))
        BY <4>1 DEF Goodbyes
      <4> QED
        BY <1>1, <3>2, <4>2, SentSays, ChanNumbers DEF Links
    <3> QED
      BY <2>1, <3>1, <3>2
  <2> DEFINE S == Chan(yes)
             f(c) == [said[c] EXCEPT !.open = @ \ {n}]
  <2>3. \A c \in 1 .. Len(said) : f(c) \in S
    <3>1. \A c \in 1 .. Len(said) : said[c] \in Chan(yes)
      BY <2>2, ElementOfSeq
    <3> QED
      BY <3>1 DEF Chan
  <2>4. DOMAIN said = 1 .. Len(said) /\ Len(said) \in Nat
    BY <2>2, LenProperties
  <2>5. chans' = [c \in 1 .. Len(said) |-> f(c)]
    BY <2>1, <2>4
  <2> HIDE DEF S, f
  <2>6. chans' \in Seq(S) /\ Len(chans') = Len(said)
    BY <2>3, <2>4, <2>5, IsASeq
  <2> QED
    BY <2>2, <2>6 DEF Exit, Linked, S
<1>3. Paired'
  <2> DEFINE C == 0 .. Len(chans)
  <2>1. active \in [Nodes -> C] /\ dialing \in [Nodes -> C] /\ arriving \in [Nodes -> C] /\ 0 \in C
    BY <1>1 DEF IInv, TypeOK, Paired
  <2> HIDE DEF C
  <2>2. active' \in [Nodes -> C] /\ dialing' \in [Nodes -> C] /\ arriving' \in [Nodes -> C]
    BY <2>1 DEF Exit
  <2> QED
    BY <1>2, <2>2, PairedNow DEF C
<1>4. Asked'
  BY DEF Exit, ForgetsAsked, ForgetsTrust, IInv, TypeOK, Asked, NoQuestion, Question
<1>5. Asking'
  BY <1>4 DEF Exit, ForgetsAsked, ForgetsTrust, IInv, TypeOK, Asked, Asking, Paired, NoQuestion
<1>6. OffersGood'
  BY OffersGone DEF Exit
<1>7. Working'
  <2> DEFINE K == Job(Len(chans)) \cup {None}
  <2>1. cancel \in [Nodes -> K] /\ None \in K
    BY DEF IInv, TypeOK, Working
  <2> HIDE DEF K
  <2>2. cancel' \in [Nodes -> K]
    BY <2>1 DEF Exit
  <2>3. resume' \in [Nodes -> Job(Len(chans)) \cup {None}]
    BY ResumeIs DEF Exit
  <2>4. jobs' \subseteq jobs /\ stopped' \subseteq jobs' /\ full' \subseteq jobs'
    BY DEF Exit
  <2> QED
    BY <1>2, <2>2, <2>3, <2>4, WorkKept DEF K
<1>8. Counted'
  BY DEF Exit, Types, IInv, TypeOK, Counted
<1> QED
  BY <1>2, <1>3, <1>4, <1>5, <1>6, <1>7, <1>8, Kept
-----------------------------------------------------------------------------
(* What the session's reader brings.                                        *)

\* What a message says.
LEMMA Means ==
  ASSUME NEW y, NEW w \in Said(y)
  PROVE  /\ w.offer \in Nat /\ (w.type = "accept" => w.offer \in y)
         /\ (w.type \in {"offer", "offer_items"} => w.offer # 0)
  BY DEF Said

\* The message read, of the active session.
LEMMA ReadIs ==
  ASSUME IInv, NEW n \in Nodes, NEW type, Takes(n, type)
  PROVE  /\ active[n] \in 1 .. Len(chans) /\ Links
         /\ Asker(n) \in Nat /\ (type = "accept" => Asker(n) \in yes)
         /\ (type \in {"offer", "offer_items"} => Asker(n) # 0)
         /\ Taken(n, active[n]) \in Seq(Chan(yes)) /\ Len(Taken(n, active[n])) = Len(chans)
<1>1. active[n] \in 1 .. Len(chans) /\ Links /\ chans[active[n]].wire[n] # <<>>
  BY ChanNumbers DEF Takes, Heard
<1>2. Head(chans[active[n]].wire[n]) \in Said(yes)
  BY <1>1, TakenSays
<1>3. Head(chans[active[n]].wire[n]).type = type
  BY DEF Takes, Heard
<1>4. Taken(n, active[n]) \in Seq(Chan(yes)) /\ Len(Taken(n, active[n])) = Len(chans)
  BY <1>1, TakenSays
<1> QED
  BY <1>1, <1>2, <1>3, <1>4, Means DEF Asker

LEMMA Reads ==
  ASSUME IInv, NEW n \in Nodes, NEW type, Takes(n, type), Read(n), UNCHANGED yes
  PROVE  Linked
BY ReadIs DEF Read, Linked

LEMMA DropsStep ==
  ASSUME IInv, NEW n \in Nodes, NEW c \in 1 .. Len(chans), Drops(n, c)
  PROVE  IInv'
<1>1. Linked
  BY ChanNumbers, TakenSays DEF Drops, Linked, ghosts
<1>2. Paired' /\ Asked' /\ Asking' /\ OffersGood'
  BY <1>1, PairedKept, AskingKept, OffersKept DEF Drops, pairing, asking, serving, ghosts
<1>3. Working'
  BY <1>1, JobsKept DEF Drops, serving, disk
<1>4. Counted'
  BY DEF Drops, ghosts, IInv, TypeOK, Counted
<1> QED
  BY <1>1, <1>2, <1>3, <1>4, Kept

LEMMA PeerDisconnectsStep ==
  ASSUME IInv, NEW n \in Nodes, PeerDisconnects(n)
  PROVE  IInv'
<1>1. Linked
  BY ReadIs, ClosedSays DEF PeerDisconnects, Linked, ghosts
<1>2. Paired' /\ Asked' /\ Asking' /\ OffersGood'
  BY <1>1, SessionEnded DEF PeerDisconnects, ghosts
<1>3. Working'
  BY <1>1, JobsKept DEF PeerDisconnects, disk
<1>4. Counted'
  BY DEF PeerDisconnects, ghosts, IInv, TypeOK, Counted
<1> QED
  BY <1>1, <1>2, <1>3, <1>4, Kept

LEMMA ConnectionLostStep ==
  ASSUME IInv, NEW n \in Nodes, ConnectionLost(n)
  PROVE  IInv'
<1>1. Linked
  BY ChanNumbers, ClosedSays DEF ConnectionLost, Linked, Links, ghosts
<1>2. Paired' /\ Asked' /\ Asking' /\ OffersGood'
  BY <1>1, SessionEnded DEF ConnectionLost, ghosts
<1>3. Working'
  BY <1>1, JobsKept DEF ConnectionLost, disk
<1>4. Counted'
  BY DEF ConnectionLost, ghosts, IInv, TypeOK, Counted
<1> QED
  BY <1>1, <1>2, <1>3, <1>4, Kept

\* A question is on the screen, or its pages begin to arrive, of an offer that was read.
LEMMA QuestionNow ==
  ASSUME IInv, NEW n \in Nodes, active[n] \in Nat \ {0}, NEW o \in Nat \ {0}, UNCHANGED <<active, trust>>,
         coming' \in [Nodes -> Nat],
         Whole(n, o) \/ ForgetsAsked(n)
  PROVE  Asked' /\ Asking'
<1> DEFINE r == [offer |-> o, chan |-> active[n]]
<1>1. asked \in [Nodes -> Question] /\ r \in Question /\ NoQuestion \in Question /\ r.offer # 0
  BY DEF IInv, TypeOK, Asked, Question, NoQuestion
<1>2. asked' = [asked EXCEPT ![n] = r] \/ asked' = [asked EXCEPT ![n] = NoQuestion]
  BY DEF Whole, ForgetsAsked
<1> HIDE DEF r
<1>3. Asked'
  BY <1>1, <1>2 DEF IInv, TypeOK, Asked
<1>4. Asking'
  BY <1>1, <1>2 DEF IInv, TypeOK, Asking
<1> QED
  BY <1>3, <1>4

LEMMA ComingIs ==
  ASSUME IInv, NEW n \in Nodes, NEW o \in Nat
  PROVE  [coming EXCEPT ![n] = o] \in [Nodes -> Nat]
BY DEF IInv, TypeOK, Asked

LEMMA OfferedStep ==
  ASSUME IInv, NEW n \in Nodes, Offered(n)
  PROVE  IInv'
<1>1. active[n] \in Nat \ {0} /\ Asker(n) \in Nat \ {0}
  BY ReadIs DEF Offered
<1>2. Linked
  BY Reads DEF Offered, ghosts
<1>3. Asked' /\ Asking'
  <2>1. coming' \in [Nodes -> Nat]
    BY <1>1, ComingIs DEF Offered
  <2> QED
    BY <1>1, <2>1, QuestionNow DEF Offered, pairing
<1>4. Paired' /\ OffersGood'
  BY <1>2, PairedKept, OffersKept DEF Offered, ghosts
<1>5. Working'
  BY <1>2, JobsKept DEF Offered, disk
<1>6. Counted'
  BY DEF Offered, ghosts, IInv, TypeOK, Counted
<1> QED
  BY <1>2, <1>3, <1>4, <1>5, <1>6, Kept

LEMMA PageStep ==
  ASSUME IInv, NEW n \in Nodes, Page(n)
  PROVE  IInv'
<1>1. active[n] \in Nat \ {0} /\ Asker(n) \in Nat \ {0}
  BY ReadIs DEF Page
<1>2. Linked
  BY Reads DEF Page, ghosts
<1>3. Asked' /\ Asking'
  <2>1. CASE Asker(n) = coming[n]
    <3>1. coming' \in [Nodes -> Nat]
      BY <2>1, ComingIs DEF Page
    <3>2. Whole(n, Asker(n))
      BY <2>1 DEF Page
    <3> QED
      BY <1>1, <3>1, <3>2, QuestionNow DEF Page, pairing
  <2>2. CASE Asker(n) # coming[n]
    BY <2>2, AskingKept DEF Page, pairing
  <2> QED
    BY <2>1, <2>2
<1>4. Paired' /\ OffersGood'
  BY <1>2, PairedKept, OffersKept DEF Page, serving, ghosts
<1>5. Working'
  BY <1>2, JobsKept DEF Page, serving, disk
<1>6. Counted'
  BY DEF Page, ghosts, IInv, TypeOK, Counted
<1> QED
  BY <1>2, <1>3, <1>4, <1>5, <1>6, Kept

LEMMA BadOfferStep ==
  ASSUME IInv, NEW n \in Nodes, BadOffer(n)
  PROVE  IInv'
<1>1. active[n] \in 1 .. Len(chans) /\ Links /\ Asker(n) \in Nat \ {0}
  BY ReadIs DEF BadOffer
<1>2. Linked
  <2>1. <<Msg("reject", Asker(n))>> \in Seq(Said(yes))
    BY <1>1, Words DEF Verbs
  <2>2. Taken(n, active[n]) \in Seq(Chan(yes)) /\ Len(Taken(n, active[n])) = Len(chans)
    BY ReadIs DEF BadOffer
  <2> QED
    BY <1>1, <2>1, <2>2, SentSays DEF BadOffer, Fault, Linked
<1>3. Asked' /\ Asking'
  <2>1. coming' \in [Nodes -> Nat]
    BY ComingIs DEF BadOffer
  <2> QED
    BY <1>1, <2>1, QuestionNow DEF BadOffer, pairing
<1>4. Paired' /\ OffersGood'
  BY <1>2, PairedKept, OffersKept DEF BadOffer, Fault
<1>5. Working'
  BY <1>2, JobsKept DEF BadOffer, disk
<1>6. Counted'
  BY DEF BadOffer, Fault, IInv, TypeOK, Counted
<1> QED
  BY <1>2, <1>3, <1>4, <1>5, <1>6, Kept

LEMMA PeerRejectsStep ==
  ASSUME IInv, NEW n \in Nodes, PeerRejects(n)
  PROVE  IInv'
<1>1. Linked
  BY Reads DEF PeerRejects, ghosts
<1>2. Paired' /\ Asked' /\ Asking' /\ OffersGood'
  BY <1>1, PairedKept, AskingKept, Withdrawn DEF PeerRejects, pairing, asking, serving, ghosts
<1>3. Working'
  BY <1>1, JobsKept DEF PeerRejects, serving, disk
<1>4. Counted'
  BY DEF PeerRejects, ghosts, IInv, TypeOK, Counted
<1> QED
  BY <1>1, <1>2, <1>3, <1>4, Kept
\* An offer begins to be served: it was accepted, and is its node's lastOffered no more.
LEMMA ServeBegins ==
  ASSUME IInv, NEW n \in Nodes, last[n] \in yes, NEW c, NEW j, j = Serves(n, last[n], c),
         last' = [last EXCEPT ![n] = 0], UNCHANGED <<offers, joinable, yes>>, jobs' = jobs \cup {j}
  PROVE  OffersGood'
<1>1. /\ last \in [Nodes -> 0 .. Len(offers)] /\ last[n] # 0 /\ offers \in Seq(Offer) /\ Len(offers) \in Nat
      /\ joinable \subseteq 1 .. Len(offers)
  BY LenProperties DEF IInv, OffersGood, Offering, TypeOK, Counted
<1>2. \A m \in Nodes : last'[m] = (IF m = n THEN 0 ELSE last[m]) /\ last[m] \in 0 .. Len(offers)
  BY <1>1
<1>3. j.job = "serve" /\ j.offer = last[n] /\ j.at = n
  BY DEF Serves
<1>4. Offering'
  <2> DEFINE L == 0 .. Len(offers)
  <2>1. last \in [Nodes -> L] /\ 0 \in L
    BY <1>1
  <2> HIDE DEF L
  <2>2. last' \in [Nodes -> L]
    BY <2>1
  <2> QED
    BY <1>1, <2>2 DEF Offering, L
<1>5. Mine'
  BY <1>2 DEF IInv, OffersGood, Mine
<1>6. Served'
  <2>1. Serving(j)'
    <3>1. offers[last[n]].by = n /\ last[n] \in 1 .. Len(offers)
      BY <1>1, <1>2 DEF IInv, OffersGood, Mine
    <3>2. \A m \in Nodes : last'[m] # last[n]
      BY <1>1, <1>2, <3>1 DEF IInv, OffersGood, Mine
    <3> QED
      BY <1>3, <3>1, <3>2 DEF Serving
  <2>2. \A i \in jobs : i.job = "serve" => Serving(i)'
    BY <1>2 DEF IInv, OffersGood, Served, Serving
  <2> QED
    BY <2>1, <2>2 DEF Served
<1>7. OffersAreHeld'
  BY <1>2, <1>3 DEF IInv, OffersGood, OffersAreHeld
<1>8. ServedWasAccepted'
  <2>1. \A i \in jobs : i.job = "serve" => i.offer # j.offer
    BY <1>3 DEF IInv, OffersGood, Served, Serving
  <2> QED
    BY <1>3, <2>1 DEF IInv, OffersGood, ServedWasAccepted
<1> QED
  BY <1>4, <1>5, <1>6, <1>7, <1>8 DEF OffersGood

LEMMA PeerAcceptsStep ==
  ASSUME IInv, NEW n \in Nodes, PeerAccepts(n)
  PROVE  IInv'
<1>1. active[n] \in 1 .. Len(chans) /\ Asker(n) \in yes
  BY ReadIs DEF PeerAccepts
<1>2. Linked
  BY Reads DEF PeerAccepts, ghosts
<1>3. OffersGood' /\ Working'
  <2>1. CASE last[n] = Asker(n)
    <3> DEFINE j == Serves(n, last[n], active[n])
    <3>1. /\ jobs' = jobs \cup {j} /\ cancel' = [cancel EXCEPT ![n] = j] /\ UNCHANGED <<joinable, stopped>>
      BY <2>1 DEF PeerAccepts, IsLastOffered
    <3>2. j = Serves(n, last[n], active[n]) /\ last[n] \in yes /\ yes \subseteq Nat \ {0}
      BY <1>1, <2>1 DEF IInv, TypeOK, Counted
    <3>3. j \in Job(Len(chans))
      BY <1>1, <3>2 DEF Serves, Job
    <3> HIDE DEF j
    <3>4. OffersGood'
      BY <3>1, <3>2, ServeBegins DEF PeerAccepts, ghosts
    <3>5. stopped' \subseteq jobs
      BY <3>1 DEF IInv, TypeOK, Working
    <3>6. Working'
      BY <1>2, <3>1, <3>3, <3>5, JobBegins DEF PeerAccepts, disk
    <3> QED
      BY <3>4, <3>6
  <2>2. CASE last[n] # Asker(n)
    <3>1. Withdraws(n) /\ UNCHANGED serving
      BY <2>2 DEF PeerAccepts, IsLastOffered, Withdraws
    <3> QED
      BY <1>2, <3>1, Withdrawn, JobsKept DEF PeerAccepts, serving, disk, ghosts
  <2> QED
    BY <2>1, <2>2
<1>4. Paired' /\ Asked' /\ Asking'
  BY <1>2, PairedKept, AskingKept DEF PeerAccepts, pairing, asking
<1>5. Counted'
  BY DEF PeerAccepts, ghosts, IInv, TypeOK, Counted
<1> QED
  BY <1>2, <1>3, <1>4, <1>5, Kept

LEMMA PeerEndsStep ==
  ASSUME IInv, NEW n \in Nodes, PeerEnds(n)
  PROVE  IInv'
<1>1. Linked
  BY Reads DEF PeerEnds, ghosts
<1>2. Paired' /\ Asked' /\ Asking' /\ OffersGood'
  BY <1>1, PairedKept, AskingKept, OffersKept DEF PeerEnds, pairing, asking, ghosts
<1>3. Working'
  BY <1>1, JobsKept DEF PeerEnds, disk
<1>4. Counted'
  BY DEF PeerEnds, ghosts, IInv, TypeOK, Counted
<1> QED
  BY <1>1, <1>2, <1>3, <1>4, Kept

LEMMA TrustAskedStep ==
  ASSUME IInv, NEW n \in Nodes, TrustAsked(n)
  PROVE  IInv'
<1>1. Linked
  BY Reads DEF TrustAsked, ghosts
<1>2. Paired' /\ OffersGood'
  BY <1>1, PairedKept, OffersKept DEF TrustAsked, serving, ghosts
<1>3. Asked' /\ Asking'
  <2>1. active[n] \in Nat \ {0} /\ trust' = [trust EXCEPT ![n] = active[n]]
    BY ReadIs DEF TrustAsked
  <2>2. Asked'
    BY <2>1 DEF TrustAsked, IInv, TypeOK, Asked
  <2>3. Asking'
    BY <2>1 DEF TrustAsked, pairing, IInv, TypeOK, Asked, Asking
  <2> QED
    BY <2>2, <2>3
<1>4. Working'
  BY <1>1, JobsKept DEF TrustAsked, serving, disk
<1>5. Counted'
  BY DEF TrustAsked, ghosts, IInv, TypeOK, Counted
<1> QED
  BY <1>1, <1>2, <1>3, <1>4, <1>5, Kept

LEMMA TrustAnsweredStep ==
  ASSUME IInv, NEW n \in Nodes, TrustAnswered(n)
  PROVE  IInv'
<1>1. Linked
  BY Reads DEF TrustAnswered, ghosts
<1>2. Paired' /\ Asked' /\ Asking' /\ OffersGood'
  BY <1>1, PairedKept, AskingKept, OffersKept DEF TrustAnswered, pairing, asking, serving, ghosts
<1>3. Working'
  BY <1>1, JobsKept DEF TrustAnswered, serving, disk
<1>4. Counted'
  BY DEF TrustAnswered, ghosts, IInv, TypeOK, Counted
<1> QED
  BY <1>1, <1>2, <1>3, <1>4, Kept

-----------------------------------------------------------------------------
(* The transfers.                                                           *)

\* A job is over.
LEMMA JobOver ==
  ASSUME IInv, Linked, NEW j, Over(j)
  PROVE  Working'
<1>1. jobs' = jobs \ {j} /\ stopped' = stopped \ {j} /\ full' = full \ {j} /\ UNCHANGED <<cancel, resume>>
  BY DEF Over
<1>2. stopped \subseteq jobs /\ full \subseteq jobs
  BY DEF IInv, TypeOK, Working
<1>3. cancel \in [Nodes -> Job(Len(chans)) \cup {None}] /\ resume \in [Nodes -> Job(Len(chans)) \cup {None}]
  BY DEF IInv, TypeOK, Working
<1> QED
  BY <1>1, <1>2, <1>3, WorkKept

LEMMA ReceiveOver ==
  ASSUME IInv, Linked, NEW j \in jobs, j.job = "receive", Over(j),
         UNCHANGED <<up, pairing, asking, offering, yes>>, Counted'
  PROVE  IInv'
<1>1. Paired' /\ Asked' /\ Asking'
  BY PairedKept, AskingKept DEF pairing, asking
<1>2. OffersGood'
  BY OffersKept DEF Over
<1>3. Working'
  BY JobOver
<1> QED
  BY <1>1, <1>2, <1>3, Kept

LEMMA ReceivesAllStep ==
  ASSUME IInv, NEW j \in jobs, ReceivesAll(j)
  PROVE  IInv'
<1>1. j \in Job(Len(chans)) /\ Links
  BY DEF IInv, TypeOK, Working
<1>2. Linked
  <2>1. j.at \in Nodes /\ j.chan \in 1 .. Len(chans) /\ j.offer \in Nat
    BY <1>1 DEF Job
  <2>2. <<Msg("complete", j.offer)>> \in Seq(Said(yes))
    BY <2>1, Words DEF Verbs
  <2> QED
    BY <1>1, <2>1, <2>2, SentSays DEF ReceivesAll, Linked, Links, ghosts
<1>3. Counted'
  BY DEF ReceivesAll, ghosts, IInv, TypeOK, Counted
<1> QED
  BY <1>2, <1>3, ReceiveOver DEF ReceivesAll, ghosts

LEMMA ReceiveEndsStep ==
  ASSUME IInv, NEW j \in jobs, ReceiveEnds(j) \/ ReceiveFails(j)
  PROVE  IInv'
<1>1. UNCHANGED <<up, chans, pairing, asking, offering, yes>> /\ j.job = "receive" /\ Over(j)
  BY DEF ReceiveEnds, ReceiveFails, Fault, ghosts
<1>2. Counted'
  BY <1>1 DEF ReceiveEnds, ReceiveFails, Fault, ghosts, IInv, TypeOK, Counted
<1>3. Linked
  BY <1>1, LinksKept
<1> QED
  BY <1>1, <1>2, <1>3, ReceiveOver

LEMMA DiskFullStep ==
  ASSUME IInv, NEW j \in jobs, DiskFull(j)
  PROVE  IInv'
<1>1. Linked
  BY LinksKept DEF DiskFull, Fault
<1>2. Paired' /\ Asked' /\ Asking' /\ OffersGood'
  BY <1>1, PairedKept, AskingKept, OffersKept DEF DiskFull, Fault, pairing, asking, serving
<1>3. Working'
  <2> DEFINE K == Job(Len(chans)) \cup {None}
  <2>1. j \in K /\ resume \in [Nodes -> K]
    BY DEF IInv, TypeOK, Working
  <2> HIDE DEF K
  <2>2. resume' \in [Nodes -> K]
    BY <2>1 DEF DiskFull
  <2>3. full' \subseteq jobs /\ stopped \subseteq jobs
    BY DEF DiskFull, IInv, TypeOK, Working
  <2>4. cancel \in [Nodes -> Job(Len(chans)) \cup {None}]
    BY DEF IInv, TypeOK, Working
  <2> QED
    BY <1>1, <2>2, <2>3, <2>4, WorkKept DEF DiskFull, serving, K
<1>4. Counted'
  BY DEF DiskFull, Fault, IInv, TypeOK, Counted
<1> QED
  BY <1>1, <1>2, <1>3, <1>4, Kept

\* The goroutine that serves an offer closes its Listener.
LEMMA ServeEndsStep ==
  ASSUME IInv, NEW j \in jobs, ServeEnds(j)
  PROVE  IInv'
<1>1. Linked
  BY LinksKept DEF ServeEnds, ghosts
<1>2. Paired' /\ Asked' /\ Asking'
  BY <1>1, PairedKept, AskingKept DEF ServeEnds, pairing, asking
<1>3. jobs' = jobs \ {j} /\ joinable' = joinable \ {j.offer} /\ UNCHANGED <<last, offers, yes>>
  BY DEF ServeEnds, Over, Unjoinable, ghosts
<1>4. OffersGood'
  <2>1. Offering' /\ Mine' /\ Served'
    BY <1>3 DEF IInv, OffersGood, Offering, Mine, Served, Serving
  <2>2. OffersAreHeld'
    BY <1>3 DEF IInv, OffersGood, OffersAreHeld
  <2>3. ServedWasAccepted'
    BY <1>3 DEF IInv, OffersGood, ServedWasAccepted
  <2> QED
    BY <2>1, <2>2, <2>3 DEF OffersGood
<1>5. Working'
  BY <1>1, JobOver DEF ServeEnds
<1>6. Counted'
  BY DEF ServeEnds, ghosts, IInv, TypeOK, Counted
<1> QED
  BY <1>1, <1>2, <1>4, <1>5, <1>6, Kept

LEMMA LostStep ==
  ASSUME IInv, NEW c \in 1 .. Len(chans), Lost(c)
  PROVE  IInv'
<1>1. Linked
  <2>1. PICK n \in Nodes : \E k \in 0 .. Len(chans[c].wire[n]) :
          chans' = [chans EXCEPT ![c].open = {}, ![c].wire[n] = SubSeq(@, 1, k)]
    BY DEF Lost
  <2>2. PICK k \in 0 .. Len(chans[c].wire[n]) :
          chans' = [chans EXCEPT ![c].open = {}, ![c].wire[n] = SubSeq(@, 1, k)]
    BY <2>1
  <2> DEFINE q == SubSeq(chans[c].wire[n], 1, k)
             r == [chans[c] EXCEPT !.open = {}, !.wire[n] = q]
  <2>3. chans \in Seq(Chan(yes)) /\ chans[c] \in Chan(yes)
    BY ElementOfSeq DEF IInv, TypeOK, Links
  <2>4. q \in Seq(Said(yes))
    <3>1. chans[c].wire[n] \in Seq(Said(yes))
      BY <2>3 DEF Chan
    <3> QED
      BY <3>1, SubSeqProperties, LenProperties
  <2>5. chans' = [chans EXCEPT ![c] = r]
    BY <2>2
  <2> HIDE DEF q
  <2>6. r \in Chan(yes)
    BY <2>3, <2>4 DEF Chan
  <2> HIDE DEF r
  <2>7. chans' \in Seq(Chan(yes)) /\ Len(chans') = Len(chans)
    BY <2>3, <2>5, <2>6, ExceptSeq
  <2> QED
    BY <2>7 DEF Lost, Fault, Linked
<1>2. Paired' /\ Asked' /\ Asking' /\ OffersGood'
  BY <1>1, PairedKept, AskingKept, OffersKept DEF Lost, Fault, pairing, asking, serving
<1>3. Working'
  BY <1>1, JobsKept DEF Lost, serving, disk
<1>4. Counted'
  BY DEF Lost, Fault, IInv, TypeOK, Counted
<1> QED
  BY <1>1, <1>2, <1>3, <1>4, Kept

-----------------------------------------------------------------------------
(* The theorems.                                                            *)

LEMMA InitIInv == Init => IInv
<1> SUFFICES ASSUME Init PROVE IInv
  OBVIOUS
<1>1. Len(chans) = 0 /\ Len(offers) = 0
  BY DEF Init
<1>2. Links /\ Paired /\ Asked /\ Offering
  BY <1>1 DEF Init, Links, Paired, Asked, Offering, NoQuestion, Question
<1>3. Working /\ Counted
  BY DEF Init, Working, Counted
<1>4. Asking /\ Mine /\ Served /\ OffersAreHeld /\ ServedWasAccepted
  BY DEF Init, Asking, Mine, Served, OffersAreHeld, ServedWasAccepted
<1> QED
  BY <1>2, <1>3, <1>4 DEF IInv, TypeOK, OffersGood

LEMMA StutterStep ==
  ASSUME IInv, UNCHANGED vars
  PROVE  IInv'
<1>1. Linked
  BY LinksKept DEF vars
<1>2. Paired' /\ Asked' /\ Asking' /\ OffersGood'
  BY <1>1, PairedKept, AskingKept, OffersKept DEF vars, pairing, offering
<1>3. Working'
  BY <1>1, JobsKept DEF vars
<1>4. Counted'
  BY DEF vars, IInv, TypeOK, Counted
<1> QED
  BY <1>1, <1>2, <1>3, <1>4, Kept

LEMMA NextIInv == IInv /\ [Next]_vars => IInv'
<1> SUFFICES ASSUME IInv, [Next]_vars PROVE IInv'
  OBVIOUS
<1>1. DOMAIN chans = 1 .. Len(chans)
  BY ChanNumbers
<1>2. ASSUME NEW n \in Nodes, Hears(n) PROVE IInv'
  BY <1>1, <1>2, TakesPairingStep, AcceptedStep, NotPairedStep, PeerDisconnectsStep, ConnectionLostStep, OfferedStep,
     PageStep, PeerRejectsStep, PeerAcceptsStep, PeerEndsStep, TrustAskedStep, TrustAnsweredStep, RefusesStep,
     AdmitsStep, DropsStep DEF Hears
<1>3. ASSUME Transfers PROVE IInv'
  BY <1>3, ReceivesAllStep, ReceiveEndsStep, ServeEndsStep DEF Transfers
<1>4. ASSUME Users PROVE IInv'
  BY <1>4, PairStep, EnterStep, AnswersTrustStep, DeclinesStep, NoSpaceStep, AcceptsStep, DisconnectStep, StopStep,
     TrustsStep, SendStep, ExitStep DEF Users
<1>5. ASSUME Troubles PROVE IInv'
  BY <1>1, <1>5, BadOfferStep, ReceiveEndsStep, DiskFullStep, LostStep DEF Troubles
<1>6. CASE UNCHANGED vars
  BY <1>6, StutterStep
<1> QED
  BY <1>2, <1>3, <1>4, <1>5, <1>6 DEF Next, Programs

\* The invariant holds whatever the nodes, their users and the network do.
THEOREM IInvHolds == Spec => []IInv
<1> QED
  BY InitIInv, NextIInv, PTL DEF Spec

\* The state has its types; connections and offers have numbers that exist.
THEOREM TypeCorrect == Spec => []TypeOK
<1>1. IInv => TypeOK
  BY DEF IInv
<1> QED
  BY <1>1, IInvHolds, PTL

\* Every Listener registered is of the offer a node made last, or of one that is served: however its user, the peer's
\* messages and the end of the session meet in the main loop, one of the six places closes it.
THEOREM OffersHeld == Spec => []OffersAreHeld
<1>1. IInv => OffersAreHeld
  BY DEF IInv, OffersGood
<1> QED
  BY <1>1, IInvHolds, PTL

\* A node serves what a user accepted, and serves it once, whatever "accept" arrives and when.
THEOREM ServedHolds == Spec => []ServedWasAccepted
<1>1. IInv => ServedWasAccepted
  BY DEF IInv, OffersGood
<1> QED
  BY <1>1, IInvHolds, PTL
=============================================================================
