---------------------------- MODULE AccessProofs ----------------------------
(***************************************************************************)
(* Who is let in, for every number of pages and guessers, of devices, of   *)
(* requests, clicks and sessions, and any thresholds.                      *)
(*                                                                         *)
(* The web share's lockouts (module ShareAccess) bound the guesses that    *)
(* verifyWebShareAccess judges against the codes in force, and the         *)
(* failures counted against a user who never guesses.  Both bounds hold of *)
(* sums over the requests under way: a guess between the tarpit and the    *)
(* end of its request is counted once more than the record says; and a     *)
(* page owes (Owed) what it may still send with a refused code until an    *)
(* answer it reads says so (Ahead), what nobody reads the answer to        *)
(* (Blind), and the one chunk that ends an upload (Debt).  What the portal *)
(* compares by itself is in neither sum: it is counted nowhere.            *)
(*                                                                         *)
(* The list of trusted devices (module Trust) holds what both users agreed *)
(* to.  A message says so only to who reads it, so the invariant follows a *)
(* yes from the user's word to the wire (WiresAgreed), to the goroutine    *)
(* that handles it (HandsAgreed), and to the talk it is handled in         *)
(* (SaysSo, TalkOfActive).                                                 *)
(***************************************************************************)
EXTENDS ShareAccess, Trust, FiniteSetTheorems, SequenceTheorems, TLAPS

-----------------------------------------------------------------------------
(* The types.                                                               *)

States == {"none", "sent", "judge", "good", "tarpit", "rotate", "200", "401", "403", "429"}
Kinds == {"none", "list", "download", "ask", "chunk", "unread"}
Cards == {"closed", "pin", "lock", "files"}
Downs == {"no", "on", "paused"}
Ups == {"no", "asks", "on", "paused"}
Record == [fails : Nat, locked : BOOLEAN, old : BOOLEAN]
Request(g) == [st : States, kind : Kinds, pin : 0 .. g, token : 0 .. g]
Page(g) == [pin : 0 .. g, token : 0 .. g, auth : BOOLEAN, poll : BOOLEAN, timer : BOOLEAN,
            dl : Downs, up : Ups, cards : SUBSET Cards]

\* Types; no code is used before it was drawn.
TypeOK ==
  /\ enabled \in BOOLEAN
  /\ gen \in Nat \ {0}
  /\ rec \in [Actors -> Record]
  /\ req \in [Reqs -> Request(gen)]
  /\ page \in [Pages -> Page(gen)]
  /\ known \in [Guessers -> 0 .. gen]
  /\ judged \in [Guessers -> Nat]
  /\ clicks \in [Pages -> Nat]
  /\ acts \in Nat

-----------------------------------------------------------------------------
(* The guesses.                                                             *)

\* The guesses of a that are judged and, as a, not recorded, or that will rotate the codes.
InFlight(a) == {r \in Reqs : Of(r) = a /\ req[r].st \in {"tarpit", "rotate"}}

\* What the record says of the guesses judged against these codes: those after the threshold rotate them.
Kept(x) == IF x.old THEN 0 ELSE IF x.fails < PanicAt THEN x.fails ELSE PanicAt - 1

GuessOK(a) == judged[a] <= Kept(rec[a]) + Cardinality(InFlight(a))

\* A guesser's requests are guesses, or have the PIN the portal told.
OnlyGuesses(a) == \A r \in Reqs : Of(r) = a => req[r].st \in {"none", "good", "tarpit", "rotate"}

GuesserOK(a) == GuessOK(a) /\ OnlyGuesses(a)

-----------------------------------------------------------------------------
(* The users.                                                               *)

\* A code that is refused as a wrong one.
Stale(x) == x.pin # 0 /\ x.pin # gen /\ x.token # gen

\* What may still be counted, and what was refused with the answer not yet back.
Live == {"sent", "judge", "tarpit"}
Back == {"401", "429", "rotate"}

\* The requests of p with a refused code whose answer clears what the page stored.
Heard == {"list", "download", "ask"}
Coming(p) == {r \in Reqs : Of(r) = p /\ req[r].kind \in Heard /\ Stale(req[r]) /\ req[r].st \in Live}
Refused(p) == {r \in Reqs : Of(r) = p /\ req[r].kind \in Heard /\ Stale(req[r]) /\ req[r].st \in Back}

\* The failures that may still come of them, with the codes drawn until now.
Ahead(p) == IF Stale(page[p]) THEN Overlap[p] - Cardinality(Refused(p)) ELSE Cardinality(Coming(p))

\* Those that may come of what nobody reads the answer to, and of the one chunk that ends an upload.
Blind(p) == {r \in Reqs : Of(r) = p /\ req[r].kind = "unread" /\ req[r].st \in Live}
ChunkRefused(p) == \E r \in Reqs : Of(r) = p /\ req[r].kind = "chunk" /\ req[r].st \in Back
Debt(p) == IF page[p].up # "no" /\ ~ ChunkRefused(p) THEN 1 ELSE 0

Owed(p) == Ahead(p) + Cardinality(Blind(p)) + Debt(p)
UserOK(p) == rec[p].fails + Owed(p) <= Overlap[p] * (gen - 1) + 2 * clicks[p]

\* One download and one chunk at a time, while their transfer is on.
Apart(p) ==
  \A r \in Reqs : Of(r) = p =>
    /\ req[r].kind = "download" => page[p].dl = "on"
    /\ req[r].kind = "chunk" => page[p].up = "on"
    /\ \A q \in Reqs : Of(q) = p /\ req[q].kind = req[r].kind /\ req[r].kind \in {"download", "chunk"} => q = r

\* What is in the tarpit had a wrong code, and still has.
Carried(p) ==
  \A r \in Reqs : Of(r) = p =>
    /\ req[r].st = "none" <=> req[r].kind = "none"
    /\ req[r].st \in {"tarpit", "rotate"} => Stale(req[r])

PageOK(p) == UserOK(p) /\ Apart(p) /\ Carried(p)

IInv == TypeOK /\ (\A a \in Guessers : GuesserOK(a)) /\ (\A p \in Pages : PageOK(p))
-----------------------------------------------------------------------------
(* Lemmas on the requests of an actor.                                      *)
Slots(a) == {r \in Reqs : Of(r) = a}

LEMMA SlotsFinite ==
  ASSUME NEW a \in Actors
  PROVE  Overlap[a] \in Nat \ {0} /\ IsFiniteSet(Slots(a)) /\ Cardinality(Slots(a)) <= Overlap[a]
<1> DEFINE n == Overlap[a]
           f == [i \in 1 .. n |-> <<a, i>>]
<1>1. n \in Nat \ {0}
  BY ActorsAssumption DEF Actors
<1>2. Slots(a) = {<<a, i>> : i \in 1 .. n}
  BY DEF Slots, Reqs, ReqsOf, Of
<1>3. f \in Surjection(1 .. n, Slots(a))
  <2>1. f \in [1 .. n -> Slots(a)]
    BY <1>2
  <2>2. \A t \in Slots(a) : \E i \in 1 .. n : f[i] = t
    BY <1>2
  <2> HIDE DEF f
  <2> QED
    BY <2>1, <2>2 DEF Surjection
<1>4. IsFiniteSet(1 .. n) /\ Cardinality(1 .. n) = n
  <2>1. n \in Int /\ 1 \in Int /\ ~(1 > n) /\ n - 1 + 1 = n
    BY <1>1
  <2> HIDE DEF n
  <2> QED
    BY <2>1, FS_Interval
<1> HIDE DEF f
<1>5. IsFiniteSet(Slots(a)) /\ Cardinality(Slots(a)) <= Cardinality(1 .. n)
  BY <1>3, <1>4, FS_Surjection
<1> QED
  BY <1>1, <1>4, <1>5

LEMMA OfActors ==
  ASSUME NEW r \in Reqs
  PROVE  Of(r) \in Actors /\ (Of(r) \in Pages \/ Of(r) \in Guessers) /\ ~(Of(r) \in Pages /\ Of(r) \in Guessers)
         /\ r \in Slots(Of(r))
<1>1. Of(r) \in Actors
  BY DEF Reqs, ReqsOf, Of
<1> QED
  BY <1>1, ActorsAssumption DEF Actors, Slots
\* Two parts of a finite set.
LEMMA Parts ==
  ASSUME NEW U, IsFiniteSet(U), NEW A \in SUBSET U, NEW B \in SUBSET U, A \cap B = {}
  PROVE  /\ IsFiniteSet(A) /\ Cardinality(A) \in Nat /\ IsFiniteSet(B) /\ Cardinality(B) \in Nat
         /\ Cardinality(A) + Cardinality(B) <= Cardinality(U)
<1>1. IsFiniteSet(A) /\ IsFiniteSet(B)
  BY FS_Subset
<1>2. Cardinality(A) \in Nat /\ Cardinality(B) \in Nat
  BY <1>1, FS_CardinalityType
<1>3. Cardinality(A \cap B) = 0
  BY FS_EmptySet
<1>4. Cardinality(A \cup B) = Cardinality(A) + Cardinality(B) - Cardinality(A \cap B)
  BY <1>1, FS_Union
<1>5. Cardinality(A \cup B) <= Cardinality(U)
  BY FS_Subset
<1> QED
  BY <1>1, <1>2, <1>3, <1>4, <1>5
\* The sets that are counted.
CountOK(a) ==
  /\ IsFiniteSet(InFlight(a)) /\ Cardinality(InFlight(a)) \in Nat /\ Cardinality(InFlight(a)) <= Overlap[a]
  /\ IsFiniteSet(Coming(a)) /\ Cardinality(Coming(a)) \in Nat
  /\ IsFiniteSet(Refused(a)) /\ Cardinality(Refused(a)) \in Nat
  /\ Cardinality(Coming(a)) + Cardinality(Refused(a)) <= Overlap[a]
  /\ IsFiniteSet(Blind(a)) /\ Cardinality(Blind(a)) \in Nat

Countable == \A a \in Actors : CountOK(a)

LEMMA CountsHold == Countable
<1> SUFFICES ASSUME NEW a \in Actors PROVE CountOK(a)
  BY DEF Countable
<1>1. Overlap[a] \in Nat /\ IsFiniteSet(Slots(a)) /\ Cardinality(Slots(a)) <= Overlap[a]
      /\ Cardinality(Slots(a)) \in Nat
  BY SlotsFinite, FS_CardinalityType
<1>2. InFlight(a) \in SUBSET Slots(a) /\ Coming(a) \in SUBSET Slots(a) /\ Refused(a) \in SUBSET Slots(a)
      /\ Blind(a) \in SUBSET Slots(a)
  BY DEF InFlight, Coming, Refused, Blind, Slots
<1>3. /\ IsFiniteSet(InFlight(a)) /\ Cardinality(InFlight(a)) \in Nat
      /\ Cardinality(InFlight(a)) <= Cardinality(Slots(a))
      /\ IsFiniteSet(Blind(a)) /\ Cardinality(Blind(a)) \in Nat
  BY <1>1, <1>2, FS_Subset, FS_CardinalityType
<1>4. Coming(a) \cap Refused(a) = {}
  BY DEF Coming, Refused, Live, Back
<1> QED
  BY <1>1, <1>2, <1>3, <1>4, Parts DEF CountOK

LEMMA CountsNext == Countable'
BY CountsHold, PTL

LEMMA Counts ==
  ASSUME NEW a \in Actors
  PROVE  CountOK(a) /\ CountOK(a)'
BY CountsHold, CountsNext DEF Countable

LEMMA OwedIs ==
  ASSUME NEW p \in Pages
  PROVE  /\ p \in Actors /\ Overlap[p] \in Nat /\ CountOK(p) /\ CountOK(p)'
         /\ Ahead(p) \in 0 .. Overlap[p] /\ Ahead(p)' \in 0 .. Overlap[p]
         /\ Cardinality(Coming(p)) <= Ahead(p)
         /\ Debt(p) \in {0, 1} /\ Debt(p)' \in {0, 1}
         /\ Owed(p) \in Nat /\ Owed(p)' \in Nat
<1>1. p \in Actors
  BY DEF Actors
<1>2. Overlap[p] \in Nat /\ CountOK(p) /\ CountOK(p)'
  BY <1>1, SlotsFinite, Counts
<1>3. Ahead(p) \in 0 .. Overlap[p] /\ Cardinality(Coming(p)) <= Ahead(p)
  BY <1>2 DEF CountOK, Ahead
<1>4. Ahead(p)' \in 0 .. Overlap[p]
  BY <1>2 DEF CountOK, Ahead
<1>5. Debt(p) \in {0, 1} /\ Debt(p)' \in {0, 1}
  BY DEF Debt
<1>6. Owed(p) \in Nat /\ Owed(p)' \in Nat
  BY <1>2, <1>3, <1>4, <1>5 DEF Owed, CountOK
<1> QED
  BY <1>1, <1>2, <1>3, <1>4, <1>5, <1>6
-----------------------------------------------------------------------------
(* Lemmas on the two sums.                                                  *)

\* Nothing of a guesser changes.
LEMMA SameGuesser ==
  ASSUME NEW a \in Guessers, GuesserOK(a), judged'[a] = judged[a], rec'[a] = rec[a],
         \A q \in Reqs : Of(q) = a => req'[q].st = req[q].st
  PROVE  GuesserOK(a)'
<1>1. InFlight(a)' = InFlight(a)
  BY DEF InFlight
<1> QED
  BY <1>1 DEF GuesserOK, GuessOK, OnlyGuesses

\* Nothing of a page changes, or its address has fewer failures.
LEMMA SamePage ==
  ASSUME TypeOK, TypeOK', NEW p \in Pages, PageOK(p), gen' = gen, rec'[p].fails <= rec[p].fails,
         page'[p] = page[p], clicks'[p] = clicks[p], \A q \in Reqs : Of(q) = p => req'[q] = req[q]
  PROVE  PageOK(p)'
<1>1. /\ Coming(p)' = Coming(p) /\ Refused(p)' = Refused(p) /\ Blind(p)' = Blind(p)
      /\ ChunkRefused(p)' = ChunkRefused(p) /\ Stale(page[p])' = Stale(page[p])
  BY DEF Coming, Refused, Blind, ChunkRefused, Stale
<1>2. Owed(p)' = Owed(p)
  BY <1>1 DEF Owed, Ahead, Debt
<1>3. rec[p].fails \in Nat /\ rec'[p].fails \in Nat /\ Owed(p) \in Nat
  BY OwedIs DEF TypeOK, Record
<1> DEFINE bound == Overlap[p] * (gen - 1) + 2 * clicks[p]
<1>4. bound \in Int /\ rec[p].fails + Owed(p) <= bound /\ (Overlap[p] * (gen - 1) + 2 * clicks[p])' = bound
  BY OwedIs DEF TypeOK, PageOK, UserOK
<1> HIDE DEF bound
<1>5. rec'[p].fails + Owed(p)' <= bound
  BY <1>2, <1>3, <1>4
<1>6. UserOK(p)'
  BY <1>4, <1>5 DEF UserOK
<1>7. Apart(p)' /\ Carried(p)'
  BY DEF PageOK, Apart, Carried, Stale
<1> QED
  BY <1>6, <1>7 DEF PageOK

\* The failures stay bounded where what may come falls by what has come, up to two for a click.
LEMMA UserKept ==
  ASSUME TypeOK, TypeOK', NEW p \in Pages, UserOK(p), gen' = gen, NEW k \in Nat, clicks'[p] = clicks[p] + k,
         rec'[p].fails + Owed(p)' <= rec[p].fails + Owed(p) + 2 * k
  PROVE  UserOK(p)'
<1>1. /\ rec[p].fails \in Nat /\ rec'[p].fails \in Nat /\ gen \in Nat /\ clicks[p] \in Nat
      /\ Overlap[p] \in Nat /\ Owed(p) \in Nat /\ Owed(p)' \in Nat
  BY OwedIs DEF TypeOK, Record
<1> DEFINE bound == Overlap[p] * (gen - 1)
<1>2. bound \in Int /\ rec[p].fails + Owed(p) <= bound + 2 * clicks[p]
  BY <1>1 DEF UserOK
<1>3. (Overlap[p] * (gen - 1) + 2 * clicks[p])' = bound + 2 * (clicks[p] + k)
  BY <1>1
<1> HIDE DEF bound
<1>4. rec'[p].fails + Owed(p)' <= bound + 2 * (clicks[p] + k)
  BY <1>1, <1>2
<1> QED
  BY <1>3, <1>4 DEF UserOK

\* No failure more may come of a code that is refused.
LEMMA AheadFalls ==
  ASSUME NEW p \in Pages, Stale(page[p])' \/ Coming(p)' \subseteq Coming(p),
         Stale(page[p])' => Stale(page[p]) /\ Refused(p) \subseteq Refused(p)'
  PROVE  Ahead(p)' <= Ahead(p)
<1>1. CountOK(p) /\ CountOK(p)' /\ Overlap[p] \in Nat /\ Cardinality(Coming(p)) <= Ahead(p)
  BY OwedIs
<1>3. CASE Stale(page[p])'
  <2>1. Cardinality(Refused(p)) <= Cardinality(Refused(p)')
    BY <1>1, <1>3, FS_Subset DEF CountOK
  <2>2. Ahead(p)' = Overlap[p] - Cardinality(Refused(p)') /\ Ahead(p) = Overlap[p] - Cardinality(Refused(p))
    BY <1>3 DEF Ahead
  <2> QED
    BY <1>1, <2>1, <2>2 DEF CountOK
<1>4. CASE ~ Stale(page[p])'
  <2>1. Ahead(p)' = Cardinality(Coming(p)')
    BY <1>4 DEF Ahead
  <2>2. Cardinality(Coming(p)') <= Cardinality(Coming(p))
    BY <1>1, <1>4, FS_Subset DEF CountOK
  <2> QED
    BY <1>1, <2>1, <2>2, OwedIs DEF CountOK
<1> QED
  BY <1>3, <1>4

LEMMA BlindFalls ==
  ASSUME NEW p \in Pages, Blind(p)' \subseteq Blind(p)
  PROVE  Cardinality(Blind(p)') <= Cardinality(Blind(p))
BY OwedIs, FS_Subset DEF CountOK

\* A set grows by as many as are added.
LEMMA OneMore ==
  ASSUME NEW S, IsFiniteSet(S), NEW T, NEW x, T \subseteq S \cup {x}
  PROVE  IsFiniteSet(T) /\ Cardinality(T) <= Cardinality(S) + 1
<1>0. Cardinality(S) \in Nat
  BY FS_CardinalityType
<1>1. IsFiniteSet(S \cup {x}) /\ Cardinality(S \cup {x}) <= Cardinality(S) + 1
  <2>1. /\ IsFiniteSet(S \cup {x})
        /\ Cardinality(S \cup {x}) = IF x \in S THEN Cardinality(S) ELSE Cardinality(S) + 1
    BY FS_AddElement
  <2> QED
    BY <1>0, <2>1
<1>2. IsFiniteSet(T) /\ Cardinality(T) <= Cardinality(S \cup {x})
  BY <1>1, FS_Subset
<1> QED
  BY <1>1, <1>2, FS_CardinalityType

\* Nothing more is owed.
LEMMA OwedFalls ==
  ASSUME NEW p \in Pages, Stale(page[p])' \/ Coming(p)' \subseteq Coming(p),
         Stale(page[p])' => Stale(page[p]) /\ Refused(p) \subseteq Refused(p)',
         Blind(p)' \subseteq Blind(p),
         page'[p].up # "no" /\ ~ ChunkRefused(p)' => page[p].up # "no" /\ ~ ChunkRefused(p)
  PROVE  Owed(p)' <= Owed(p)
<1>1. Ahead(p)' <= Ahead(p) /\ Cardinality(Blind(p)') <= Cardinality(Blind(p))
  BY AheadFalls, BlindFalls
<1>2. Debt(p)' <= Debt(p)
  BY DEF Debt
<1>3. Owed(p) = Ahead(p) + Cardinality(Blind(p)) + Debt(p) /\ Owed(p)' = Ahead(p)' + Cardinality(Blind(p)') + Debt(p)'
  BY DEF Owed
<1>4. /\ Ahead(p) \in Nat /\ Ahead(p)' \in Nat /\ Cardinality(Blind(p)) \in Nat /\ Cardinality(Blind(p)') \in Nat
      /\ Debt(p) \in Nat /\ Debt(p)' \in Nat
  BY OwedIs DEF CountOK
<1> QED
  BY <1>1, <1>2, <1>3, <1>4

\* The invariant after a step about one actor, the codes being the same.
LEMMA Frame ==
  ASSUME IInv, TypeOK', NEW a \in Actors, gen' = gen,
         \A q \in Reqs : Of(q) # a => req'[q] = req[q],
         \A b \in Actors : b # a => rec'[b] = rec[b],
         \A b \in Guessers : b # a => judged'[b] = judged[b],
         \A p \in Pages : p # a => page'[p] = page[p] /\ clicks'[p] = clicks[p],
         a \in Guessers => GuesserOK(a)', a \in Pages => PageOK(a)'
  PROVE  IInv'
<1>1. ASSUME NEW b \in Guessers, b # a PROVE GuesserOK(b)'
  <2>1. b \in Actors /\ GuesserOK(b)
    BY DEF Actors, IInv
  <2> QED
    BY <1>1, <2>1, SameGuesser
<1>2. ASSUME NEW p \in Pages, p # a PROVE PageOK(p)'
  <2>1. p \in Actors /\ PageOK(p) /\ TypeOK
    BY DEF Actors, IInv
  <2>2. rec'[p].fails <= rec[p].fails
    BY <1>2, <2>1 DEF TypeOK, Record
  <2> QED
    BY <1>2, <2>1, <2>2, SamePage
<1> QED
  BY <1>1, <1>2 DEF IInv

\* A page's own part of the invariant, when its requests are asked for and answered as before.
LEMMA ApartKept ==
  ASSUME NEW p \in Pages, Apart(p), page'[p].dl = page[p].dl, page'[p].up = page[p].up,
         \A q \in Reqs : Of(q) = p => req'[q].kind = req[q].kind
  PROVE  Apart(p)'
BY DEF Apart

LEMMA RequestIs ==
  ASSUME IInv, NEW r \in Reqs
  PROVE  /\ TypeOK /\ gen \in Nat \ {0} /\ req[r] \in Request(gen) /\ rec[Of(r)] \in Record
         /\ Of(r) \in Guessers => req[r].st \in {"none", "good", "tarpit", "rotate"} /\ GuesserOK(Of(r))
         /\ Of(r) \in Pages => page[Of(r)] \in Page(gen) /\ PageOK(Of(r))
         /\ Of(r) \in Actors /\ (Of(r) \in Pages \/ Of(r) \in Guessers) /\ ~(Of(r) \in Pages /\ Of(r) \in Guessers)
<1>1. Of(r) \in Actors /\ (Of(r) \in Pages \/ Of(r) \in Guessers) /\ ~(Of(r) \in Pages /\ Of(r) \in Guessers)
  BY OfActors
<1>2. TypeOK /\ gen \in Nat \ {0} /\ req[r] \in Request(gen) /\ rec[Of(r)] \in Record
      /\ (Of(r) \in Pages => page[Of(r)] \in Page(gen))
  BY <1>1 DEF IInv, TypeOK
<1>3. Of(r) \in Guessers => GuesserOK(Of(r))
  BY DEF IInv
<1>4. Of(r) \in Guessers => req[r].st \in {"none", "good", "tarpit", "rotate"}
  BY <1>3 DEF GuesserOK, OnlyGuesses
<1>5. Of(r) \in Pages => PageOK(Of(r))
  BY DEF IInv
<1> QED
  BY <1>1, <1>2, <1>3, <1>4, <1>5

\* An answer, or another step of a request.
LEMMA ToIs ==
  ASSUME TypeOK, NEW r \in Reqs, NEW st \in States, To(r, st)
  PROVE  /\ req' \in [Reqs -> Request(gen)] /\ \A q \in Reqs : q # r => req'[q] = req[q]
         /\ Of(r) \in Pages => req'[r] = [req[r] EXCEPT !.st = st]
         /\ Of(r) \in Guessers => req'[r].st = IF st \in {"200", "401", "403", "429"} THEN "none" ELSE st
<1>1. req \in [Reqs -> Request(gen)] /\ gen \in Nat
  BY DEF TypeOK
<1>2. NoReq \in Request(gen) /\ NoReq.st = "none"
  BY <1>1 DEF NoReq, Request, States, Kinds
<1>3. req[r] \in Request(gen)
  BY <1>1
<1> DEFINE x == [req[r] EXCEPT !.st = st]
           over == Of(r) \in Guessers /\ st \in {"200", "401", "403", "429"}
<1>4. x \in Request(gen) /\ x.st = st
  BY <1>3 DEF Request
<1>5. ~(Of(r) \in Pages /\ Of(r) \in Guessers)
  BY OfActors
<1>6. (over => req' = [req EXCEPT ![r] = NoReq]) /\ (~ over => req' = [req EXCEPT ![r] = x])
  BY DEF To
<1> HIDE DEF x
<1>8. /\ req' \in [Reqs -> Request(gen)] /\ \A q \in Reqs : q # r => req'[q] = req[q]
      /\ (over => req'[r] = NoReq) /\ (~ over => req'[r] = x)
  BY <1>1, <1>2, <1>4, <1>6
<1>9. Of(r) \in Pages => req'[r] = [req[r] EXCEPT !.st = st]
  BY <1>5, <1>8 DEF x
<1> QED
  BY <1>2, <1>4, <1>8, <1>9

\* A page's request goes on, and no failure is counted.
LEMMA PageRequest ==
  ASSUME IInv, NEW r \in Reqs, Of(r) \in Pages, req[r].st \in {"sent", "judge", "good"},
         NEW st \in States \ {"none"}, To(r, st),
         UNCHANGED <<enabled, gen, page, known, judged, clicks, acts>>,
         rec' \in [Actors -> Record], \A b \in Actors : b # Of(r) => rec'[b] = rec[b],
         rec'[Of(r)].fails <= rec[Of(r)].fails,
         st \in Live => req[r].st \in Live,
         st \in {"tarpit", "rotate"} => Stale(req[r])
  PROVE  IInv'
<1> DEFINE a == Of(r)
<1>1. /\ a \in Actors /\ a \in Pages /\ a \notin Guessers /\ TypeOK /\ req[r] \in Request(gen)
      /\ UserOK(a) /\ Apart(a) /\ Carried(a)
  BY RequestIs DEF PageOK
<1>3. /\ req' \in [Reqs -> Request(gen)] /\ \A q \in Reqs : q # r => req'[q] = req[q]
      /\ req'[r] = [req[r] EXCEPT !.st = st]
  BY <1>1, ToIs
<1>4. TypeOK'
  BY <1>1, <1>3 DEF TypeOK
<1>5. req'[r].st = st /\ req'[r].kind = req[r].kind /\ req'[r].pin = req[r].pin /\ req'[r].token = req[r].token
  BY <1>1, <1>3 DEF Request
<1>6. Stale(req'[r]) = Stale(req[r]) /\ Stale(page[a])' = Stale(page[a])
  BY <1>5 DEF Stale
<1>7. /\ Coming(a)' \subseteq Coming(a) /\ Refused(a) \subseteq Refused(a)' /\ Blind(a)' \subseteq Blind(a)
      /\ ChunkRefused(a) => ChunkRefused(a)'
  BY <1>3, <1>5, <1>6 DEF Coming, Refused, Blind, ChunkRefused, Stale, Live, Back
<1>8. Owed(a)' <= Owed(a)
  BY <1>1, <1>6, <1>7, OwedFalls
<1>9. UserOK(a)'
  <2>1. rec[a].fails \in Nat /\ rec'[a].fails \in Nat /\ Owed(a) \in Nat /\ Owed(a)' \in Nat
    BY <1>1, <1>4, OwedIs DEF TypeOK, Record
  <2>2. clicks'[a] = clicks[a] + 0 /\ rec'[a].fails + Owed(a)' <= rec[a].fails + Owed(a) + 2 * 0
    BY <1>1, <1>8, <2>1 DEF TypeOK
  <2> QED
    BY <1>1, <1>4, <2>2, UserKept
<1>10. Apart(a)'
  BY <1>1, <1>3, <1>5, ApartKept
<1>11. Carried(a)'
  <2> SUFFICES ASSUME NEW q \in Reqs, Of(q) = a
               PROVE  /\ req'[q].st = "none" <=> req'[q].kind = "none"
                      /\ req'[q].st \in {"tarpit", "rotate"} => Stale(req'[q])
    BY DEF Carried, Stale
  <2>1. CASE q = r
    BY <1>1, <1>5, <1>6, <2>1 DEF Carried
  <2>2. CASE q # r
    BY <1>1, <1>3, <2>2 DEF Carried
  <2> QED
    BY <2>1, <2>2
<1> QED
  BY <1>1, <1>3, <1>4, <1>9, <1>10, <1>11, Frame DEF PageOK
-----------------------------------------------------------------------------
(* The server's steps.                                                      *)

LEMMA ArriveStep ==
  ASSUME IInv, NEW r \in Reqs, Arrive(r)
  PROVE  IInv'
<1>1. Of(r) \in Pages /\ req[r].st = "sent" /\ TypeOK /\ rec[Of(r)].fails \in Nat
  BY RequestIs DEF Arrive, Record
<1>2. PICK st \in {"403", "429", "judge"} : To(r, st)
  BY DEF Arrive
<1>3. UNCHANGED <<enabled, gen, rec, page, known, judged, clicks, acts>>
  BY DEF Arrive, ServerUnchanged
<1>4. rec' \in [Actors -> Record] /\ st \in States \ {"none"} /\ (st \in Live => req[r].st \in Live)
  BY <1>1, <1>3 DEF TypeOK, States, Live
<1> QED
  BY <1>1, <1>2, <1>3, <1>4, PageRequest

LEMMA JudgeStep ==
  ASSUME IInv, NEW r \in Reqs, Judge(r)
  PROVE  IInv'
<1>1. Of(r) \in Pages /\ req[r].st = "judge" /\ TypeOK /\ rec[Of(r)].fails \in Nat
  BY RequestIs DEF Judge, Record
<1>2. PICK st \in {"good", "tarpit", "401"} : To(r, st) /\ st = IF Valid(r) THEN "good" ELSE IF Attempted(r) THEN "tarpit" ELSE "401"
  BY DEF Judge
<1>3. UNCHANGED <<enabled, gen, rec, page, known, judged, clicks, acts>>
  BY DEF Judge
<1>4. rec' \in [Actors -> Record] /\ st \in States \ {"none"} /\ (st \in Live => req[r].st \in Live)
  BY <1>1, <1>3 DEF TypeOK, States, Live
<1>5. st = "tarpit" => Stale(req[r])
  BY <1>2 DEF Valid, Attempted, Stale
<1> QED
  BY <1>1, <1>2, <1>3, <1>4, <1>5, PageRequest

\* Whoever is let in starts anew.
LEMMA RecordAuthSuccessStep ==
  ASSUME IInv, NEW r \in Reqs, RecordAuthSuccess(r)
  PROVE  IInv'
<1> DEFINE a == Of(r)
<1>1. /\ req[r].st = "good" /\ TypeOK /\ rec[a] \in Record /\ a \in Actors /\ gen \in Nat \ {0}
      /\ (a \in Pages \/ a \in Guessers) /\ ~(a \in Pages /\ a \in Guessers)
  BY RequestIs DEF RecordAuthSuccess
<1>2. /\ To(r, "200") /\ rec' = [rec EXCEPT ![a] = NoRecord] /\ UNCHANGED <<enabled, gen, page, known, clicks, acts>>
      /\ judged' = [b \in Guessers |-> IF b = a THEN 0 ELSE judged[b]]
  BY DEF RecordAuthSuccess
<1>3. NoRecord \in Record /\ NoRecord.fails = 0 /\ NoRecord.old = FALSE
  BY DEF NoRecord, Record
<1>4. /\ rec' \in [Actors -> Record] /\ "200" \in States \ {"none"} /\ rec'[a] = NoRecord
      /\ \A b \in Actors : b # a => rec'[b] = rec[b]
      /\ judged' \in [Guessers -> Nat]
  BY <1>1, <1>2, <1>3 DEF TypeOK, States
<1>5. CASE a \in Pages
  <2>1. judged' = judged
    BY <1>1, <1>2, <1>5, ActorsAssumption DEF TypeOK
  <2>2. rec'[a].fails <= rec[a].fails
    BY <1>1, <1>3, <1>4 DEF Record
  <2> QED
    BY <1>1, <1>2, <1>4, <1>5, <2>1, <2>2, PageRequest DEF Live
<1>6. CASE a \in Guessers
  <2>1. /\ req' \in [Reqs -> Request(gen)] /\ req'[r].st = "none"
        /\ \A q \in Reqs : q # r => req'[q] = req[q]
    BY <1>1, <1>2, <1>4, <1>6, ToIs
  <2>2. TypeOK'
    BY <1>1, <1>2, <1>4, <2>1 DEF TypeOK
  <2>3. GuessOK(a)'
    <3>1. judged'[a] = 0 /\ Kept(rec'[a]) = 0
      BY <1>2, <1>3, <1>4, <1>6, ThresholdsAssumption DEF Kept
    <3>2. Cardinality(InFlight(a)') \in Nat
      BY <1>1, Counts DEF CountOK
    <3> QED
      BY <3>1, <3>2 DEF GuessOK
  <2>4. OnlyGuesses(a)'
    <3>1. OnlyGuesses(a)
      BY <1>6 DEF IInv, GuesserOK
    <3> QED
      BY <2>1, <3>1 DEF OnlyGuesses
  <2>5. a \notin Pages
    BY <1>6, ActorsAssumption
  <2> QED
    BY <1>1, <1>2, <1>4, <2>1, <2>2, <2>3, <2>4, <2>5, Frame DEF GuesserOK
<1> QED
  BY <1>1, <1>5, <1>6

\* A failure is counted for a guesser: the guess is then in the record, or will rotate the codes.
LEMMA GuessCounted ==
  ASSUME IInv, NEW a \in Guessers, NEW r \in Reqs, Of(r) = a, req[r].st = "tarpit",
         judged' = judged, NEW f \in Nat, f = FailsNow(a), rec'[a].old = FALSE, rec'[a].fails = f,
         \A q \in Reqs : q # r => req'[q] = req[q],
         req'[r].st = IF f >= PanicAt THEN "rotate" ELSE "none"
  PROVE  GuesserOK(a)'
<1>1. a \in Actors /\ rec[a] \in Record /\ judged[a] \in Nat
  BY DEF IInv, TypeOK, Actors
<1>2. /\ IsFiniteSet(InFlight(a)) /\ Cardinality(InFlight(a)) \in Nat /\ r \in InFlight(a)
  BY <1>1, Counts DEF CountOK, InFlight
<1>3. judged[a] <= Kept(rec[a]) + Cardinality(InFlight(a)) /\ OnlyGuesses(a)
  BY DEF IInv, GuesserOK, GuessOK
<1>4. /\ Kept(rec[a]) = IF rec[a].old THEN 0 ELSE IF rec[a].fails < PanicAt THEN rec[a].fails ELSE PanicAt - 1
      /\ Kept(rec'[a]) = (IF f < PanicAt THEN f ELSE PanicAt - 1) /\ PanicAt \in Nat /\ PanicAt > 1
      /\ f = (IF rec[a].old THEN 1 ELSE rec[a].fails + 1) /\ rec[a].fails \in Nat /\ rec[a].old \in BOOLEAN
  BY <1>1, ThresholdsAssumption DEF Kept, FailsNow, Record
<1>5. OnlyGuesses(a)'
  BY <1>3 DEF OnlyGuesses
<1>6. CASE f >= PanicAt
  <2>1. InFlight(a)' = InFlight(a)
    BY <1>6 DEF InFlight
  <2>2. Kept(rec[a]) <= Kept(rec'[a]) /\ Kept(rec'[a]) \in Nat /\ Kept(rec[a]) \in Nat
    BY <1>4, <1>6
  <2>3. judged[a] <= Kept(rec'[a]) + Cardinality(InFlight(a))
    BY <1>1, <1>2, <1>3, <2>2
  <2> QED
    BY <1>5, <2>1, <2>3 DEF GuesserOK, GuessOK
<1>7. CASE f < PanicAt
  <2>1. InFlight(a)' = InFlight(a) \ {r}
    BY <1>4, <1>7 DEF InFlight
  <2>2. Cardinality(InFlight(a)') = Cardinality(InFlight(a)) - 1
    BY <1>2, <2>1, FS_RemoveElement
  <2>3. Kept(rec[a]) + 1 <= Kept(rec'[a]) /\ Kept(rec'[a]) \in Nat /\ Kept(rec[a]) \in Nat
    BY <1>4, <1>7
  <2>4. judged[a] <= Kept(rec'[a]) + Cardinality(InFlight(a)')
    BY <1>1, <1>2, <1>3, <2>2, <2>3
  <2> QED
    BY <1>5, <2>4 DEF GuesserOK, GuessOK
<1> QED
  BY <1>4, <1>6, <1>7

\* A failure is counted for a page: one of those that might come.
LEMMA FailureCounted ==
  ASSUME NEW p \in Pages, Apart(p), NEW r \in Reqs, Of(r) = p, req[r] \in Request(gen),
         req[r].st = "tarpit", Stale(req[r]), req[r].kind # "none",
         UNCHANGED <<gen, page>>, NEW st \in {"rotate", "429", "401"}, req'[r] = [req[r] EXCEPT !.st = st],
         \A q \in Reqs : q # r => req'[q] = req[q]
  PROVE  Owed(p)' <= Owed(p) - 1
<1>1. req'[r].st = st /\ req'[r].kind = req[r].kind /\ req'[r].pin = req[r].pin /\ req'[r].token = req[r].token
  BY DEF Request
<1>2. Stale(req'[r]) /\ Stale(page[p])' = Stale(page[p])
  BY <1>1 DEF Stale
<1>3. /\ Coming(p)' = Coming(p) \ {r} /\ Refused(p) \subseteq Refused(p)' /\ Blind(p)' = Blind(p) \ {r}
      /\ ChunkRefused(p) => ChunkRefused(p)'
  BY <1>1, <1>2 DEF Coming, Refused, Blind, ChunkRefused, Stale, Live, Back
<1>4. /\ Overlap[p] \in Nat /\ CountOK(p) /\ CountOK(p)' /\ Debt(p) \in {0, 1} /\ Debt(p)' \in {0, 1}
      /\ Ahead(p) \in Nat /\ Ahead(p)' \in Nat
  BY OwedIs
<1>5. Ahead(p)' <= Ahead(p) /\ Cardinality(Blind(p)') <= Cardinality(Blind(p))
  BY <1>2, <1>3, AheadFalls, BlindFalls
<1>6. Debt(p)' <= Debt(p)
  BY <1>3 DEF Debt
<1>7. /\ Owed(p) = Ahead(p) + Cardinality(Blind(p)) + Debt(p)
      /\ Owed(p)' = Ahead(p)' + Cardinality(Blind(p)') + Debt(p)'
      /\ Cardinality(Blind(p)) \in Nat /\ Cardinality(Blind(p)') \in Nat
  BY <1>4 DEF Owed, CountOK
<1>8. CASE req[r].kind \in Heard
  <2>1. r \in Coming(p) /\ Refused(p)' = Refused(p) \cup {r} /\ r \notin Refused(p)
    BY <1>1, <1>2, <1>8 DEF Coming, Refused, Stale, Live, Back
  <2>2. Cardinality(Coming(p)') = Cardinality(Coming(p)) - 1 /\ Cardinality(Refused(p)') = Cardinality(Refused(p)) + 1
    <3>1. IsFiniteSet(Coming(p)) /\ IsFiniteSet(Refused(p))
      BY <1>4 DEF CountOK
    <3>2. Cardinality(Coming(p) \ {r}) = Cardinality(Coming(p)) - 1
      BY <2>1, <3>1, FS_RemoveElement
    <3>3. Cardinality(Refused(p) \cup {r}) = Cardinality(Refused(p)) + 1
      BY <2>1, <3>1, FS_AddElement
    <3> QED
      BY <1>3, <2>1, <3>2, <3>3
  <2>3. Ahead(p)' = Ahead(p) - 1
    BY <1>2, <1>4, <2>2 DEF Ahead, CountOK
  <2> QED
    BY <1>4, <1>5, <1>6, <1>7, <2>3
<1>9. CASE req[r].kind = "unread"
  <2>1. r \in Blind(p) /\ IsFiniteSet(Blind(p))
    BY <1>4, <1>9 DEF Blind, Live, CountOK
  <2>2. Cardinality(Blind(p)') = Cardinality(Blind(p)) - 1
    BY <1>3, <2>1, FS_RemoveElement
  <2> QED
    BY <1>4, <1>5, <1>6, <1>7, <2>2
<1>10. CASE req[r].kind = "chunk"
  <2>1. page[p].up = "on"
    BY <1>10 DEF Apart
  <2>2. ~ ChunkRefused(p)
    <3> SUFFICES ASSUME NEW q \in Reqs, Of(q) = p, req[q].kind = "chunk", req[q].st \in Back PROVE FALSE
      BY DEF ChunkRefused
    <3>1. q = r
      BY <1>10 DEF Apart
    <3> QED
      BY <3>1 DEF Back
  <2>3. ChunkRefused(p)'
    BY <1>1, <1>10 DEF ChunkRefused, Back
  <2>4. Debt(p) = 1 /\ Debt(p)' = 0
    BY <2>1, <2>2, <2>3 DEF Debt
  <2> QED
    BY <1>4, <1>5, <1>6, <1>7, <2>4
<1> QED
  BY <1>8, <1>9, <1>10 DEF Request, Kinds, Heard

LEMMA RecordAuthFailureStep ==
  ASSUME IInv, NEW r \in Reqs, RecordAuthFailure(r)
  PROVE  IInv'
<1> DEFINE a == Of(r)
           f == FailsNow(a)
           x == [fails |-> f, old |-> FALSE, locked |-> rec[a].locked \/ f >= LockAt]
           st == IF f >= PanicAt THEN "rotate" ELSE IF f >= LockAt THEN "429" ELSE "401"
<1>1. /\ req[r].st = "tarpit" /\ TypeOK /\ rec[a] \in Record /\ a \in Actors
      /\ ~(a \in Pages /\ a \in Guessers) /\ req[r] \in Request(gen) /\ (a \in Pages => PageOK(a))
  BY RequestIs DEF RecordAuthFailure
<1>2. To(r, st) /\ rec' = [rec EXCEPT ![a] = x] /\ UNCHANGED <<enabled, gen, page, known, judged, clicks, acts>>
  BY DEF RecordAuthFailure
<1>3. f \in Nat /\ f <= rec[a].fails + 1 /\ rec[a].fails \in Nat /\ rec[a].locked \in BOOLEAN
  BY <1>1 DEF FailsNow, Record
<1>4. x \in Record /\ x.fails = f /\ x.old = FALSE
  BY <1>3 DEF Record
<1>5. st \in States \ {"none"} /\ st \in {"rotate", "429", "401"} /\ (st = "rotate" <=> f >= PanicAt)
  BY DEF States
<1>0. f = FailsNow(a)
  OBVIOUS
<1> HIDE DEF f, x, st
<1>6. rec' \in [Actors -> Record] /\ rec'[a] = x /\ \A b \in Actors : b # a => rec'[b] = rec[b]
  BY <1>1, <1>2, <1>4 DEF TypeOK
<1>7. /\ req' \in [Reqs -> Request(gen)] /\ \A q \in Reqs : q # r => req'[q] = req[q]
      /\ a \in Pages => req'[r] = [req[r] EXCEPT !.st = st]
      /\ a \in Guessers => req'[r].st = IF st = "rotate" THEN "rotate" ELSE "none"
  BY <1>1, <1>2, <1>5, ToIs
<1>8. TypeOK'
  BY <1>1, <1>2, <1>6, <1>7 DEF TypeOK
<1>9. ASSUME a \in Guessers PROVE GuesserOK(a)'
  BY <1>0, <1>1, <1>2, <1>3, <1>4, <1>5, <1>6, <1>7, <1>9, GuessCounted
<1>10. ASSUME a \in Pages PROVE PageOK(a)'
  <2>1. Stale(req[r]) /\ UserOK(a) /\ Apart(a) /\ Carried(a) /\ req[r].kind # "none"
    BY <1>1, <1>10 DEF PageOK, Carried
  <2>2. req'[r].st = st /\ req'[r].kind = req[r].kind /\ req'[r].pin = req[r].pin /\ req'[r].token = req[r].token
    BY <1>1, <1>7, <1>10 DEF Request
  <2>3. Stale(req'[r])
    BY <2>1, <2>2 DEF Stale
  <2>4. Owed(a)' <= Owed(a) - 1
    BY <1>1, <1>2, <1>5, <1>7, <1>10, <2>1, FailureCounted
  <2>5. Owed(a) \in Nat /\ Owed(a)' \in Nat
    BY <1>10, OwedIs
  <2>6. clicks'[a] = clicks[a] + 0 /\ rec'[a].fails + Owed(a)' <= rec[a].fails + Owed(a) + 2 * 0
    BY <1>1, <1>2, <1>3, <1>4, <1>6, <1>10, <2>4, <2>5 DEF TypeOK
  <2>7. UserOK(a)'
    BY <1>1, <1>2, <1>8, <1>10, <2>1, <2>6, UserKept
  <2>8. Apart(a)'
    BY <1>2, <1>7, <1>10, <2>1, <2>2, ApartKept
  <2>9. Carried(a)'
    <3> SUFFICES ASSUME NEW q \in Reqs, Of(q) = a
                 PROVE  /\ req'[q].st = "none" <=> req'[q].kind = "none"
                        /\ req'[q].st \in {"tarpit", "rotate"} => Stale(req'[q])
      BY <1>2 DEF Carried, Stale
    <3>1. CASE q = r
      BY <1>5, <2>1, <2>2, <2>3, <3>1
    <3>2. CASE q # r
      BY <1>7, <2>1, <3>2 DEF Carried
    <3> QED
      BY <3>1, <3>2
  <2> QED
    BY <2>7, <2>8, <2>9 DEF PageOK
<1>13. \A q \in Reqs : Of(q) # a => req'[q] = req[q]
  BY <1>7
<1> QED
  BY <1>1, <1>2, <1>6, <1>8, <1>9, <1>10, <1>13, Frame
\* New codes: whoever guessed starts anew, no request has the code of now, and each page may fail once more with
\* everything it has under way.
LEMMA UserRotated ==
  ASSUME TypeOK, TypeOK', NEW p \in Pages, UserOK(p), gen' = gen + 1, rec' = rec, clicks' = clicks,
         Blind(p)' \subseteq Blind(p), Debt(p)' <= Debt(p)
  PROVE  UserOK(p)'
<1>1. rec[p].fails \in Nat /\ gen \in Nat /\ clicks[p] \in Nat
  BY OwedIs DEF TypeOK, Record
<1>2. /\ Overlap[p] \in Nat /\ Ahead(p) \in 0 .. Overlap[p] /\ Ahead(p)' \in 0 .. Overlap[p]
      /\ Cardinality(Blind(p)) \in Nat /\ Cardinality(Blind(p)') \in Nat
      /\ Debt(p) \in {0, 1} /\ Debt(p)' \in {0, 1}
  BY OwedIs DEF CountOK
<1>3. Cardinality(Blind(p)') <= Cardinality(Blind(p))
  BY BlindFalls
<1>4. /\ Owed(p) = Ahead(p) + Cardinality(Blind(p)) + Debt(p)
      /\ Owed(p)' = Ahead(p)' + Cardinality(Blind(p)') + Debt(p)'
  BY DEF Owed
<1>5. Owed(p) \in Nat /\ Owed(p)' \in Nat /\ Owed(p)' <= Owed(p) + Overlap[p]
  BY <1>2, <1>3, <1>4
<1>6. \A m, n \in Int : m * (n + 1 - 1) = m * (n - 1) + m
  OBVIOUS
<1>7. Overlap[p] * (gen' - 1) = Overlap[p] * (gen - 1) + Overlap[p] /\ Overlap[p] * (gen - 1) \in Int
  BY <1>1, <1>2, <1>6
<1> DEFINE bound == Overlap[p] * (gen - 1)
<1>8. /\ rec[p].fails + Owed(p) <= bound + 2 * clicks[p] /\ bound \in Int
      /\ (Overlap[p] * (gen - 1) + 2 * clicks[p])' = bound + Overlap[p] + 2 * clicks[p]
  BY <1>7 DEF UserOK
<1> HIDE DEF bound
<1>9. rec[p].fails + Owed(p)' <= bound + Overlap[p] + 2 * clicks[p]
  BY <1>1, <1>2, <1>5, <1>8
<1> QED
  BY <1>8, <1>9 DEF UserOK

LEMMA Regenerated ==
  ASSUME IInv, RegeneratePIN, UNCHANGED <<enabled, rec, page, known, clicks, acts>>,
         req' \in [Reqs -> Request(gen)],
         \A q \in Reqs : \/ req'[q] = req[q]
                         \/ Of(q) \in Guessers /\ req'[q].st = "none"
                         \/ Of(q) \in Pages /\ req[q].st = "rotate" /\ req'[q] = [req[q] EXCEPT !.st = "429"]
  PROVE  IInv'
<1>1. TypeOK /\ gen \in Nat \ {0} /\ gen' = gen + 1 /\ judged' = [b \in Guessers |-> 0]
  BY DEF IInv, TypeOK, RegeneratePIN
<1>2. TypeOK'
  <2>1. 0 .. gen \subseteq 0 .. gen'
    BY <1>1
  <2>2. Request(gen) \subseteq Request(gen') /\ Page(gen) \subseteq Page(gen')
    BY <2>1 DEF Request, Page
  <2>3. req' \in [Reqs -> Request(gen')] /\ page' \in [Pages -> Page(gen')] /\ known' \in [Guessers -> 0 .. gen']
    BY <1>1, <2>1, <2>2 DEF TypeOK
  <2> QED
    BY <1>1, <2>3 DEF TypeOK
<1>3. ASSUME NEW b \in Guessers PROVE GuesserOK(b)'
  <2>1. Cardinality(InFlight(b)') \in Nat /\ rec[b] \in Record
    BY <1>1, Counts DEF CountOK, Actors, TypeOK
  <2>2. Kept(rec[b]) \in Nat
    BY <2>1, ThresholdsAssumption DEF Kept, Record
  <2>3. judged'[b] = 0 /\ rec'[b] = rec[b]
    BY <1>1
  <2>4. OnlyGuesses(b)'
    <3>1. OnlyGuesses(b) /\ b \notin Pages
      BY ActorsAssumption DEF IInv, GuesserOK
    <3> QED
      BY <3>1 DEF OnlyGuesses
  <2> QED
    BY <2>1, <2>2, <2>3, <2>4 DEF GuesserOK, GuessOK
<1>4. ASSUME NEW p \in Pages PROVE PageOK(p)'
  <2>1. UserOK(p) /\ Apart(p) /\ Carried(p) /\ p \notin Guessers
    BY ActorsAssumption DEF IInv, PageOK
  <2>2. ASSUME NEW q \in Reqs, Of(q) = p
        PROVE  /\ req'[q].kind = req[q].kind /\ req'[q].pin = req[q].pin /\ req'[q].token = req[q].token
               /\ req'[q].st = req[q].st \/ (req[q].st = "rotate" /\ req'[q].st = "429")
    <3>1. req[q] \in Request(gen)
      BY <1>1 DEF TypeOK
    <3> QED
      BY <2>1, <2>2, <3>1 DEF Request
  <2>3. Blind(p)' \subseteq Blind(p) /\ (ChunkRefused(p) => ChunkRefused(p)')
    BY <2>2 DEF Blind, ChunkRefused, Live, Back
  <2>4. Debt(p)' <= Debt(p)
    BY <2>3 DEF Debt
  <2>5. UserOK(p)'
    BY <1>1, <1>2, <2>1, <2>3, <2>4, UserRotated
  <2>6. Apart(p)'
    BY <2>1, <2>2, ApartKept
  <2>7. Carried(p)'
    <3> SUFFICES ASSUME NEW q \in Reqs, Of(q) = p
                 PROVE  (req[q].st = "none" <=> req[q].kind = "none")' /\ (req[q].st \in {"tarpit", "rotate"} => Stale(req[q]))'
      BY DEF Carried
    <3>1. /\ req[q] \in Request(gen) /\ (req[q].st = "none" <=> req[q].kind = "none")
          /\ req[q].st \in {"tarpit", "rotate"} => Stale(req[q])
      BY <1>1, <2>1 DEF TypeOK, Carried
    <3>2. req'[q].st = "none" <=> req'[q].kind = "none"
      BY <2>2, <3>1
    <3>3. ASSUME req'[q].st \in {"tarpit", "rotate"} PROVE Stale(req[q])'
      <4>1. Stale(req[q]) /\ req[q].pin \in 0 .. gen /\ req[q].token \in 0 .. gen /\ req[q].pin # 0
        BY <2>2, <3>1, <3>3 DEF Request, Stale
      <4> QED
        BY <1>1, <2>2, <4>1 DEF Stale
    <3> QED
      BY <3>2, <3>3
  <2> QED
    BY <2>5, <2>6, <2>7 DEF PageOK
<1> QED
  BY <1>2, <1>3, <1>4 DEF IInv

LEMMA RotateStep ==
  ASSUME IInv, NEW r \in Reqs, Rotate(r)
  PROVE  IInv'
<1>1. TypeOK /\ req[r].st = "rotate" /\ (Of(r) \in Pages \/ Of(r) \in Guessers)
  BY RequestIs DEF Rotate
<1>2. RegeneratePIN /\ To(r, "429") /\ UNCHANGED <<enabled, rec, page, known, clicks, acts>>
  BY DEF Rotate
<1>3. /\ req' \in [Reqs -> Request(gen)] /\ \A q \in Reqs : q # r => req'[q] = req[q]
      /\ Of(r) \in Pages => req'[r] = [req[r] EXCEPT !.st = "429"]
      /\ Of(r) \in Guessers => req'[r].st = "none"
  BY <1>1, <1>2, ToIs DEF States
<1> QED
  BY <1>1, <1>2, <1>3, Regenerated

-----------------------------------------------------------------------------
(* Time and the host.                                                       *)

LEMMA HostRegeneratesStep ==
  ASSUME IInv, HostRegenerates
  PROVE  IInv'
<1>1. RegeneratePIN /\ UNCHANGED <<enabled, rec, req, page, known, clicks, acts>> /\ req \in [Reqs -> Request(gen)]
  BY DEF IInv, TypeOK, HostRegenerates
<1> QED
  BY <1>1, Regenerated

\* Neither the codes nor anything that is counted changes.
LEMMA NothingCounted ==
  ASSUME IInv, TypeOK', UNCHANGED <<gen, rec, req, page, judged, clicks>>
  PROVE  IInv'
<1>1. ASSUME NEW b \in Guessers PROVE GuesserOK(b)'
  BY SameGuesser DEF IInv
<1>2. ASSUME NEW p \in Pages PROVE PageOK(p)'
  <2>1. rec'[p].fails <= rec[p].fails
    BY DEF IInv, TypeOK, Record, Actors
  <2> QED
    BY <2>1, SamePage DEF IInv
<1> QED
  BY <1>1, <1>2 DEF IInv

LEMMA HostTogglesStep ==
  ASSUME IInv, HostToggles
  PROVE  IInv'
BY NothingCounted DEF HostToggles, Act, IInv, TypeOK

LEMMA PortalTellsStep ==
  ASSUME IInv, NEW a \in Guessers, PortalTells(a)
  PROVE  IInv'
<1>1. TypeOK /\ gen \in Nat /\ known' = [known EXCEPT ![a] = gen] /\ UNCHANGED <<enabled, gen, rec, req, page, judged, clicks, acts>>
  BY DEF PortalTells, IInv, TypeOK
<1>2. known' \in [Guessers -> 0 .. gen]
  BY <1>1 DEF TypeOK
<1>3. TypeOK'
  BY <1>1, <1>2 DEF TypeOK
<1> QED
  BY <1>1, <1>3, NothingCounted

LEMMA LockExpiresStep ==
  ASSUME IInv, NEW a \in Actors, LockExpires(a)
  PROVE  IInv'
<1> DEFINE x == [rec[a] EXCEPT !.locked = FALSE]
<1>1. /\ TypeOK /\ rec[a] \in Record /\ UNCHANGED <<enabled, gen, req, page, known, judged, clicks, acts>>
      /\ rec' = [rec EXCEPT ![a] = x]
  BY DEF IInv, TypeOK, LockExpires
<1>2. x \in Record /\ x.fails = rec[a].fails /\ x.old = rec[a].old /\ rec[a].fails \in Nat
  BY <1>1 DEF Record
<1> HIDE DEF x
<1>3. rec' \in [Actors -> Record] /\ rec'[a] = x /\ \A b \in Actors : b # a => rec'[b] = rec[b]
  BY <1>1, <1>2 DEF TypeOK
<1>4. TypeOK'
  BY <1>1, <1>3 DEF TypeOK
<1>5. ASSUME a \in Guessers PROVE GuesserOK(a)'
  <2>1. Kept(rec'[a]) = Kept(rec[a])
    BY <1>2, <1>3 DEF Kept
  <2>2. InFlight(a)' = InFlight(a) /\ GuesserOK(a)
    BY <1>1, <1>5 DEF InFlight, IInv
  <2> QED
    BY <1>1, <2>1, <2>2 DEF GuesserOK, GuessOK, OnlyGuesses
<1>6. ASSUME a \in Pages PROVE PageOK(a)'
  <2>1. PageOK(a) /\ rec'[a].fails <= rec[a].fails
    BY <1>2, <1>3, <1>6 DEF IInv
  <2> QED
    BY <1>1, <1>4, <1>6, <2>1, SamePage
<1> QED
  BY <1>1, <1>3, <1>4, <1>5, <1>6, Frame

LEMMA QuarterHourStep ==
  ASSUME IInv, NEW a \in Guessers, QuarterHour(a)
  PROVE  IInv'
<1> DEFINE x == [rec[a] EXCEPT !.old = TRUE]
<1>1. /\ TypeOK /\ a \in Actors /\ a \notin Pages /\ rec[a] \in Record
      /\ UNCHANGED <<enabled, gen, req, page, known, clicks>>
      /\ rec' = [rec EXCEPT ![a] = x] /\ acts' = acts + 1
      /\ judged' = [b \in Guessers |-> IF b = a THEN 0 ELSE judged[b]]
  BY ActorsAssumption DEF IInv, TypeOK, QuarterHour, Actors, Act
<1>2. x \in Record /\ x.old = TRUE
  BY <1>1 DEF Record
<1> HIDE DEF x
<1>3. rec' \in [Actors -> Record] /\ rec'[a] = x /\ \A b \in Actors : b # a => rec'[b] = rec[b]
  BY <1>1, <1>2 DEF TypeOK
<1>4. judged' \in [Guessers -> Nat] /\ judged'[a] = 0 /\ \A b \in Guessers : b # a => judged'[b] = judged[b]
  BY <1>1 DEF TypeOK
<1>5. TypeOK'
  BY <1>1, <1>3, <1>4 DEF TypeOK
<1>6. Kept(rec'[a]) = 0 /\ Cardinality(InFlight(a)') \in Nat
  BY <1>1, <1>2, <1>3, Counts DEF Kept, CountOK
<1>7. GuesserOK(a)'
  <2>1. OnlyGuesses(a)'
    BY <1>1 DEF IInv, GuesserOK, OnlyGuesses
  <2> QED
    BY <1>4, <1>6, <2>1 DEF GuesserOK, GuessOK
<1> QED
  BY <1>1, <1>3, <1>4, <1>5, <1>7, Frame

\* A guess: one more is judged, and is under way.  The PIN of the portal is no guess.
LEMMA GuessStep ==
  ASSUME IInv, NEW r \in Reqs, Guess(r)
  PROVE  IInv'
<1> DEFINE a == Of(r)
<1>1. /\ TypeOK /\ a \in Actors /\ a \in Guessers /\ a \notin Pages /\ req[r] \in Request(gen) /\ req[r].st = "none"
      /\ UNCHANGED <<enabled, gen, rec, page, known, clicks, acts>> /\ judged[a] \in Nat
      /\ GuessOK(a) /\ OnlyGuesses(a)
  BY RequestIs DEF Guess, Free, TypeOK, GuesserOK
<1>2. PICK st \in {"tarpit", "good"} :
        /\ req' = [req EXCEPT ![r] = [req[r] EXCEPT !.st = st]]
        /\ judged' = IF st = "tarpit" THEN [judged EXCEPT ![a] = judged[a] + 1] ELSE judged
  BY DEF Guess
<1> DEFINE x == [req[r] EXCEPT !.st = st]
<1>3. x \in Request(gen) /\ x.st = st
  BY <1>1 DEF Request, States
<1>4. req' = [req EXCEPT ![r] = x]
  BY <1>2
<1> HIDE DEF x
<1>5. req' \in [Reqs -> Request(gen)] /\ req'[r].st = st /\ \A q \in Reqs : q # r => req'[q] = req[q]
  BY <1>1, <1>3, <1>4 DEF TypeOK
<1>6. /\ judged' \in [Guessers -> Nat] /\ \A b \in Guessers : b # a => judged'[b] = judged[b]
      /\ judged'[a] = IF st = "tarpit" THEN judged[a] + 1 ELSE judged[a]
  BY <1>1, <1>2 DEF TypeOK
<1>7. TypeOK'
  BY <1>1, <1>5, <1>6 DEF TypeOK
<1>8. OnlyGuesses(a)'
  BY <1>1, <1>5 DEF OnlyGuesses
<1>9. IsFiniteSet(InFlight(a)) /\ Cardinality(InFlight(a)) \in Nat
  BY <1>1, Counts DEF CountOK
<1>10. judged[a] <= Kept(rec[a]) + Cardinality(InFlight(a)) /\ Kept(rec[a]) \in Nat
  BY <1>1, ThresholdsAssumption DEF GuessOK, Kept, TypeOK, Record
<1>11. CASE st = "tarpit"
  <2>1. InFlight(a)' = InFlight(a) \cup {r} /\ r \notin InFlight(a)
    BY <1>1, <1>5, <1>11 DEF InFlight
  <2>2. Cardinality(InFlight(a)') = Cardinality(InFlight(a)) + 1
    BY <1>9, <2>1, FS_AddElement
  <2>3. judged'[a] <= Kept(rec'[a]) + Cardinality(InFlight(a)')
    BY <1>1, <1>6, <1>9, <1>10, <1>11, <2>2
  <2>4. GuesserOK(a)'
    BY <1>8, <2>3 DEF GuesserOK, GuessOK
  <2> QED
    BY <1>1, <1>5, <1>6, <1>7, <2>4, Frame
<1>12. CASE st = "good"
  <2>1. InFlight(a)' = InFlight(a)
    BY <1>1, <1>5, <1>12 DEF InFlight
  <2>2. GuesserOK(a)'
    BY <1>1, <1>6, <1>8, <1>12, <2>1 DEF GuesserOK, GuessOK
  <2> QED
    BY <1>1, <1>5, <1>6, <1>7, <2>2, Frame
<1> QED
  BY <1>11, <1>12

-----------------------------------------------------------------------------
(* The page.                                                                *)

\* The invariant after a step of one page and its user, with k clicks.
LEMMA PageStep ==
  ASSUME IInv, NEW p \in Pages, UNCHANGED <<enabled, gen, rec, known, judged, acts>>,
         NEW x \in Page(gen), page' = [page EXCEPT ![p] = x], req' \in [Reqs -> Request(gen)],
         \A q \in Reqs : Of(q) # p => req'[q] = req[q],
         NEW k \in {0, 1}, clicks' = IF k = 1 THEN [clicks EXCEPT ![p] = @ + 1] ELSE clicks,
         Owed(p)' <= Owed(p) + 2 * k, Apart(p)',
         \A q \in Reqs : Of(q) = p =>
           /\ req'[q].st = "none" <=> req'[q].kind = "none"
           /\ \/ req'[q].st = req[q].st /\ req'[q].pin = req[q].pin /\ req'[q].token = req[q].token
              \/ req'[q].st \in {"none", "sent"}
  PROVE  IInv'
<1>1. /\ TypeOK /\ p \in Actors /\ p \notin Guessers /\ UserOK(p) /\ Carried(p) /\ clicks[p] \in Nat
  BY ActorsAssumption DEF IInv, PageOK, TypeOK, Actors
<1>2. /\ page' \in [Pages -> Page(gen)] /\ clicks' \in [Pages -> Nat] /\ clicks'[p] = clicks[p] + k
      /\ \A q \in Pages : q # p => page'[q] = page[q] /\ clicks'[q] = clicks[q]
  BY <1>1 DEF TypeOK
<1>3. TypeOK'
  BY <1>1, <1>2 DEF TypeOK
<1>4. rec'[p].fails + Owed(p)' <= rec[p].fails + Owed(p) + 2 * k
  BY <1>1, OwedIs DEF TypeOK, Record
<1>5. UserOK(p)'
  BY <1>1, <1>2, <1>3, <1>4, UserKept
<1>6. Carried(p)'
  <2> SUFFICES ASSUME NEW q \in Reqs, Of(q) = p
               PROVE  (req[q].st = "none" <=> req[q].kind = "none")' /\ (req[q].st \in {"tarpit", "rotate"} => Stale(req[q]))'
    BY DEF Carried
  <2>1. ASSUME req'[q].st \in {"tarpit", "rotate"} PROVE Stale(req[q])'
    BY <1>1, <2>1 DEF Carried, Stale
  <2> QED
    BY <2>1
<1> QED
  BY <1>1, <1>2, <1>3, <1>5, <1>6, Frame DEF PageOK

\* A page that stores no other refused code, and asks for nothing.
LEMMA PageOnly ==
  ASSUME IInv, NEW p \in Pages, UNCHANGED <<enabled, gen, rec, req, known, judged, clicks, acts>>,
         NEW x \in Page(gen), page' = [page EXCEPT ![p] = x],
         Stale(x) => Stale(page[p]), x.up # "no" => page[p].up # "no",
         \A q \in Reqs : Of(q) = p => /\ req[q].kind = "download" => x.dl = "on"
                                      /\ req[q].kind = "chunk" => x.up = "on"
  PROVE  IInv'
<1>1. TypeOK /\ Apart(p) /\ Carried(p) /\ req' \in [Reqs -> Request(gen)]
  BY DEF IInv, PageOK, TypeOK
<1>2. page'[p] = x
  BY <1>1 DEF TypeOK
<1>3. /\ Coming(p)' = Coming(p) /\ Refused(p)' = Refused(p) /\ Blind(p)' = Blind(p) /\ ChunkRefused(p)' = ChunkRefused(p)
      /\ Stale(page[p])' = Stale(x)
  BY <1>2 DEF Coming, Refused, Blind, ChunkRefused, Stale
<1>4. Owed(p)' <= Owed(p)
  BY <1>2, <1>3, OwedFalls
<1>5. Owed(p) \in Nat /\ Owed(p)' \in Nat
  BY OwedIs
<1>6. Apart(p)'
  BY <1>1, <1>2 DEF Apart
<1>7. /\ Owed(p)' <= Owed(p) + 2 * 0
      /\ \A q \in Reqs : Of(q) = p =>
           /\ req'[q].st = "none" <=> req'[q].kind = "none"
           /\ \/ req'[q].st = req[q].st /\ req'[q].pin = req[q].pin /\ req'[q].token = req[q].token
              \/ req'[q].st \in {"none", "sent"}
  BY <1>1, <1>4, <1>5 DEF Carried
<1>8. clicks' = (IF 0 = 1 THEN [clicks EXCEPT ![p] = @ + 1] ELSE clicks) /\ 0 \in {0, 1}
  OBVIOUS
<1>9. \A q \in Reqs : Of(q) # p => req'[q] = req[q]
  OBVIOUS
<1> QED
  BY <1>1, <1>6, <1>7, <1>8, <1>9, PageStep

\* A page that stores no other refused code asks for something with what it stores, at most at a click.
Sends(r, p, kind, x, k) ==
  /\ Of(r) = p /\ Send(r, kind, x) /\ page' = [page EXCEPT ![p] = x] /\ UNCHANGED <<enabled, gen, rec, known, judged, acts>>
  /\ kind \in Heard \cup {"chunk"} /\ x \in Page(gen)
  /\ Stale(x) => Stale(page[p])
  /\ k \in {0, 1} /\ clicks' = IF k = 1 THEN [clicks EXCEPT ![p] = @ + 1] ELSE clicks
  /\ x.up # "no" => page[p].up # "no" \/ k = 1
  /\ kind = "download" => x.dl = "on"
  /\ kind = "chunk" => x.up = "on"
  /\ \A q \in Reqs : Of(q) = p => /\ req[q].kind = "download" => x.dl = "on" /\ kind # "download"
                                  /\ req[q].kind = "chunk" => x.up = "on" /\ kind # "chunk"

LEMMA SendStep ==
  ASSUME IInv, NEW r \in Reqs, NEW p \in Pages, NEW kind, NEW x, NEW k, Sends(r, p, kind, x, k)
  PROVE  IInv'
<1> USE DEF Sends
<1> DEFINE y == Carrying(kind, x)
<1>1. TypeOK /\ gen \in Nat \ {0} /\ Apart(p) /\ Carried(p) /\ req[r].st = "none" /\ req[r].kind = "none"
  BY DEF IInv, PageOK, TypeOK, Send, Free, Carried
<1>2. /\ y \in Request(gen) /\ y.st = "sent" /\ y.kind = kind /\ kind # "none" /\ kind # "unread"
      /\ y.pin = x.pin /\ y.token = x.token
  BY <1>1 DEF Carrying, NoReq, Request, Page, States, Kinds, Heard
<1>3. req' = [req EXCEPT ![r] = y]
  BY DEF Send
<1> HIDE DEF y
<1>4. req' \in [Reqs -> Request(gen)] /\ req'[r] = y /\ \A q \in Reqs : q # r => req'[q] = req[q]
  BY <1>1, <1>2, <1>3 DEF TypeOK
<1>5. page'[p] = x
  BY <1>1 DEF TypeOK
<1>6. (Stale(page[p])' <=> Stale(x)) /\ (Stale(req[r])' <=> Stale(x))
  BY <1>2, <1>4, <1>5 DEF Stale
<1>7. /\ Refused(p)' = Refused(p) /\ Blind(p)' = Blind(p) /\ ChunkRefused(p)' = ChunkRefused(p)
      /\ Stale(x) \/ Coming(p)' \subseteq Coming(p)
  <2>1. Refused(p)' = Refused(p) /\ Blind(p)' = Blind(p) /\ ChunkRefused(p)' = ChunkRefused(p)
    BY <1>1, <1>2, <1>4 DEF Refused, Blind, ChunkRefused, Stale, Live, Back
  <2>2. ASSUME ~ Stale(x) PROVE Coming(p)' \subseteq Coming(p)
    BY <1>2, <1>4, <1>6, <2>2 DEF Coming, Stale
  <2> QED
    BY <2>1, <2>2
<1>8. Owed(p)' <= Owed(p) + 2 * k
  <2>1. Ahead(p)' <= Ahead(p) /\ Cardinality(Blind(p)') <= Cardinality(Blind(p))
    BY <1>6, <1>7, AheadFalls, BlindFalls
  <2>2. Debt(p)' <= Debt(p) + 2 * k
    <3>1. CASE k = 0
      BY <1>5, <1>7, <3>1, OwedIs DEF Debt
    <3>2. CASE k = 1
      BY <3>2, OwedIs
    <3> QED
      BY <3>1, <3>2
  <2>3. /\ Owed(p) = Ahead(p) + Cardinality(Blind(p)) + Debt(p)
        /\ Owed(p)' = Ahead(p)' + Cardinality(Blind(p)') + Debt(p)'
    BY DEF Owed
  <2>4. /\ Overlap[p] \in Nat /\ Ahead(p) \in 0 .. Overlap[p] /\ Ahead(p)' \in 0 .. Overlap[p]
        /\ Cardinality(Blind(p)) \in Nat /\ Cardinality(Blind(p)') \in Nat /\ Debt(p) \in {0, 1} /\ Debt(p)' \in {0, 1}
    BY OwedIs DEF CountOK
  <2> QED
    BY <2>1, <2>2, <2>3, <2>4
<1>9. Apart(p)'
  BY <1>1, <1>2, <1>4, <1>5 DEF Apart
<1>10. \A q \in Reqs : Of(q) = p =>
         /\ req'[q].st = "none" <=> req'[q].kind = "none"
         /\ \/ req'[q].st = req[q].st /\ req'[q].pin = req[q].pin /\ req'[q].token = req[q].token
            \/ req'[q].st \in {"none", "sent"}
  BY <1>1, <1>2, <1>4 DEF Carried
<1>11. \A q \in Reqs : Of(q) # p => req'[q] = req[q]
  BY <1>4
<1> QED
  BY <1>4, <1>8, <1>9, <1>10, <1>11, PageStep

\* What a step of a page's script may read of it.
LEMMA PageIs ==
  ASSUME IInv, NEW p \in Pages
  PROVE  /\ page[p] \in Page(gen) /\ gen \in Nat \ {0} /\ Apart(p) /\ Carried(p) /\ TypeOK
         /\ \A q \in Reqs : Of(q) = p => /\ req[q].kind = "download" => page[p].dl = "on"
                                         /\ req[q].kind = "chunk" => page[p].up = "on"
BY DEF IInv, TypeOK, PageOK, Apart

LEMMA ListStep ==
  ASSUME IInv, NEW r \in Reqs, Of(r) \in Pages, UNCHANGED <<enabled, gen, rec, known, judged, clicks, acts>>,
         NEW x \in Page(gen), page' = [page EXCEPT ![Of(r)] = x], Send(r, "list", x),
         Stale(x) => Stale(page[Of(r)]), x.up # "no" => page[Of(r)].up # "no",
         \A q \in Reqs : Of(q) = Of(r) => /\ req[q].kind = "download" => x.dl = "on"
                                          /\ req[q].kind = "chunk" => x.up = "on"
  PROVE  IInv'
<1>1. Sends(r, Of(r), "list", x, 0)
  BY DEF Sends, Heard
<1> QED
  BY <1>1, SendStep

LEMMA LoadStep ==
  ASSUME IInv, NEW r \in Reqs, Of(r) \in Pages, UNCHANGED <<enabled, gen, rec, known, judged, clicks, acts>>,
         NEW pg \in Page(gen), LoadSharedFiles(r, pg),
         Stale(pg) => Stale(page[Of(r)]), pg.up # "no" => page[Of(r)].up # "no",
         \A q \in Reqs : Of(q) = Of(r) => /\ req[q].kind = "download" => pg.dl = "on"
                                          /\ req[q].kind = "chunk" => pg.up = "on"
  PROVE  IInv'
<1> DEFINE p == Of(r)
           x == [pg EXCEPT !.cards = {"pin"}]
<1>1. /\ x \in Page(gen) /\ x.pin = pg.pin /\ x.token = pg.token /\ x.dl = pg.dl /\ x.up = pg.up
  BY DEF Page, Cards
<1>2. Stale(x) <=> Stale(pg)
  BY <1>1 DEF Stale
<1>3. \/ page' = [page EXCEPT ![p] = pg] /\ req' = req
      \/ page' = [page EXCEPT ![p] = x] /\ req' = req
      \/ page' = [page EXCEPT ![p] = pg] /\ Send(r, "list", pg)
  BY DEF LoadSharedFiles
<1> HIDE DEF x
<1>4. CASE page' = [page EXCEPT ![p] = pg] /\ req' = req
  BY <1>4, PageOnly
<1>5. CASE page' = [page EXCEPT ![p] = x] /\ req' = req
  BY <1>1, <1>2, <1>5, PageOnly
<1>6. CASE page' = [page EXCEPT ![p] = pg] /\ Send(r, "list", pg)
  BY <1>6, ListStep
<1> QED
  BY <1>3, <1>4, <1>5, <1>6

\* A page that is loaded, with nothing under way.
LEMMA LoadsStep ==
  ASSUME IInv, NEW r \in Reqs, Of(r) \in Pages, UNCHANGED <<enabled, gen, rec, known, judged, clicks, acts>>,
         NEW pin \in 0 .. gen, NEW token \in 0 .. gen, Loads(r, pin, token),
         pin # 0 /\ pin # gen /\ token # gen => Stale(page[Of(r)])
  PROVE  IInv'
<1> DEFINE pg == NewPage(pin, token)
<1>1. /\ pg \in Page(gen) /\ pg.pin = pin /\ pg.token = token /\ pg.dl = "no" /\ pg.up = "no"
  BY DEF NewPage, Page, Downs, Ups
<1>2. LoadSharedFiles(r, pg) /\ \A q \in Reqs : Of(q) = Of(r) => req[q].st = "none"
  BY DEF Loads
<1>3. \A q \in Reqs : Of(q) = Of(r) => req[q].kind = "none"
  BY <1>2, PageIs DEF Carried
<1> HIDE DEF pg
<1>4. Stale(pg) => Stale(page[Of(r)])
  BY <1>1 DEF Stale
<1> QED
  BY <1>1, <1>2, <1>3, <1>4, LoadStep

LEMMA OpenStep ==
  ASSUME IInv, NEW r \in Reqs, Open(r)
  PROVE  IInv'
<1>1. PICK pin \in {0, gen}, token \in {0, gen} : Loads(r, pin, token)
  BY DEF Open
<1>2. Of(r) \in Pages /\ UNCHANGED <<enabled, gen, rec, known, judged, clicks, acts>>
  BY DEF Open, ServerUnchanged
<1>3. gen \in Nat /\ pin \in 0 .. gen /\ token \in 0 .. gen
  BY DEF IInv, TypeOK
<1> QED
  BY <1>1, <1>2, <1>3, LoadsStep

LEMMA ReloadsStep ==
  ASSUME IInv, NEW r \in Reqs, Reloads(r)
  PROVE  IInv'
<1> DEFINE pg == page[Of(r)]
<1>1. Loads(r, pg.pin, pg.token) /\ Of(r) \in Pages /\ UNCHANGED <<enabled, gen, rec, known, judged, clicks, acts>>
  BY DEF Reloads, ServerUnchanged
<1>2. pg.pin \in 0 .. gen /\ pg.token \in 0 .. gen
  BY <1>1, PageIs DEF Page
<1>3. pg.pin # 0 /\ pg.pin # gen /\ pg.token # gen => Stale(pg)
  BY DEF Stale
<1> QED
  BY <1>1, <1>2, <1>3, LoadsStep

LEMMA PollStep ==
  ASSUME IInv, NEW r \in Reqs, Poll(r)
  PROVE  IInv'
<1> DEFINE p == Of(r)
<1>1. p \in Pages /\ Send(r, "list", page[p]) /\ UNCHANGED <<enabled, gen, rec, page, known, judged, clicks, acts>>
  BY DEF Poll, ServerUnchanged
<1>2. /\ page[p] \in Page(gen) /\ page' = [page EXCEPT ![p] = page[p]]
      /\ \A q \in Reqs : Of(q) = p => /\ req[q].kind = "download" => page[p].dl = "on"
                                      /\ req[q].kind = "chunk" => page[p].up = "on"
  BY <1>1, PageIs DEF TypeOK
<1> QED
  BY <1>1, <1>2, ListStep

LEMMA SubmitPINStep ==
  ASSUME IInv, NEW r \in Reqs, SubmitPIN(r)
  PROVE  IInv'
<1> DEFINE p == Of(r)
           pg == [page[p] EXCEPT !.pin = gen]
<1>1. /\ p \in Pages /\ UNCHANGED <<enabled, gen, rec, known, judged, clicks, acts>> /\ LoadSharedFiles(r, pg)
  BY DEF SubmitPIN, ServerUnchanged
<1>2. /\ page[p] \in Page(gen) /\ gen \in Nat \ {0}
      /\ \A q \in Reqs : Of(q) = p => /\ req[q].kind = "download" => page[p].dl = "on"
                                      /\ req[q].kind = "chunk" => page[p].up = "on"
  BY <1>1, PageIs
<1>3. pg \in Page(gen) /\ pg.pin = gen /\ pg.dl = page[p].dl /\ pg.up = page[p].up
  BY <1>2 DEF Page
<1>4. ~ Stale(pg)
  BY <1>3 DEF Stale
<1> HIDE DEF pg
<1> QED
  BY <1>1, <1>2, <1>3, <1>4, LoadStep

LEMMA DownloadStep ==
  ASSUME IInv, NEW r \in Reqs, Download(r)
  PROVE  IInv'
<1> DEFINE p == Of(r)
           x == [page[p] EXCEPT !.dl = "on"]
<1>1. /\ p \in Pages /\ UNCHANGED <<enabled, gen, rec, known, judged, clicks, acts>> /\ page[p].dl = "no"
      /\ Send(r, "download", page[p]) /\ page' = [page EXCEPT ![p] = x]
  BY DEF Download, Offered, ServerUnchanged
<1>2. /\ page[p] \in Page(gen)
      /\ \A q \in Reqs : Of(q) = p => /\ req[q].kind = "download" => page[p].dl = "on"
                                      /\ req[q].kind = "chunk" => page[p].up = "on"
  BY <1>1, PageIs
<1>3. /\ x \in Page(gen) /\ x.pin = page[p].pin /\ x.token = page[p].token /\ x.dl = "on" /\ x.up = page[p].up
  BY <1>2 DEF Page, Downs
<1> HIDE DEF x
<1>4. Send(r, "download", x) /\ (Stale(x) => Stale(page[p]))
  BY <1>1, <1>3 DEF Send, Carrying, Stale
<1>5. Sends(r, p, "download", x, 0)
  BY <1>1, <1>2, <1>3, <1>4 DEF Sends, Heard
<1> QED
  BY <1>1, <1>5, SendStep

LEMMA UploadFilesStep ==
  ASSUME IInv, NEW r \in Reqs, UploadFiles(r)
  PROVE  IInv'
<1> DEFINE p == Of(r)
           x == [page[p] EXCEPT !.up = "asks"]
<1>1. /\ p \in Pages /\ UNCHANGED <<enabled, gen, rec, known, judged, acts>> /\ page[p].up = "no"
      /\ Send(r, "ask", page[p]) /\ page' = [page EXCEPT ![p] = x] /\ clicks' = [clicks EXCEPT ![p] = @ + 1]
  BY DEF UploadFiles, Offered, ServerUnchanged, Click
<1>2. /\ page[p] \in Page(gen)
      /\ \A q \in Reqs : Of(q) = p => /\ req[q].kind = "download" => page[p].dl = "on"
                                      /\ req[q].kind = "chunk" => page[p].up = "on"
  BY <1>1, PageIs
<1>3. /\ x \in Page(gen) /\ x.pin = page[p].pin /\ x.token = page[p].token /\ x.dl = page[p].dl
  BY <1>2 DEF Page, Ups
<1> HIDE DEF x
<1>4. Send(r, "ask", x) /\ (Stale(x) => Stale(page[p]))
  BY <1>1, <1>3 DEF Send, Carrying, Stale
<1>5. Sends(r, p, "ask", x, 1)
  BY <1>1, <1>2, <1>3, <1>4 DEF Sends, Heard
<1> QED
  BY <1>1, <1>5, SendStep

LEMMA UploadNextChunkStep ==
  ASSUME IInv, NEW r \in Reqs, UploadNextChunk(r)
  PROVE  IInv'
<1> DEFINE p == Of(r)
<1>0. page' = page /\ UNCHANGED <<enabled, gen, rec, known, judged, clicks, acts>>
  BY DEF UploadNextChunk, ServerUnchanged
<1>1. /\ p \in Pages /\ page[p].up = "on"
      /\ Send(r, "chunk", page[p]) /\ \A q \in Reqs : Of(q) = p => req[q].kind # "chunk"
  BY DEF UploadNextChunk, UnderWay
<1>2. /\ page[p] \in Page(gen) /\ page' = [page EXCEPT ![p] = page[p]]
      /\ \A q \in Reqs : Of(q) = p => (req[q].kind = "download" => page[p].dl = "on")
  BY <1>0, <1>1, PageIs DEF TypeOK
<1>3. PICK x \in Page(gen) : x = page[p]
  BY <1>2
<1>4. /\ Send(r, "chunk", x) /\ page' = [page EXCEPT ![p] = x] /\ x.up = "on"
      /\ \A q \in Reqs : Of(q) = p => (req[q].kind = "download" => x.dl = "on")
  BY <1>1, <1>2, <1>3
<1>5. Sends(r, p, "chunk", x, 0)
  <2>1. Stale(x) => Stale(page[p])
    BY <1>3
  <2>2. \A q \in Reqs : Of(q) = p => /\ req[q].kind = "download" => x.dl = "on" /\ "chunk" # "download"
                                     /\ req[q].kind = "chunk" => x.up = "on" /\ "chunk" # "chunk"
    BY <1>1, <1>4
  <2>3. (x.up # "no" => page[p].up # "no") /\ UNCHANGED <<enabled, gen, rec, known, judged, clicks, acts>>
    BY <1>0, <1>1
  <2> QED
    BY <1>3, <1>4, <2>1, <2>2, <2>3 DEF Sends
<1> QED
  BY <1>1, <1>5, SendStep

LEMMA UploadEndsStep ==
  ASSUME IInv, NEW p \in Pages, UploadEnds(p)
  PROVE  IInv'
<1> DEFINE x == [page[p] EXCEPT !.up = "no"]
<1>1. /\ UNCHANGED <<enabled, gen, rec, req, known, judged, clicks, acts>> /\ page' = [page EXCEPT ![p] = x]
      /\ \A q \in Reqs : Of(q) = p => req[q].kind # "chunk"
  BY DEF UploadEnds, ServerUnchanged, UnderWay
<1>2. /\ page[p] \in Page(gen) /\ \A q \in Reqs : Of(q) = p => (req[q].kind = "download" => page[p].dl = "on")
  BY PageIs
<1>3. /\ x \in Page(gen) /\ x.pin = page[p].pin /\ x.token = page[p].token /\ x.dl = page[p].dl /\ x.up = "no"
  BY <1>2 DEF Page, Ups
<1> HIDE DEF x
<1>4. Stale(x) => Stale(page[p])
  BY <1>3 DEF Stale
<1> QED
  BY <1>1, <1>2, <1>3, <1>4, PageOnly

LEMMA LockoutEndsStep ==
  ASSUME IInv, NEW p \in Pages, LockoutEnds(p)
  PROVE  IInv'
<1> DEFINE x == [page[p] EXCEPT !.timer = FALSE, !.cards = (@ \ {"lock"}) \union {"pin"}]
<1>1. UNCHANGED <<enabled, gen, rec, req, known, judged, clicks, acts>> /\ page' = [page EXCEPT ![p] = x]
  BY DEF LockoutEnds, ServerUnchanged
<1>2. /\ page[p] \in Page(gen)
      /\ \A q \in Reqs : Of(q) = p => /\ req[q].kind = "download" => page[p].dl = "on"
                                      /\ req[q].kind = "chunk" => page[p].up = "on"
  BY PageIs
<1>3. /\ x \in Page(gen) /\ x.pin = page[p].pin /\ x.token = page[p].token /\ x.dl = page[p].dl /\ x.up = page[p].up
  BY <1>2 DEF Page, Cards
<1> HIDE DEF x
<1>4. Stale(x) => Stale(page[p])
  BY <1>3 DEF Stale
<1> QED
  BY <1>1, <1>2, <1>3, <1>4, PageOnly

\* An aborted request leaves at most one failure that nobody reads, or no longer pays for one that was refused.
LEMMA StopOwes ==
  ASSUME IInv, NEW p \in Pages, NEW r \in Reqs, Of(r) = p, req[r].st = "none", NEW w \in {"dl", "up"}, gen' = gen,
         NEW at \in {"paused", "no"}, req' = [Aborted(p, w) EXCEPT ![r] = Carrying("unread", page[p])],
         page' = [page EXCEPT ![p] = Put(@, w, at)]
  PROVE  Owed(p)' <= Owed(p) + 2
<1> DEFINE K == KindOf(w)
           pg == Put(page[p], w, at)
<1>1. /\ TypeOK /\ page[p] \in Page(gen) /\ gen \in Nat \ {0} /\ Apart(p) /\ Carried(p) /\ req[r].kind = "none"
  BY PageIs DEF Carried
<1>2. /\ K \in {"download", "chunk"} /\ (K = "download" <=> w = "dl")
      /\ page'[p] = pg /\ pg.pin = page[p].pin /\ pg.token = page[p].token /\ (w = "dl" => pg.up = page[p].up)
  BY <1>1 DEF KindOf, Put, Page, TypeOK
<1>3. /\ req'[r].st = "sent" /\ req'[r].kind = "unread"
      /\ \A q \in Reqs : q # r /\ ~(Of(q) = p /\ req[q].kind = K) => req'[q] = req[q]
      /\ \A q \in Reqs : q # r /\ Of(q) = p /\ req[q].kind = K =>
           /\ req'[q].kind = "unread" /\ req'[q].st = req[q].st
           /\ req'[q].pin = req[q].pin /\ req'[q].token = req[q].token
  <2>1. Carrying("unread", page[p]).st = "sent" /\ Carrying("unread", page[p]).kind = "unread"
    BY DEF Carrying, NoReq
  <2>2. \A q \in Reqs : req[q] \in Request(gen)
    BY <1>1 DEF TypeOK
  <2>3. \A q \in Reqs : req'[q] = IF q = r THEN Carrying("unread", page[p])
                                  ELSE IF Of(q) = p /\ req[q].kind = K THEN [req[q] EXCEPT !.kind = "unread"] ELSE req[q]
    BY DEF Aborted
  <2>4. /\ req'[r].st = "sent" /\ req'[r].kind = "unread"
        /\ \A q \in Reqs : q # r /\ ~(Of(q) = p /\ req[q].kind = K) => req'[q] = req[q]
    BY <2>1, <2>3
  <2>5. ASSUME NEW q \in Reqs, q # r, Of(q) = p, req[q].kind = K
        PROVE  /\ req'[q].kind = "unread" /\ req'[q].st = req[q].st
               /\ req'[q].pin = req[q].pin /\ req'[q].token = req[q].token
    <3>1. req'[q] = [req[q] EXCEPT !.kind = "unread"] /\ req[q] \in Request(gen)
      BY <2>2, <2>3, <2>5
    <3> QED
      BY <3>1 DEF Request
  <2> QED
    BY <2>4, <2>5
<1> HIDE DEF K, pg
<1>4. Stale(page[p])' <=> Stale(page[p])
  BY <1>2 DEF Stale
<1>5. /\ Owed(p) = Ahead(p) + Cardinality(Blind(p)) + Debt(p)
      /\ Owed(p)' = Ahead(p)' + Cardinality(Blind(p)') + Debt(p)'
      /\ Overlap[p] \in Nat /\ Ahead(p) \in 0 .. Overlap[p] /\ Ahead(p)' \in 0 .. Overlap[p]
      /\ CountOK(p) /\ CountOK(p)' /\ Debt(p) \in {0, 1} /\ Debt(p)' \in {0, 1}
  BY OwedIs DEF Owed
<1>6. Coming(p)' \subseteq Coming(p)
  BY <1>1, <1>2, <1>3 DEF Coming, Heard, Stale
<1>7. CASE \E x \in Reqs : Of(x) = p /\ req[x].kind = K
  <2>1. PICK x \in Reqs : Of(x) = p /\ req[x].kind = K
    BY <1>7
  <2>2. /\ x # r /\ \A q \in Reqs : Of(q) = p /\ req[q].kind = K => q = x
    BY <1>1, <1>2, <2>1 DEF Apart
  <2>3. CASE req[x].st \in Live
    <3>1. Cardinality(Blind(p)') <= Cardinality(Blind(p)) + 2
      <4>1. Blind(p)' \subseteq (Blind(p) \cup {r}) \cup {x}
        BY <1>3, <2>2 DEF Blind, Live
      <4>2. IsFiniteSet(Blind(p) \cup {r}) /\ Cardinality(Blind(p) \cup {r}) <= Cardinality(Blind(p)) + 1
        BY <1>5, OneMore DEF CountOK
      <4>3. Cardinality(Blind(p)') <= Cardinality(Blind(p) \cup {r}) + 1
        BY <4>1, <4>2, OneMore
      <4>4. Cardinality(Blind(p) \cup {r}) \in Nat
        BY <4>2, FS_CardinalityType
      <4> QED
        BY <1>5, <4>2, <4>3, <4>4 DEF CountOK
    <3>2. Refused(p)' = Refused(p)
      BY <1>1, <1>3, <2>1, <2>2, <2>3 DEF Refused, Stale, Heard, Live, Back
    <3>3. Ahead(p)' <= Ahead(p)
      BY <1>4, <1>6, <3>2, AheadFalls
    <3>4. Debt(p)' <= Debt(p)
      <4>1. CASE w = "dl"
        <5>1. page'[p].up = page[p].up /\ (ChunkRefused(p) => ChunkRefused(p)')
          BY <1>1, <1>2, <1>3, <4>1 DEF ChunkRefused, Back
        <5> QED
          BY <5>1 DEF Debt
      <4>2. CASE w = "up"
        <5>1. page[p].up = "on" /\ ~ ChunkRefused(p)
          BY <1>1, <1>2, <2>1, <2>2, <2>3, <4>2 DEF Apart, ChunkRefused, Live, Back
        <5>2. Debt(p) = 1
          BY <5>1 DEF Debt
        <5> QED
          BY <1>5, <5>2
      <4> QED
        BY <4>1, <4>2
    <3> QED
      BY <1>5, <3>1, <3>3, <3>4 DEF CountOK
  <2>4. CASE req[x].st \notin Live
    <3>1. Cardinality(Blind(p)') <= Cardinality(Blind(p)) + 1
      <4>1. Blind(p)' \subseteq Blind(p) \cup {r}
        BY <1>3, <2>2, <2>4 DEF Blind
      <4> QED
        BY <1>5, <4>1, OneMore DEF CountOK
    <3>2. CASE w = "dl"
      <4>1. page'[p].up = page[p].up /\ (ChunkRefused(p) => ChunkRefused(p)')
        BY <1>1, <1>2, <1>3, <3>2 DEF ChunkRefused, Back
      <4>2. Debt(p)' <= Debt(p)
        BY <4>1 DEF Debt
      <4>3. Ahead(p)' <= Ahead(p) + 1
        <5>1. Refused(p) \subseteq Refused(p)' \cup {x}
          BY <1>1, <1>3, <2>2 DEF Refused, Stale, Heard
        <5>2. Cardinality(Refused(p)) <= Cardinality(Refused(p)') + 1
          BY <1>5, <5>1, OneMore DEF CountOK
        <5>3. CASE Stale(page[p])
          BY <1>4, <1>5, <5>2, <5>3 DEF Ahead, CountOK
        <5>4. CASE ~ Stale(page[p])
          <6>1. Cardinality(Coming(p)') <= Cardinality(Coming(p))
            BY <1>5, <1>6, FS_Subset DEF CountOK
          <6> QED
            BY <1>4, <1>5, <5>4, <6>1 DEF Ahead, CountOK
        <5> QED
          BY <5>3, <5>4
      <4> QED
        BY <1>5, <3>1, <4>2, <4>3 DEF CountOK
    <3>3. CASE w = "up"
      <4>1. Refused(p)' = Refused(p)
        BY <1>1, <1>2, <1>3, <2>1, <2>2, <3>3 DEF Refused, Stale, Heard
      <4>2. Ahead(p)' <= Ahead(p)
        BY <1>4, <1>6, <4>1, AheadFalls
      <4> QED
        BY <1>5, <3>1, <4>2 DEF CountOK
    <3> QED
      BY <3>2, <3>3
  <2> QED
    BY <2>3, <2>4
<1>8. CASE ~ \E x \in Reqs : Of(x) = p /\ req[x].kind = K
  <2>1. Refused(p)' = Refused(p) /\ Blind(p)' \subseteq Blind(p) \cup {r}
    BY <1>1, <1>3, <1>8 DEF Refused, Blind, Stale, Heard
  <2>2. Cardinality(Blind(p)') <= Cardinality(Blind(p)) + 1
    BY <1>5, <2>1, OneMore DEF CountOK
  <2>3. Ahead(p)' <= Ahead(p)
    BY <1>4, <1>6, <2>1, AheadFalls
  <2> QED
    BY <1>5, <2>2, <2>3 DEF CountOK
<1> QED
  BY <1>7, <1>8

LEMMA StopStep ==
  ASSUME IInv, NEW r \in Reqs, Of(r) \in Pages, NEW w \in {"dl", "up"}, NEW at \in {"paused", "no"}, Stop(r, w, at)
  PROVE  IInv'
<1> DEFINE p == Of(r)
           K == KindOf(w)
           x == Put(page[p], w, at)
           y == Carrying("unread", page[p])
<1>1. /\ UNCHANGED <<enabled, gen, rec, known, judged, acts>> /\ req[r].st = "none"
      /\ clicks' = [clicks EXCEPT ![p] = @ + 1] /\ page' = [page EXCEPT ![p] = x]
      /\ req' = [Aborted(p, w) EXCEPT ![r] = y]
  BY DEF Stop, Click, Free, ServerUnchanged
<1>2. /\ page[p] \in Page(gen) /\ gen \in Nat \ {0} /\ Apart(p) /\ Carried(p) /\ TypeOK /\ req[r] \in Request(gen)
  BY PageIs DEF TypeOK
<1>3. Owed(p)' <= Owed(p) + 2
  BY <1>1, StopOwes
<1>4. /\ x \in Page(gen) /\ (w = "dl" => x.up = page[p].up) /\ (w = "up" => x.dl = page[p].dl)
  BY <1>2 DEF Put, Page, Downs, Ups
<1>5. y \in Request(gen) /\ y.st = "sent" /\ y.kind = "unread"
  BY <1>2 DEF Carrying, NoReq, Request, Page, States, Kinds
<1>6. \A q \in Reqs : req'[q] = IF q = r THEN y
                                ELSE IF Of(q) = p /\ req[q].kind = K THEN [req[q] EXCEPT !.kind = "unread"] ELSE req[q]
  BY <1>1 DEF Aborted
<1>7. K \in {"download", "chunk"} /\ (K = "download" <=> w = "dl")
  BY DEF KindOf
<1> HIDE DEF x, y, K
<1>8. ASSUME NEW q \in Reqs, q # r, Of(q) = p, req[q].kind = K
      PROVE  /\ req'[q] \in Request(gen) /\ req'[q].kind = "unread" /\ req'[q].st = req[q].st
             /\ req'[q].pin = req[q].pin /\ req'[q].token = req[q].token
  <2>1. req'[q] = [req[q] EXCEPT !.kind = "unread"] /\ req[q] \in Request(gen)
    BY <1>2, <1>6, <1>8 DEF TypeOK
  <2> QED
    BY <2>1 DEF Request, Kinds
<1>9. req'[r] = y /\ \A q \in Reqs : q # r /\ ~(Of(q) = p /\ req[q].kind = K) => req'[q] = req[q]
  BY <1>6
<1>10. req' \in [Reqs -> Request(gen)]
  <2>1. \A q \in Reqs : req'[q] \in Request(gen)
    BY <1>2, <1>5, <1>8, <1>9 DEF TypeOK
  <2>2. req' = [q \in Reqs |-> req'[q]]
    BY <1>1, <1>2 DEF Aborted, TypeOK
  <2> QED
    BY <2>1, <2>2
<1>11. page'[p] = x
  BY <1>1, <1>2 DEF TypeOK
<1>12. Apart(p)'
  <2>1. \A q \in Reqs : Of(q) = p => req'[q].kind # K
    BY <1>5, <1>7, <1>8, <1>9
  <2>2. \A q \in Reqs : Of(q) = p /\ req'[q].kind \in {"download", "chunk"} => req'[q] = req[q]
    BY <1>5, <1>8, <1>9
  <2> QED
    BY <1>2, <1>4, <1>7, <1>11, <2>1, <2>2 DEF Apart
<1>13. \A q \in Reqs : Of(q) = p =>
         /\ req'[q].st = "none" <=> req'[q].kind = "none"
         /\ \/ req'[q].st = req[q].st /\ req'[q].pin = req[q].pin /\ req'[q].token = req[q].token
            \/ req'[q].st \in {"none", "sent"}
  BY <1>2, <1>5, <1>7, <1>8, <1>9 DEF Carried
<1>14. \A q \in Reqs : Of(q) # p => req'[q] = req[q]
  BY <1>9
<1>15. /\ 1 \in {0, 1} /\ clicks' = (IF 1 = 1 THEN [clicks EXCEPT ![p] = @ + 1] ELSE clicks) /\ Owed(p)' <= Owed(p) + 2 * 1
  BY <1>1, <1>3
<1> QED
  BY <1>1, <1>4, <1>10, <1>12, <1>13, <1>14, <1>15, PageStep

LEMMA ResumeStep ==
  ASSUME IInv, NEW r \in Reqs, NEW q \in Reqs, NEW w \in {"dl", "up"}, Resume(r, q, w)
  PROVE  IInv'
<1> DEFINE p == Of(r)
           K == KindOf(w)
           x == Put(page[p], w, "on")
           y == Carrying("unread", page[p])
           z == Carrying(K, page[p])
<1>1. /\ p \in Pages /\ Of(q) = p /\ At(page[p], w) = "paused" /\ UNCHANGED <<enabled, gen, rec, known, judged, acts>>
      /\ req[r].st = "none" /\ req[q].st = "none" /\ q # r
      /\ clicks' = [clicks EXCEPT ![p] = @ + 1] /\ page' = [page EXCEPT ![p] = x]
      /\ req' = [req EXCEPT ![r] = y, ![q] = z]
  BY DEF Resume, Click, Free, ServerUnchanged
<1>2. /\ page[p] \in Page(gen) /\ gen \in Nat \ {0} /\ Apart(p) /\ Carried(p) /\ TypeOK
  BY <1>1, PageIs
<1>3. K \in {"download", "chunk"} /\ (K = "download" <=> w = "dl")
  BY DEF KindOf
<1>4. /\ x \in Page(gen) /\ x.pin = page[p].pin /\ x.token = page[p].token
      /\ (w = "dl" => x.dl = "on" /\ page[p].dl = "paused" /\ x.up = page[p].up)
      /\ (w = "up" => x.up = "on" /\ page[p].up = "paused" /\ x.dl = page[p].dl)
  BY <1>1, <1>2 DEF Put, At, Page, Downs, Ups
<1>5. /\ y \in Request(gen) /\ y.st = "sent" /\ y.kind = "unread"
      /\ z \in Request(gen) /\ z.st = "sent" /\ z.kind = K /\ z.pin = page[p].pin /\ z.token = page[p].token
  BY <1>2, <1>3 DEF Carrying, NoReq, Request, Page, States, Kinds
<1> HIDE DEF x, y, z, K
<1>6. /\ req' \in [Reqs -> Request(gen)] /\ req'[r] = y /\ req'[q] = z
      /\ \A s \in Reqs : s # r /\ s # q => req'[s] = req[s]
  BY <1>1, <1>2, <1>5 DEF TypeOK
<1>7. page'[p] = x /\ req[r].kind = "none" /\ req[q].kind = "none"
  BY <1>1, <1>2 DEF TypeOK, Carried
<1>8. (Stale(page[p])' <=> Stale(page[p])) /\ (Stale(req[q])' <=> Stale(page[p]))
  BY <1>1, <1>4, <1>5, <1>6, <1>7 DEF Stale
<1>9. Refused(p)' = Refused(p) /\ Blind(p)' \subseteq Blind(p) \cup {r}
  BY <1>1, <1>3, <1>5, <1>6, <1>7 DEF Refused, Blind, Stale, Heard, Back
<1>10. ASSUME ~ Stale(page[p]) PROVE Coming(p)' \subseteq Coming(p)
  BY <1>1, <1>5, <1>6, <1>8, <1>10 DEF Coming, Heard, Stale
<1>11. Owed(p)' <= Owed(p) + 2
  <2>1. Ahead(p)' <= Ahead(p)
    BY <1>1, <1>8, <1>9, <1>10, AheadFalls
  <2>2. Cardinality(Blind(p)') <= Cardinality(Blind(p)) + 1
    BY <1>1, <1>9, OwedIs, OneMore DEF CountOK
  <2>3. /\ Owed(p) = Ahead(p) + Cardinality(Blind(p)) + Debt(p)
        /\ Owed(p)' = Ahead(p)' + Cardinality(Blind(p)') + Debt(p)'
        /\ Overlap[p] \in Nat /\ Ahead(p) \in 0 .. Overlap[p] /\ Ahead(p)' \in 0 .. Overlap[p]
        /\ Cardinality(Blind(p)) \in Nat /\ Cardinality(Blind(p)') \in Nat
        /\ Debt(p) \in {0, 1} /\ Debt(p)' \in {0, 1}
    BY <1>1, OwedIs DEF Owed, CountOK
  <2> QED
    BY <2>1, <2>2, <2>3
<1>12. Apart(p)'
  <2>1. \A s \in Reqs : Of(s) = p => req[s].kind # K
    BY <1>2, <1>3, <1>4 DEF Apart
  <2> QED
    BY <1>1, <1>2, <1>3, <1>4, <1>5, <1>6, <1>7, <2>1 DEF Apart
<1>13. \A s \in Reqs : Of(s) = p =>
         /\ req'[s].st = "none" <=> req'[s].kind = "none"
         /\ \/ req'[s].st = req[s].st /\ req'[s].pin = req[s].pin /\ req'[s].token = req[s].token
            \/ req'[s].st \in {"none", "sent"}
  BY <1>2, <1>3, <1>5, <1>6 DEF Carried
<1>14. \A s \in Reqs : Of(s) # p => req'[s] = req[s]
  BY <1>1, <1>6
<1>15. /\ 1 \in {0, 1} /\ clicks' = (IF 1 = 1 THEN [clicks EXCEPT ![p] = @ + 1] ELSE clicks) /\ Owed(p)' <= Owed(p) + 2 * 1
  BY <1>1, <1>11
<1> QED
  BY <1>1, <1>4, <1>6, <1>12, <1>13, <1>14, <1>15, PageStep

LEMMA EndingIs ==
  ASSUME NEW r \in Reqs, NEW pg \in Page(gen)
  PROVE  /\ Ending(pg, r) \in Page(gen) /\ Ending(pg, r).pin = pg.pin /\ Ending(pg, r).token = pg.token
         /\ Ending(pg, r).dl = IF req[r].kind = "download" THEN "no" ELSE pg.dl
         /\ req[r].kind = "chunk" /\ req[r].st # "200" => Ending(pg, r).up = "no"
         /\ ~(req[r].kind = "chunk" /\ req[r].st # "200") /\ pg.up # "asks" => Ending(pg, r).up = pg.up
         /\ Ending(pg, r).up # "no" => pg.up # "no"
<1>1. CASE req[r].kind = "download"
  <2>1. Ending(pg, r) = [pg EXCEPT !.dl = "no"]
    BY <1>1 DEF Ending
  <2> QED
    BY <1>1, <2>1 DEF Page, Downs
<1>2. CASE req[r].kind = "chunk" /\ req[r].st # "200"
  <2>1. Ending(pg, r) = [pg EXCEPT !.up = "no"]
    BY <1>2 DEF Ending
  <2> QED
    BY <1>2, <2>1 DEF Page, Ups
<1>3. CASE req[r].kind = "ask" /\ pg.up = "asks"
  <2>1. PICK u \in {"on", "no"} : Ending(pg, r) = [pg EXCEPT !.up = u]
    BY <1>3 DEF Ending
  <2> QED
    BY <1>3, <2>1 DEF Page, Ups
<1>4. CASE ~ (req[r].kind = "download" \/ (req[r].kind = "chunk" /\ req[r].st # "200") \/ (req[r].kind = "ask" /\ pg.up = "asks"))
  <2>1. Ending(pg, r) = pg
    BY <1>4 DEF Ending
  <2> QED
    BY <1>4, <2>1
<1> QED
  BY <1>1, <1>2, <1>3, <1>4

\* An answer that refuses what a page stores has it cleared; none stores another code.
LEMMA OnAnswerIs ==
  ASSUME gen \in Nat \ {0}, NEW r \in Reqs, req[r] \in Request(gen), req[r].kind # "none", NEW pg \in Page(gen)
  PROVE  /\ OnAnswer(pg, r) \in Page(gen) /\ (Stale(OnAnswer(pg, r)) => Stale(pg))
         /\ Stale(req[r]) /\ req[r].st \in {"401", "429"} /\ req[r].kind \in Heard => ~ Stale(OnAnswer(pg, r))
         /\ OnAnswer(pg, r).dl = Ending(pg, r).dl /\ OnAnswer(pg, r).up = Ending(pg, r).up
<1> DEFINE then == Ending(pg, r)
           x == OnAnswer(pg, r)
<1>0. 0 \in 0 .. gen
  OBVIOUS
<1>1. then \in Page(gen) /\ then.pin = pg.pin /\ then.token = pg.token
  BY EndingIs
<1>2. x = CASE req[r].kind \in {"chunk", "unread"} -> then
            [] req[r].kind \in Heard /\ req[r].st = "429" -> ShowLockout(then)
            [] req[r].kind = "list" /\ req[r].st = "401" -> AskPIN(pg, r)
            [] req[r].kind \in {"download", "ask"} /\ req[r].st = "401" -> Shake(then)
            [] req[r].kind = "list" /\ req[r].st = "200" -> ShowFiles(pg)
            [] OTHER -> then
  BY DEF OnAnswer, Heard
<1>3. req[r].kind = "list" => then = pg
  BY DEF Ending
<1>4. req[r].kind \in Heard \cup {"chunk", "unread"}
  BY DEF Request, Kinds, Heard
<1> HIDE DEF then, x
<1>5. ShowLockout(then) \in Page(gen) /\ ShowLockout(then).pin = 0
      /\ ShowLockout(then).dl = then.dl /\ ShowLockout(then).up = then.up
  BY <1>0, <1>1 DEF ShowLockout, NewPage, Page, Cards, Downs, Ups
<1>6. Shake(then) \in Page(gen) /\ Shake(then).pin = 0 /\ Shake(then).dl = then.dl /\ Shake(then).up = then.up
  BY <1>0, <1>1 DEF Shake, Page
<1>7. /\ ShowFiles(pg) \in Page(gen) /\ ShowFiles(pg).pin = pg.pin /\ ShowFiles(pg).token = pg.token
      /\ ShowFiles(pg).dl = pg.dl /\ ShowFiles(pg).up = pg.up
  BY DEF ShowFiles, Page, Cards
<1>8. /\ AskPIN(pg, r) \in Page(gen) /\ AskPIN(pg, r).dl = pg.dl /\ AskPIN(pg, r).up = pg.up
      /\ AskPIN(pg, r).pin = 0 \/ (AskPIN(pg, r).pin = pg.pin /\ AskPIN(pg, r).token = pg.token)
      /\ req[r].pin # 0 => AskPIN(pg, r).pin = 0
  <2> DEFINE asks == [pg EXCEPT !.auth = FALSE, !.poll = FALSE, !.cards = {"pin"}]
  <2>1. asks \in Page(gen) /\ asks.pin = pg.pin /\ asks.token = pg.token /\ asks.dl = pg.dl /\ asks.up = pg.up
    BY DEF Page, Cards
  <2>2. AskPIN(pg, r) = IF req[r].pin # 0 \/ req[r].token # 0 THEN Shake(asks) ELSE asks
    BY DEF AskPIN
  <2> HIDE DEF asks
  <2>3. Shake(asks) \in Page(gen) /\ Shake(asks).pin = 0 /\ Shake(asks).dl = asks.dl /\ Shake(asks).up = asks.up
    BY <1>0, <2>1 DEF Shake, Page
  <2> QED
    BY <2>1, <2>2, <2>3
<1>9. CASE req[r].kind \in {"chunk", "unread"}
  BY <1>1, <1>2, <1>9 DEF Stale, Heard, x, then
<1>10. CASE req[r].kind \in Heard /\ req[r].st = "429"
  <2>1. x = ShowLockout(then)
    BY <1>2, <1>10 DEF Heard
  <2> QED
    BY <1>5, <2>1 DEF Stale, x, then
<1>11. CASE req[r].kind = "list" /\ req[r].st = "401"
  <2>1. x = AskPIN(pg, r)
    BY <1>2, <1>11 DEF Heard
  <2> QED
    BY <1>3, <1>8, <1>11, <2>1 DEF Stale, x, then
<1>12. CASE req[r].kind \in {"download", "ask"} /\ req[r].st = "401"
  <2>1. x = Shake(then)
    BY <1>2, <1>12 DEF Heard
  <2> QED
    BY <1>6, <2>1 DEF Stale, x, then
<1>13. CASE req[r].kind \in Heard /\ req[r].st \notin {"401", "429"}
  <2>1. x = then \/ (x = ShowFiles(pg) /\ req[r].kind = "list")
    BY <1>2, <1>13 DEF Heard
  <2> QED
    BY <1>1, <1>3, <1>7, <1>13, <2>1 DEF Stale, x, then
<1> QED
  BY <1>4, <1>9, <1>10, <1>11, <1>12, <1>13 DEF Heard

LEMMA AnswerStep ==
  ASSUME IInv, NEW r \in Reqs, Answer(r)
  PROVE  IInv'
<1> DEFINE p == Of(r)
           x == OnAnswer(page[p], r)
<1>1. /\ TypeOK /\ req[r] \in Request(gen) /\ req[r].st \in {"200", "401", "403", "429"} /\ p \in Pages
  BY RequestIs DEF Answer, Answered
<1>2. req' = [req EXCEPT ![r] = NoReq] /\ UNCHANGED <<enabled, gen, rec, known, judged, acts>> /\ clicks' = clicks
  BY DEF Answer, ServerUnchanged
<1>3. page' = [page EXCEPT ![p] = x]
  BY <1>1 DEF Answer
<1>4. page[p] \in Page(gen) /\ gen \in Nat \ {0} /\ Apart(p) /\ Carried(p)
  BY <1>1, PageIs
<1>5. req[r].kind # "none"
  BY <1>1, <1>4 DEF Carried
<1>6. /\ x \in Page(gen) /\ (Stale(x) => Stale(page[p]))
      /\ Stale(req[r]) /\ req[r].st \in {"401", "429"} /\ req[r].kind \in Heard => ~ Stale(x)
      /\ x.dl = IF req[r].kind = "download" THEN "no" ELSE page[p].dl
      /\ req[r].kind = "chunk" /\ req[r].st # "200" => x.up = "no"
      /\ ~(req[r].kind = "chunk" /\ req[r].st # "200") /\ page[p].up # "asks" => x.up = page[p].up
      /\ x.up # "no" => page[p].up # "no"
  BY <1>1, <1>4, <1>5, EndingIs, OnAnswerIs
<1> HIDE DEF x
<1>7. NoReq \in Request(gen) /\ NoReq.st = "none" /\ NoReq.kind = "none"
  BY <1>4 DEF NoReq, Request, States, Kinds
<1>8. req' \in [Reqs -> Request(gen)] /\ req'[r] = NoReq /\ \A q \in Reqs : q # r => req'[q] = req[q]
  BY <1>1, <1>2, <1>7 DEF TypeOK
<1>9. page'[p] = x
  BY <1>1, <1>3 DEF TypeOK
<1>10. (Stale(page[p])' <=> Stale(x)) /\ Coming(p)' \subseteq Coming(p) /\ Blind(p)' \subseteq Blind(p)
  BY <1>2, <1>7, <1>8, <1>9 DEF Coming, Blind, Heard, Stale, Live
<1>11. ASSUME Stale(x) PROVE Stale(page[p]) /\ Refused(p) \subseteq Refused(p)'
  <2>1. r \notin Refused(p)
    BY <1>1, <1>6, <1>11 DEF Refused, Back
  <2> QED
    BY <1>2, <1>6, <1>8, <1>11, <2>1 DEF Refused, Stale
<1>12. page'[p].up # "no" /\ ~ ChunkRefused(p)' => page[p].up # "no" /\ ~ ChunkRefused(p)
  <2> SUFFICES ASSUME page'[p].up # "no", ~ ChunkRefused(p)', ChunkRefused(p) PROVE FALSE
    BY <1>6, <1>9
  <2>1. PICK q \in Reqs : Of(q) = p /\ req[q].kind = "chunk" /\ req[q].st \in Back
    BY DEF ChunkRefused
  <2>2. q = r
    BY <1>8, <2>1 DEF ChunkRefused
  <2> QED
    BY <1>6, <1>9, <2>1, <2>2 DEF Back
<1>13. Owed(p)' <= Owed(p)
  BY <1>1, <1>10, <1>11, <1>12, OwedFalls
<1>14. Apart(p)'
  <2> SUFFICES ASSUME NEW q \in Reqs, Of(q) = p
               PROVE  /\ req'[q].kind = "download" => page'[p].dl = "on"
                      /\ req'[q].kind = "chunk" => page'[p].up = "on"
                      /\ \A s \in Reqs : Of(s) = p /\ req'[s].kind = req'[q].kind /\ req'[q].kind \in {"download", "chunk"} => s = q
    BY DEF Apart
  <2>1. CASE q = r
    BY <1>7, <1>8, <2>1
  <2>2. CASE q # r
    <3>1. req'[q] = req[q]
      BY <1>8, <2>2
    <3>2. /\ req[q].kind = "download" => page[p].dl = "on" /\ req[r].kind # "download"
          /\ req[q].kind = "chunk" => page[p].up = "on" /\ req[r].kind # "chunk"
      BY <1>4, <2>2 DEF Apart
    <3>3. \A s \in Reqs : Of(s) = p /\ req'[s].kind = req'[q].kind /\ req'[q].kind \in {"download", "chunk"} => s = q
      BY <1>4, <1>7, <1>8, <3>1 DEF Apart
    <3> QED
      BY <1>6, <1>9, <3>1, <3>2, <3>3
  <2> QED
    BY <2>1, <2>2
<1>15. \A q \in Reqs : Of(q) = p =>
         /\ req'[q].st = "none" <=> req'[q].kind = "none"
         /\ \/ req'[q].st = req[q].st /\ req'[q].pin = req[q].pin /\ req'[q].token = req[q].token
            \/ req'[q].st \in {"none", "sent"}
  BY <1>4, <1>7, <1>8 DEF Carried
<1>16. /\ 0 \in {0, 1} /\ clicks' = (IF 0 = 1 THEN [clicks EXCEPT ![p] = @ + 1] ELSE clicks) /\ Owed(p)' <= Owed(p) + 2 * 0
  BY <1>1, <1>2, <1>13, OwedIs
<1>17. \A q \in Reqs : Of(q) # p => req'[q] = req[q]
  BY <1>8
<1> QED
  BY <1>1, <1>2, <1>3, <1>6, <1>8, <1>14, <1>15, <1>16, <1>17, PageStep

-----------------------------------------------------------------------------
(* The invariant.                                                           *)

LEMMA InitIInv ==
  ASSUME Init
  PROVE  IInv
<1>1. /\ enabled = TRUE /\ gen = 1 /\ acts = 0 /\ judged = [a \in Guessers |-> 0] /\ known = [a \in Guessers |-> 0]
      /\ clicks = [p \in Pages |-> 0]
  BY DEF Init
<1>2. /\ NoRecord \in Record /\ NoReq \in Request(1) /\ NoReq.st = "none" /\ NoReq.kind = "none"
      /\ NoRecord.fails = 0 /\ NoRecord.old = FALSE
  BY DEF NoRecord, NoReq, Record, Request, States, Kinds
<1> DEFINE x == [NewPage(0, 0) EXCEPT !.cards = {"closed"}]
<1>3. x \in Page(1) /\ x.pin = 0 /\ x.up = "no"
  <2>1. 0 \in 0 .. 1
    OBVIOUS
  <2>2. NewPage(0, 0) \in Page(1) /\ NewPage(0, 0).pin = 0 /\ NewPage(0, 0).up = "no"
    BY <2>1 DEF NewPage, Page, Cards, Downs, Ups
  <2> QED
    BY <2>2 DEF Page, Cards
<1>4. rec = [a \in Actors |-> NoRecord] /\ req = [r \in Reqs |-> NoReq] /\ page = [p \in Pages |-> x]
  BY DEF Init
<1> HIDE DEF x
<1>5. TypeOK
  <2>1. rec \in [Actors -> Record] /\ req \in [Reqs -> Request(1)] /\ page \in [Pages -> Page(1)]
    BY <1>2, <1>3, <1>4
  <2>2. known \in [Guessers -> 0 .. 1] /\ judged \in [Guessers -> Nat] /\ clicks \in [Pages -> Nat]
    BY <1>1
  <2> QED
    BY <1>1, <2>1, <2>2 DEF TypeOK
<1>6. \A r \in Reqs : req[r].st = "none" /\ req[r].kind = "none"
  BY <1>2, <1>4
<1>7. ASSUME NEW a \in Guessers PROVE GuesserOK(a)
  <2>1. a \in Actors /\ Cardinality(InFlight(a)) \in Nat /\ judged[a] = 0
    BY <1>1, Counts DEF Actors, CountOK
  <2>2. Kept(rec[a]) = 0
    BY <1>2, <1>4, <2>1, ThresholdsAssumption DEF Kept
  <2>3. OnlyGuesses(a)
    BY <1>6 DEF OnlyGuesses
  <2> QED
    BY <2>1, <2>2, <2>3 DEF GuesserOK, GuessOK
<1>8. ASSUME NEW p \in Pages PROVE PageOK(p)
  <2>1. p \in Actors /\ Overlap[p] \in Nat
    BY OwedIs
  <2>2. Coming(p) = {} /\ Blind(p) = {} /\ ~ Stale(page[p]) /\ page[p].up = "no"
    BY <1>3, <1>4, <1>6 DEF Coming, Blind, Stale, Live
  <2>3. Ahead(p) = 0 /\ Cardinality(Blind(p)) = 0 /\ Debt(p) = 0
    BY <2>2, FS_EmptySet DEF Ahead, Debt
  <2>4. rec[p].fails = 0 /\ Overlap[p] * (gen - 1) + 2 * clicks[p] = 0
    BY <1>1, <1>2, <1>4, <2>1
  <2>5. UserOK(p)
    BY <2>3, <2>4 DEF UserOK, Owed
  <2>6. Apart(p) /\ Carried(p)
    BY <1>6 DEF Apart, Carried
  <2> QED
    BY <2>5, <2>6 DEF PageOK
<1> QED
  BY <1>5, <1>7, <1>8 DEF IInv

LEMMA NextIInv ==
  ASSUME IInv, [Next]_vars
  PROVE  IInv'
<1>1. CASE UNCHANGED vars
  <2>1. TypeOK'
    BY <1>1 DEF IInv, TypeOK, vars
  <2> QED
    BY <1>1, <2>1, NothingCounted DEF vars
<1>2. ASSUME NEW r \in Reqs, Serve(r) PROVE IInv'
  BY <1>2, ArriveStep, JudgeStep, RecordAuthSuccessStep, RecordAuthFailureStep, RotateStep, AnswerStep DEF Serve
<1>3. ASSUME NEW r \in Reqs, Guess(r) PROVE IInv'
  BY <1>3, GuessStep
<1>4. ASSUME NEW r \in Reqs, Open(r) \/ Poll(r) \/ SubmitPIN(r) \/ Reloads(r) PROVE IInv'
  BY <1>4, OpenStep, PollStep, SubmitPINStep, ReloadsStep
<1>5. ASSUME NEW r \in Reqs, Download(r) \/ UploadFiles(r) \/ UploadNextChunk(r) PROVE IInv'
  BY <1>5, DownloadStep, UploadFilesStep, UploadNextChunkStep
<1>6. ASSUME NEW r \in Reqs, NEW w \in {"dl", "up"}, Pause(r, w) \/ Cancel(r, w) PROVE IInv'
  BY <1>6, StopStep DEF Pause, Cancel
<1>7. ASSUME NEW r \in Reqs, NEW q \in Reqs, NEW w \in {"dl", "up"}, Resume(r, q, w) PROVE IInv'
  BY <1>7, ResumeStep
<1>8. ASSUME NEW p \in Pages, LockoutEnds(p) \/ UploadEnds(p) PROVE IInv'
  BY <1>8, LockoutEndsStep, UploadEndsStep
<1>9. ASSUME NEW a \in Guessers, PortalTells(a) \/ QuarterHour(a) PROVE IInv'
  BY <1>9, PortalTellsStep, QuarterHourStep
<1>10. ASSUME NEW a \in Actors, LockExpires(a) PROVE IInv'
  BY <1>10, LockExpiresStep
<1>11. CASE HostRegenerates \/ HostToggles
  BY <1>11, HostRegeneratesStep, HostTogglesStep
<1> QED
  BY <1>1, <1>2, <1>3, <1>4, <1>5, <1>6, <1>7, <1>8, <1>9, <1>10, <1>11 DEF Next

(* RecordAuthFailure, regeneratePIN and the page: the counts of the         *)
(* failures, with what is under way and what still may be refused, agree    *)
(* with what was judged, with the codes drawn and with the user's clicks.   *)
THEOREM IInvHolds == Spec => []IInv
<1>1. Init => IInv
  BY InitIInv
<1>2. IInv /\ [Next]_vars => IInv'
  BY NextIInv
<1> QED
  BY <1>1, <1>2, PTL DEF Spec

(* Requests, pages and records are what the handlers and the script make    *)
(* of them, and no code is used before the share drew it.                   *)
THEOREM TypeCorrect == Spec => []TypeOK
<1>1. IInv => TypeOK
  BY DEF IInv
<1> QED
  BY <1>1, IInvHolds, PTL

(* checkAuth and RecordAuthFailure: however the requests of an address      *)
(* interleave with the tarpit and the rotations, verifyWebShareAccess       *)
(* judges no more wrong PINs of it against the same codes than those that   *)
(* rotate them and what it has under way beside them.                       *)
THEOREM ApiGuessesHold == Spec => []ApiGuessesBounded
<1>1. ASSUME IInv PROVE ApiGuessesBounded
  <2> SUFFICES ASSUME NEW a \in Guessers PROVE judged[a] <= PanicAt + Overlap[a] - 1
    BY DEF ApiGuessesBounded
  <2>1. a \in Actors /\ rec[a] \in Record /\ judged[a] \in Nat
    BY <1>1 DEF IInv, TypeOK, Actors
  <2>2. Overlap[a] \in Nat /\ Cardinality(InFlight(a)) \in Nat /\ Cardinality(InFlight(a)) <= Overlap[a]
    BY <2>1, SlotsFinite, Counts DEF CountOK
  <2>3. Kept(rec[a]) \in Nat /\ Kept(rec[a]) <= PanicAt - 1 /\ PanicAt \in Nat
    BY <2>1, ThresholdsAssumption DEF Kept, Record
  <2>4. judged[a] <= Kept(rec[a]) + Cardinality(InFlight(a))
    BY <1>1 DEF IInv, GuesserOK, GuessOK
  <2> QED
    BY <2>1, <2>2, <2>3, <2>4
<1> QED
  BY <1>1, IInvHolds, PTL

(* triggerPinShake, clearCredentials, startPolling and the clicks of the    *)
(* transfer cards: the failures counted against a page are at most, for     *)
(* each rotation of the codes, what it may have had under way, and two for  *)
(* each click; nothing it sends by itself locks its user out.               *)
THEOREM UserHolds == Spec => []UserFailsByRotation
<1>1. ASSUME IInv PROVE UserFailsByRotation
  <2> SUFFICES ASSUME NEW p \in Pages PROVE rec[p].fails <= Overlap[p] * (gen - 1) + 2 * clicks[p]
    BY DEF UserFailsByRotation
  <2> DEFINE bound == Overlap[p] * (gen - 1) + 2 * clicks[p]
  <2>1. rec[p].fails \in Nat /\ gen \in Nat /\ clicks[p] \in Nat
    BY <1>1 DEF IInv, TypeOK, Actors, Record
  <2>2. Overlap[p] \in Nat /\ Owed(p) \in Nat
    BY OwedIs
  <2>3. bound \in Int
    BY <2>1, <2>2
  <2>4. rec[p].fails + Owed(p) <= bound
    BY <1>1 DEF IInv, PageOK, UserOK
  <2> HIDE DEF bound
  <2>5. rec[p].fails <= bound
    BY <2>1, <2>2, <2>3, <2>4
  <2> QED
    BY <2>5 DEF bound
<1> QED
  BY <1>1, IInvHolds, PTL

-----------------------------------------------------------------------------
(* Mutual trust: its types.                                                *)

TagKeys == [n : Nat, by : Nat]
Entries == [in : BOOLEAN, key : TagKeys]
TrustTalks == [peer : Devices \cup {0}, offered : Nat, asked : BOOLEAN, accepted : BOOLEAN, key : TagKeys]
TrustTypes == {"offer", "accept", "decline", "commit"}
TrustMsgs == [type : TrustTypes, key : TagKeys]
Hands == [at : {"idle", "read", "reply"}, type : TrustTypes \cup {"none"}, key : TagKeys, on : Nat]
TrustSessions ==
  [from : Devices, to : Devices, code : BOOLEAN, cut : BOOLEAN,
   end : [Devices -> {"asking", "no", "touch", "touched", "on", "off"}], snap : [Devices -> Entries]]

TrustTypeOK ==
  /\ list \in [Devices -> [Devices -> Entries]]
  /\ active \in [Devices -> 0 .. Len(sess)]
  /\ talk \in [Devices -> TrustTalks]
  /\ sess \in Seq(TrustSessions) /\ Len(sess) <= MaxSessions
  /\ wire \in [1 .. MaxSessions -> [Devices -> Seq(TrustMsgs)]]
  /\ hand \in [1 .. MaxSessions -> [Devices -> Hands]]
  /\ offers \in 0 .. MaxOffers
  /\ said \in [Devices -> SUBSET Devices]
  /\ ever \in [Devices -> SUBSET Devices]
  /\ owed \subseteq TagKeys
  /\ spoilt \subseteq Devices \X Devices
  /\ astray \subseteq Devices \X Devices \X Devices
  /\ count \in [forgets : 0 .. Forgets, faults : 0 .. MaxFaults]

-----------------------------------------------------------------------------
(* Its inductive invariant.                                                *)

Sides(s) == {sess[s].from, sess[s].to}

\* A yes: what is sent only by a device whose user agrees.
Yes(m) == m.type \in {"accept", "commit"}

\* The user of q once agreed, or d's entry of q was written on a third one's answer.
Agreed(d, q) == d \in ever[q] \/ \E r \in Devices \ {q} : <<d, q, r>> \in astray

TwoSides == \A s \in Sessions : sess[s].from # sess[s].to

\* The active session is one of the device's own, and its talk is with the other side.
TalkOfActive ==
  \A d \in Devices : active[d] # 0 => /\ d \in Sides(active[d])
                                      /\ talk[d].peer = Other(active[d], d)

\* Nothing is written by, or on, a session that was not asked for.
Unused ==
  \A s \in 1 .. MaxSessions \ Sessions : \A d \in Devices : wire[s][d] = <<>> /\ hand[s][d] = Idle

\* In a session, whoever offered or said yes said so of the other side, and still does.
StandsFor(d) == talk[d].offered # 0 \/ talk[d].accepted
SaysSo == \A d \in Devices : active[d] # 0 /\ StandsFor(d) => talk[d].peer \in said[d]

SaidOnce == \A d \in Devices : said[d] \subseteq ever[d]

SnapsAgreed ==
  \A s \in Sessions : \A d \in Sides(s) : sess[s].snap[d].in => Agreed(d, Other(s, d))

WiresAgreed ==
  \A s \in Sessions : \A d \in Sides(s) : \A i \in 1 .. Len(wire[s][d]) :
    Yes(wire[s][d][i]) => d \in ever[Other(s, d)]

HandsAgreed ==
  \A s \in Sessions : \A d \in Sides(s) :
    /\ hand[s][d].at = "read" /\ Yes(hand[s][d]) => d \in ever[Other(s, d)]
    /\ hand[s][d].at = "reply" => /\ Yes(hand[s][d])
                                  /\ hand[s][d].on \in Sessions /\ d \in Sides(hand[s][d].on)
                                  /\ Other(hand[s][d].on, d) \in ever[d]

TrustIInv ==
  /\ TrustTypeOK /\ TwoSides /\ TalkOfActive /\ Unused
  /\ SaysSo /\ SaidOnce /\ SnapsAgreed /\ WiresAgreed /\ HandsAgreed /\ ListIsAgreed

USE DevicesAssumption, CodesAssumption, BoundsAssumption

-----------------------------------------------------------------------------
(* What a step leaves alone.                                               *)

SameSides ==
  /\ Len(sess') = Len(sess)
  /\ \A s \in Sessions : sess'[s].from = sess[s].from /\ sess'[s].to = sess[s].to

\* Nobody's yes is forgotten by ever and astray.
Grows == astray \subseteq astray' /\ \A d \in Devices : ever[d] \subseteq ever'[d]

\* A session's sides are two devices, each the other's other.
LEMMA SidesFacts ==
  ASSUME TrustTypeOK, TwoSides, NEW s \in Sessions
  PROVE  /\ s \in 1 .. MaxSessions
         /\ sess[s] \in TrustSessions
         /\ \A d \in Sides(s) : /\ d \in Devices /\ Other(s, d) \in Sides(s) /\ Other(s, d) \in Devices
                                /\ Other(s, d) # d /\ Other(s, Other(s, d)) = d
                                /\ Sides(s) = {d, Other(s, d)}
<1>1. Len(sess) \in Nat /\ MaxSessions \in Nat BY LenProperties DEF TrustTypeOK
<1>2. s \in 1 .. MaxSessions BY <1>1 DEF Sessions, TrustTypeOK
<1>3. sess[s] \in TrustSessions BY ElementOfSeq DEF Sessions, TrustTypeOK
<1>4. sess[s].from \in Devices /\ sess[s].to \in Devices /\ sess[s].from # sess[s].to
  BY <1>3 DEF TrustSessions, TwoSides
<1> QED BY <1>2, <1>3, <1>4 DEF Sides, Other

LEMMA SidesKept ==
  ASSUME SameSides, NEW s \in Sessions, NEW d \in Devices
  PROVE  Sides(s)' = Sides(s) /\ Other(s, d)' = Other(s, d)
BY DEF SameSides, Sessions, Sides, Other

LEMMA SessionsKept ==
  ASSUME SameSides
  PROVE  Sessions' = Sessions
BY DEF SameSides, Sessions

LEMMA TwoSidesKept ==
  ASSUME TwoSides, SameSides
  PROVE  TwoSides'
BY SessionsKept DEF TwoSides, SameSides

LEMMA TalkKept ==
  ASSUME TrustTypeOK, TwoSides, TalkOfActive, SameSides,
         \A d \in Devices : active'[d] = 0 \/ (active'[d] = active[d] /\ talk'[d].peer = talk[d].peer)
  PROVE  TalkOfActive'
<1> SUFFICES ASSUME NEW d \in Devices, active'[d] # 0
             PROVE  d \in Sides(active[d])' /\ talk'[d].peer = Other(active[d], d)'
  BY DEF TalkOfActive
<1>1. active'[d] = active[d] /\ talk'[d].peer = talk[d].peer OBVIOUS
<1>2. PICK s \in Sessions : s = active[d]
  <2>1. active[d] \in 0 .. Len(sess) /\ Len(sess) \in Nat BY LenProperties DEF TrustTypeOK
  <2> QED BY <1>1, <2>1 DEF Sessions
<1>3. d \in Sides(s) /\ talk[d].peer = Other(s, d) BY <1>1, <1>2 DEF TalkOfActive
<1>4. Sides(s)' = Sides(s) /\ Other(s, d)' = Other(s, d) BY SidesKept
<1>5. Sides(active[d])' = Sides(s)' /\ Other(active[d], d)' = Other(s, d)' BY <1>1, <1>2 DEF Sides, Other
<1> QED BY <1>1, <1>3, <1>4, <1>5

LEMMA UnusedKept ==
  ASSUME Unused, SameSides,
         \A s \in 1 .. MaxSessions \ Sessions : wire'[s] = wire[s] /\ hand'[s] = hand[s]
  PROVE  Unused'
BY SessionsKept DEF Unused

LEMMA SaysSoKept ==
  ASSUME SaysSo,
         \A d \in Devices :
           active'[d] # 0 /\ (talk'[d].offered # 0 \/ talk'[d].accepted) =>
             \/ talk'[d].peer \in said'[d]
             \/ active[d] # 0 /\ StandsFor(d) /\ talk'[d].peer = talk[d].peer /\ said[d] \subseteq said'[d]
  PROVE  SaysSo'
BY DEF SaysSo, StandsFor

LEMMA AgreedGrows ==
  ASSUME Grows, NEW d \in Devices, NEW q \in Devices, Agreed(d, q)
  PROVE  Agreed(d, q)'
BY DEF Grows, Agreed

LEMMA SnapsKept ==
  ASSUME TrustTypeOK, TwoSides, SnapsAgreed, SameSides, Grows,
         \A s \in Sessions : \A d \in Sides(s) :
           sess'[s].snap[d].in => sess[s].snap[d].in \/ Agreed(d, Other(s, d))
  PROVE  SnapsAgreed'
<1> SUFFICES ASSUME NEW s \in Sessions', NEW d \in Sides(s)', sess'[s].snap[d].in
             PROVE  Agreed(d, Other(s, d))'
  BY DEF SnapsAgreed
<1>1. s \in Sessions /\ d \in Sides(s) /\ d \in Devices /\ Other(s, d) \in Devices
  <2>1. s \in Sessions BY SessionsKept
  <2>2. Sides(s)' = Sides(s) BY <2>1 DEF SameSides, Sides
  <2> QED BY <2>1, <2>2, SidesFacts
<1>2. Agreed(d, Other(s, d)) BY <1>1 DEF SnapsAgreed
<1>3. Other(s, d)' = Other(s, d) BY <1>1, SidesKept
<1>4. PICK q \in Devices : q = Other(s, d) BY <1>1
<1>5. Agreed(d, q)' BY <1>1, <1>2, <1>4, AgreedGrows
<1> QED BY <1>3, <1>4, <1>5

LEMMA WiresKept ==
  ASSUME TrustTypeOK, TwoSides, WiresAgreed, SameSides, Grows,
         \A s \in Sessions : \A d \in Sides(s) : \A i \in 1 .. Len(wire'[s][d]) :
           Yes(wire'[s][d][i]) =>
             \/ d \in ever'[Other(s, d)]
             \/ \E j \in 1 .. Len(wire[s][d]) : wire'[s][d][i] = wire[s][d][j]
  PROVE  WiresAgreed'
<1> SUFFICES ASSUME NEW s \in Sessions', NEW d \in Sides(s)', NEW i \in 1 .. Len(wire'[s][d]), Yes(wire'[s][d][i])
             PROVE  d \in ever'[Other(s, d)']
  BY DEF WiresAgreed, Yes
<1>1. s \in Sessions /\ d \in Sides(s) /\ d \in Devices /\ Other(s, d) \in Devices
  <2>1. s \in Sessions BY SessionsKept
  <2>2. Sides(s)' = Sides(s) BY <2>1 DEF SameSides, Sides
  <2> QED BY <2>1, <2>2, SidesFacts
<1>2. Other(s, d)' = Other(s, d) BY <1>1, SidesKept
<1>3. CASE d \in ever'[Other(s, d)] BY <1>2, <1>3
<1>4. CASE \E j \in 1 .. Len(wire[s][d]) : wire'[s][d][i] = wire[s][d][j]
  <2>1. PICK j \in 1 .. Len(wire[s][d]) : wire'[s][d][i] = wire[s][d][j] BY <1>4
  <2>2. Yes(wire[s][d][j]) BY <2>1 DEF Yes
  <2>3. d \in ever[Other(s, d)] BY <1>1, <2>2 DEF WiresAgreed
  <2>4. ever[Other(s, d)] \subseteq ever'[Other(s, d)] BY <1>1 DEF Grows
  <2> QED BY <1>2, <2>3, <2>4
<1>5. \/ d \in ever'[Other(s, d)]
      \/ \E j \in 1 .. Len(wire[s][d]) : wire'[s][d][i] = wire[s][d][j]
  BY <1>1
<1> QED BY <1>3, <1>4, <1>5

LEMMA HandsKept ==
  ASSUME TrustTypeOK, TwoSides, HandsAgreed, SameSides, Grows,
         \A s \in Sessions : \A d \in Sides(s) :
           \/ hand'[s][d] = hand[s][d]
           \/ hand'[s][d].at = "idle"
           \/ hand'[s][d].at = "read" /\ (Yes(hand'[s][d]) => d \in ever'[Other(s, d)])
           \/ /\ hand'[s][d].at = "reply" /\ Yes(hand'[s][d])
              /\ hand'[s][d].on \in Sessions /\ d \in Sides(hand'[s][d].on)
              /\ Other(hand'[s][d].on, d) \in ever'[d]
  PROVE  HandsAgreed'
<1> SUFFICES ASSUME NEW s \in Sessions', NEW d \in Sides(s)'
             PROVE  /\ hand'[s][d].at = "read" /\ Yes(hand'[s][d]) => d \in ever'[Other(s, d)']
                    /\ hand'[s][d].at = "reply" => /\ Yes(hand'[s][d])
                                                   /\ hand'[s][d].on \in Sessions
                                                   /\ d \in Sides(hand[s][d].on)'
                                                   /\ Other(hand[s][d].on, d)' \in ever'[d]
  BY SessionsKept DEF HandsAgreed, Yes
<1>1. s \in Sessions /\ d \in Sides(s) /\ d \in Devices /\ Other(s, d) \in Devices
  <2>1. s \in Sessions BY SessionsKept, SMTT(20)
  <2>2. Sides(s)' = Sides(s) BY <2>1 DEF SameSides, Sides
  <2> QED BY <2>1, <2>2, SidesFacts
<1>2. Other(s, d)' = Other(s, d) BY <1>1, SidesKept
<1>3. ASSUME hand'[s][d].at = "read", Yes(hand'[s][d])
      PROVE  d \in ever'[Other(s, d)']
  <2>1. CASE hand'[s][d] = hand[s][d]
    <3>1. hand[s][d].at = "read" /\ Yes(hand[s][d]) BY <1>3, <2>1 DEF Yes
    <3>2. d \in ever[Other(s, d)] BY <1>1, <3>1 DEF HandsAgreed
    <3> QED BY <1>1, <1>2, <3>2 DEF Grows
  <2>2. hand'[s][d] = hand[s][d] \/ (Yes(hand'[s][d]) => d \in ever'[Other(s, d)])
    BY <1>1, <1>3
  <2> QED BY <1>2, <1>3, <2>1, <2>2
<1>4. ASSUME hand'[s][d].at = "reply"
      PROVE  /\ Yes(hand'[s][d]) /\ hand'[s][d].on \in Sessions
             /\ d \in Sides(hand[s][d].on)' /\ Other(hand[s][d].on, d)' \in ever'[d]
  <2>1. /\ Yes(hand'[s][d]) /\ hand'[s][d].on \in Sessions
        /\ d \in Sides(hand'[s][d].on) /\ Other(hand'[s][d].on, d) \in ever'[d]
    <3>1. CASE hand'[s][d] = hand[s][d]
      <4>1. hand[s][d].at = "reply" BY <1>4, <3>1
      <4>2. /\ Yes(hand[s][d]) /\ hand[s][d].on \in Sessions /\ d \in Sides(hand[s][d].on)
            /\ Other(hand[s][d].on, d) \in ever[d]
        BY <1>1, <4>1 DEF HandsAgreed
      <4> QED BY <1>1, <3>1, <4>2 DEF Grows, Yes
    <3>2. CASE hand'[s][d] # hand[s][d] BY <1>1, <1>4, <3>2
    <3> QED BY <3>1, <3>2
  <2>2. PICK o \in Sessions : o = hand'[s][d].on BY <2>1
  <2>3. Sides(o)' = Sides(o) /\ Other(o, d)' = Other(o, d) BY <1>1, SidesKept, SMTT(20)
  <2>4. Sides(hand[s][d].on)' = Sides(o)' /\ Other(hand[s][d].on, d)' = Other(o, d)' BY <2>2 DEF Sides, Other
  <2> QED BY <2>1, <2>2, <2>3, <2>4
<1> QED BY <1>3, <1>4

-----------------------------------------------------------------------------
(* Sending.                                                                *)

LEMMA SentFacts ==
  ASSUME TrustTypeOK, TwoSides, NEW s \in Sessions, NEW d \in Sides(s), NEW m \in TrustMsgs
  PROVE  /\ Sent(wire, d, s, m) \in [1 .. MaxSessions -> [Devices -> Seq(TrustMsgs)]]
         /\ \A o \in 1 .. MaxSessions : o # s => Sent(wire, d, s, m)[o] = wire[o]
         /\ \A o \in 1 .. MaxSessions : \A e \in Devices : \A i \in 1 .. Len(Sent(wire, d, s, m)[o][e]) :
              \/ o = s /\ e = Other(s, d) /\ Sent(wire, d, s, m)[o][e][i] = m
              \/ \E j \in 1 .. Len(wire[o][e]) : Sent(wire, d, s, m)[o][e][i] = wire[o][e][j]
<1> DEFINE q == Other(s, d)
           longer == Append(wire[s][q], m)
           sending == [wire EXCEPT ![s][q] = longer]
<1>1. s \in 1 .. MaxSessions /\ q \in Devices BY SidesFacts
<1> HIDE DEF q
<1>2. wire \in [1 .. MaxSessions -> [Devices -> Seq(TrustMsgs)]] /\ wire[s][q] \in Seq(TrustMsgs)
  BY <1>1 DEF TrustTypeOK
<1>3. /\ longer \in Seq(TrustMsgs)
      /\ \A i \in 1 .. Len(longer) : longer[i] = m \/ \E j \in 1 .. Len(wire[s][q]) : longer[i] = wire[s][q][j]
  <2>1. longer \in Seq(TrustMsgs) /\ Len(longer) = Len(wire[s][q]) + 1
        /\ (\A i \in 1 .. Len(wire[s][q]) : longer[i] = wire[s][q][i]) /\ longer[Len(wire[s][q]) + 1] = m
    BY <1>2, AppendProperties
  <2>2. Len(wire[s][q]) \in Nat BY <1>2, LenProperties
  <2> QED BY <2>1, <2>2
<1>4. Sent(wire, d, s, m) = wire \/ Sent(wire, d, s, m) = sending BY DEF Sent, q
<1> HIDE DEF longer
<1>5. /\ sending \in [1 .. MaxSessions -> [Devices -> Seq(TrustMsgs)]]
      /\ \A o \in 1 .. MaxSessions : o # s => sending[o] = wire[o]
      /\ \A e \in Devices : sending[s][e] = IF e = q THEN longer ELSE wire[s][e]
  BY <1>1, <1>2, <1>3
<1>6. ASSUME NEW o \in 1 .. MaxSessions, NEW e \in Devices, NEW i \in 1 .. Len(sending[o][e])
      PROVE  \/ o = s /\ e = q /\ sending[o][e][i] = m
             \/ \E j \in 1 .. Len(wire[o][e]) : sending[o][e][i] = wire[o][e][j]
  <2>1. CASE o = s /\ e = q BY <1>3, <1>5, <2>1
  <2>2. CASE ~(o = s /\ e = q)
    <3>1. sending[o][e] = wire[o][e] BY <1>5, <2>2
    <3> QED BY <3>1
  <2> QED BY <2>1, <2>2
<1> HIDE DEF sending
<1>7. CASE Sent(wire, d, s, m) = wire BY <1>2, <1>7
<1>8. CASE Sent(wire, d, s, m) = sending
  <2>1. q = Other(s, d) BY DEF q
  <2> QED BY <1>5, <1>6, <1>8, <2>1
<1> QED BY <1>4, <1>7, <1>8

\* What is sent keeps the wires' promise when the receiver's other side said yes.
LEMMA SentAgreed ==
  ASSUME TrustTypeOK, TwoSides, WiresAgreed, SameSides, Grows,
         NEW s \in Sessions, NEW d \in Sides(s), NEW m \in TrustMsgs,
         wire' = Sent(wire, d, s, m),
         Yes(m) => Other(s, d) \in ever'[d]
  PROVE  WiresAgreed'
<1> SUFFICES ASSUME NEW o \in Sessions, NEW e \in Sides(o), NEW i \in 1 .. Len(wire'[o][e]), Yes(wire'[o][e][i])
             PROVE  \/ e \in ever'[Other(o, e)]
                    \/ \E j \in 1 .. Len(wire[o][e]) : wire'[o][e][i] = wire[o][e][j]
  BY WiresKept
<1>1. o \in 1 .. MaxSessions /\ e \in Devices BY SidesFacts
<1>2. CASE o = s /\ e = Other(s, d) /\ wire'[o][e][i] = m
  <2>1. Yes(m) BY <1>2
  <2>2. Other(o, e) = d BY <1>2, SidesFacts
  <2> QED BY <1>2, <2>1, <2>2
<1>3. CASE \E j \in 1 .. Len(wire[o][e]) : wire'[o][e][i] = wire[o][e][j] BY <1>3
<1>4. PICK sent : sent = Sent(wire, d, s, m)
  OBVIOUS
<1>5. sent = wire'
  BY <1>4
<1>6. \A f \in 1 .. MaxSessions : \A g \in Devices : \A k \in 1 .. Len(sent[f][g]) :
        \/ f = s /\ g = Other(s, d) /\ sent[f][g][k] = m
        \/ \E j \in 1 .. Len(wire[f][g]) : sent[f][g][k] = wire[f][g][j]
  BY ONLY <1>4, TrustTypeOK, TwoSides, s \in Sessions, d \in Sides(s), m \in TrustMsgs, SentFacts
<1>7. i \in 1 .. Len(sent[o][e])
  BY <1>5
<1>8. \/ o = s /\ e = Other(s, d) /\ sent[o][e][i] = m
      \/ \E j \in 1 .. Len(wire[o][e]) : sent[o][e][i] = wire[o][e][j]
  BY <1>1, <1>6, <1>7
<1> QED BY <1>2, <1>3, <1>5, <1>8

-----------------------------------------------------------------------------
(* The steps of one session.                                               *)

LEMMA OneSession ==
  ASSUME TrustTypeOK, NEW s \in Sessions, NEW r \in TrustSessions,
         r.from = sess[s].from, r.to = sess[s].to, sess' = [sess EXCEPT ![s] = r]
  PROVE  /\ sess' \in Seq(TrustSessions) /\ Len(sess') = Len(sess) /\ SameSides
         /\ sess'[s] = r /\ \A o \in Sessions : o # s => sess'[o] = sess[o]
<1>1. sess \in Seq(TrustSessions) /\ s \in 1 .. Len(sess) BY DEF TrustTypeOK, Sessions
<1>2. sess' \in Seq(TrustSessions) /\ Len(sess') = Len(sess)
      /\ \A o \in 1 .. Len(sess) : sess'[o] = IF o = s THEN r ELSE sess[o]
  BY <1>1, ExceptSeq
<1> QED BY <1>1, <1>2 DEF SameSides, Sessions

\* A step that changes only where a session's sides are.
LEMMA EndsOnly ==
  ASSUME TrustIInv, NEW s \in Sessions, NEW r \in TrustSessions,
         r.from = sess[s].from, r.to = sess[s].to, sess' = [sess EXCEPT ![s] = r],
         \A d \in Sides(s) : r.snap[d].in => sess[s].snap[d].in \/ Agreed(d, Other(s, d)),
         active' \in [Devices -> 0 .. Len(sess)], \A d \in Devices : active'[d] \in {0, active[d]},
         UNCHANGED <<list, talk, wire, hand, offers, ghosts, count>>
  PROVE  TrustIInv'
<1> USE DEF TrustIInv
<1>1. sess' \in Seq(TrustSessions) /\ Len(sess') = Len(sess) /\ SameSides /\ sess'[s] = r
      /\ \A o \in Sessions : o # s => sess'[o] = sess[o]
  BY OneSession
<1>2. TrustTypeOK' BY <1>1 DEF TrustTypeOK, ghosts
<1>3. TwoSides' BY <1>1, TwoSidesKept
<1>4. TalkOfActive' BY <1>1, TalkKept
<1>5. Unused' BY <1>1, UnusedKept
<1>6. Grows BY DEF Grows, ghosts
<1>7. SaysSo' BY SaysSoKept DEF StandsFor, ghosts
<1>8. SaidOnce' BY DEF SaidOnce, ghosts
<1>9. SnapsAgreed' BY <1>1, <1>6, SnapsKept
<1>10. WiresAgreed' BY <1>1, <1>6, WiresKept
<1>11. HandsAgreed' BY <1>1, <1>6, HandsKept
<1>12. ListIsAgreed' BY DEF ListIsAgreed, Trusts, ghosts
<1> QED BY <1>2, <1>3, <1>4, <1>5, <1>7, <1>8, <1>9, <1>10, <1>11, <1>12

LEMMA SeenFacts ==
  ASSUME TrustTypeOK, ListIsAgreed, NEW d \in Devices, NEW q \in Devices, NEW e \in Seen(d, q)
  PROVE  e \in Entries /\ (e.in => Agreed(d, q))
<1>1. e = NoEntry \/ e = list[d][q] BY DEF Seen
<1>2. CASE e = NoEntry BY <1>2 DEF NoEntry, NoKey, Entries, TagKeys
<1>3. CASE e = list[d][q]
  <2>1. e \in Entries BY <1>3 DEF TrustTypeOK
  <2>2. e.in => Agreed(d, q) BY <1>3 DEF ListIsAgreed, Trusts, Agreed
  <2> QED BY <2>1, <2>2
<1> QED BY <1>1, <1>2, <1>3

LEMMA AdmitKeeps ==
  ASSUME TrustIInv, NEW s \in Sessions, Admit(s)
  PROVE  TrustIInv'
<1> DEFINE q == sess[s].to
           d == sess[s].from
           off == [sess[s] EXCEPT !.end = [e \in Devices |-> "off"]]
<1> USE DEF TrustIInv
<1>1. sess[s] \in TrustSessions /\ q \in Sides(s) /\ d = Other(s, q) /\ q \in Devices /\ d \in Devices /\ d # q
  BY SidesFacts DEF Sides, Other, TrustSessions
<1>2. CASE \E e \in Seen(q, d) : sess' = [sess EXCEPT ![s].end[q] = "touch", ![s].snap[q] = e, ![s].code = FALSE]
  <2>1. PICK e \in Seen(q, d) : sess' = [sess EXCEPT ![s].end[q] = "touch", ![s].snap[q] = e, ![s].code = FALSE]
    BY <1>2
  <2> DEFINE r == [sess[s] EXCEPT !.end[q] = "touch", !.snap[q] = e, !.code = FALSE]
  <2>2. e \in Entries /\ (e.in => Agreed(q, d)) BY <1>1, SeenFacts
  <2>3. sess' = [sess EXCEPT ![s] = r] BY <2>1
  <2>4. r \in TrustSessions /\ r.from = sess[s].from /\ r.to = sess[s].to BY <1>1, <2>2 DEF TrustSessions
  <2>5. \A x \in Sides(s) : r.snap[x].in => sess[s].snap[x].in \/ Agreed(x, Other(s, x))
    BY <1>1, <2>2, SidesFacts DEF TrustSessions
  <2> HIDE DEF r, q, d
  <2>6. active' \in [Devices -> 0 .. Len(sess)] /\ \A x \in Devices : active'[x] \in {0, active[x]}
    BY DEF Admit, TrustTypeOK
  <2>7. UNCHANGED <<list, talk, wire, hand, offers, ghosts, count>> BY DEF Admit
  <2> QED BY <2>3, <2>4, <2>5, <2>6, <2>7, EndsOnly
<1>3. CASE sess' = [sess EXCEPT ![s].end = [e \in Devices |-> "off"]]
  <2>3. sess' = [sess EXCEPT ![s] = off] BY <1>3
  <2>4. off \in TrustSessions /\ off.from = sess[s].from /\ off.to = sess[s].to /\ off.snap = sess[s].snap
    BY <1>1 DEF TrustSessions
  <2> HIDE DEF off, q, d
  <2>6. active' \in [Devices -> 0 .. Len(sess)] /\ \A x \in Devices : active'[x] \in {0, active[x]}
    BY DEF Admit, TrustTypeOK
  <2>7. UNCHANGED <<list, talk, wire, hand, offers, ghosts, count>> BY DEF Admit
  <2> QED BY <2>3, <2>4, <2>6, <2>7, EndsOnly
<1> QED BY <1>2, <1>3 DEF Admit

LEMMA AcceptedKeeps ==
  ASSUME TrustIInv, NEW s \in Sessions, Accepted(s)
  PROVE  TrustIInv'
<1> DEFINE q == sess[s].to
           d == sess[s].from
<1> USE DEF TrustIInv
<1>1. sess[s] \in TrustSessions /\ d \in Sides(s) /\ q = Other(s, d) /\ q \in Devices /\ d \in Devices /\ d # q
  BY SidesFacts DEF Sides, Other, TrustSessions
<1>2. PICK e \in Seen(d, q) : sess' = [sess EXCEPT ![s].end[d] = "touch", ![s].snap[d] = e] BY DEF Accepted
<1> DEFINE r == [sess[s] EXCEPT !.end[d] = "touch", !.snap[d] = e]
<1>3. e \in Entries /\ (e.in => Agreed(d, q)) BY <1>1, SeenFacts
<1>4. sess' = [sess EXCEPT ![s] = r] BY <1>2
<1>5. r \in TrustSessions /\ r.from = sess[s].from /\ r.to = sess[s].to BY <1>1, <1>3 DEF TrustSessions
<1>6. \A x \in Sides(s) : r.snap[x].in => sess[s].snap[x].in \/ Agreed(x, Other(s, x))
  BY <1>1, <1>3, SidesFacts DEF TrustSessions
<1> HIDE DEF r, q, d
<1>7. active' \in [Devices -> 0 .. Len(sess)] /\ \A x \in Devices : active'[x] \in {0, active[x]}
  BY DEF Accepted, TrustTypeOK
<1>8. UNCHANGED <<list, talk, wire, hand, offers, ghosts, count>> BY DEF Accepted
<1> QED BY <1>4, <1>5, <1>6, <1>7, <1>8, EndsOnly

LEMMA DialFailsKeeps ==
  ASSUME TrustIInv, NEW s \in Sessions, DialFails(s)
  PROVE  TrustIInv'
<1> DEFINE d == sess[s].from
           r == [sess[s] EXCEPT !.end[d] = "off"]
<1> USE DEF TrustIInv
<1>1. sess[s] \in TrustSessions BY SidesFacts
<1>2. sess' = [sess EXCEPT ![s] = r] BY DEF DialFails
<1>3. r \in TrustSessions /\ r.from = sess[s].from /\ r.to = sess[s].to /\ r.snap = sess[s].snap
  BY <1>1 DEF TrustSessions
<1> HIDE DEF r, d
<1>4. active' \in [Devices -> 0 .. Len(sess)] /\ \A x \in Devices : active'[x] \in {0, active[x]}
  BY DEF DialFails, TrustTypeOK
<1>5. UNCHANGED <<list, talk, wire, hand, offers, ghosts, count>> BY DEF DialFails
<1> QED BY <1>2, <1>3, <1>4, <1>5, EndsOnly

LEMMA LostEndKeeps ==
  ASSUME TrustIInv, NEW s \in Sessions, NEW d \in Sides(s), LostEnd(d, s)
  PROVE  TrustIInv'
<1> DEFINE r == [sess[s] EXCEPT !.end[d] = "off"]
<1> USE DEF TrustIInv
<1>1. sess[s] \in TrustSessions /\ d \in Devices BY SidesFacts
<1>2. sess' = [sess EXCEPT ![s] = r] BY DEF LostEnd
<1>3. r \in TrustSessions /\ r.from = sess[s].from /\ r.to = sess[s].to /\ r.snap = sess[s].snap
  BY <1>1 DEF TrustSessions
<1> HIDE DEF r
<1>4. active' \in [Devices -> 0 .. Len(sess)] /\ \A x \in Devices : active'[x] \in {0, active[x]}
  <2>1. active' = [active EXCEPT ![d] = IF @ = s THEN 0 ELSE @] BY DEF LostEnd
  <2>2. active \in [Devices -> 0 .. Len(sess)] /\ 0 \in 0 .. Len(sess) BY LenProperties DEF TrustTypeOK
  <2> QED BY <1>1, <2>1, <2>2
<1>5. UNCHANGED <<list, talk, wire, hand, offers, ghosts, count>> BY DEF LostEnd
<1> QED BY <1>2, <1>3, <1>4, <1>5, EndsOnly

-----------------------------------------------------------------------------
(* A session is asked for; a connection is cut.                             *)

LEMMA DialKeeps ==
  ASSUME TrustIInv, NEW d \in Devices, NEW q \in Devices, NEW code \in BOOLEAN, Dial(d, q, code)
  PROVE  TrustIInv'
<1> DEFINE r == Asked(d, q, code)
           n == Len(sess) + 1
<1> USE DEF TrustIInv
<1>1. r \in TrustSessions /\ r.from = d /\ r.to = q /\ d # q /\ (\A e \in Devices : ~r.snap[e].in)
  BY DEF Asked, TrustSessions, Dial, NoEntry, NoKey, Entries, TagKeys
<1>2. sess' = Append(sess, r) /\ Len(sess) < MaxSessions BY DEF Dial
<1>u. UNCHANGED <<list, active, talk, wire, hand, offers, ghosts, count>> BY DEF Dial
<1> HIDE DEF r
<1>3. /\ sess' \in Seq(TrustSessions) /\ Len(sess') = n /\ Len(sess) \in Nat /\ n <= MaxSessions
      /\ \A s \in Sessions : sess'[s] = sess[s]
      /\ sess'[n] = r
  <2>1. sess \in Seq(TrustSessions) BY DEF TrustTypeOK
  <2>2. /\ sess' \in Seq(TrustSessions) /\ Len(sess') = n /\ (\A s \in 1 .. Len(sess) : sess'[s] = sess[s])
        /\ sess'[n] = r
    BY <1>1, <1>2, <2>1, AppendProperties
  <2>3. Len(sess) \in Nat BY <2>1, LenProperties
  <2> QED BY <1>2, <2>2, <2>3 DEF Sessions
<1>4. Sessions' = Sessions \cup {n} /\ n \notin Sessions BY <1>3 DEF Sessions
<1>5. TrustTypeOK'
  <2>1. active \in [Devices -> 0 .. n] BY <1>3 DEF TrustTypeOK
  <2> QED BY <1>3, <1>u, <2>1 DEF TrustTypeOK, ghosts
<1>6. TwoSides' BY <1>1, <1>3, <1>4 DEF TwoSides
<1>7. ASSUME NEW s \in Sessions, NEW e PROVE Sides(s)' = Sides(s) /\ Other(s, e)' = Other(s, e)
  BY <1>3 DEF Sides, Other
<1>8. TalkOfActive'
  <2> SUFFICES ASSUME NEW e \in Devices, active'[e] # 0
               PROVE  e \in Sides(active[e])' /\ talk'[e].peer = Other(active[e], e)'
    BY DEF TalkOfActive
  <2>1. active[e] # 0 /\ talk'[e] = talk[e] /\ active'[e] = active[e] BY <1>u
  <2>2. PICK s \in Sessions : s = active[e]
    <3>1. active[e] \in 0 .. Len(sess) BY DEF TrustTypeOK
    <3> QED BY <1>3, <2>1, <3>1 DEF Sessions
  <2>3. e \in Sides(s) /\ talk[e].peer = Other(s, e) BY <2>1, <2>2 DEF TalkOfActive
  <2>4. Sides(active[e])' = Sides(s)' /\ Other(active[e], e)' = Other(s, e)' BY <2>1, <2>2 DEF Sides, Other
  <2> QED BY <1>7, <2>1, <2>3, <2>4
<1>9. Unused' BY <1>4, <1>u DEF Unused
<1>10. SaysSo' BY <1>u DEF SaysSo, StandsFor, ghosts
<1>11. SaidOnce' BY <1>u DEF SaidOnce, ghosts
<1>12. SnapsAgreed'
  <2> SUFFICES ASSUME NEW s \in Sessions', NEW e \in Sides(s)', sess'[s].snap[e].in
               PROVE  Agreed(e, Other(s, e))'
    BY DEF SnapsAgreed
  <2>1. CASE s = n
    <3>1. e \in Devices BY <1>3, <1>1, <2>1 DEF Sides, TrustSessions
    <3> QED BY <1>1, <1>3, <2>1, <3>1
  <2>2. CASE s \in Sessions
    <3>1. e \in Sides(s) /\ Other(s, e)' = Other(s, e) BY <1>7, <2>2
    <3>2. Agreed(e, Other(s, e)) BY <1>3, <2>2, <3>1 DEF SnapsAgreed
    <3> QED BY <1>u, <3>1, <3>2 DEF Agreed, ghosts
  <2> QED BY <1>4, <2>1, <2>2
<1>13. wire'[n] = wire[n] /\ hand'[n] = hand[n] /\ \A e \in Devices : wire[n][e] = <<>> /\ hand[n][e] = Idle
  <2>1. n \in 1 .. MaxSessions BY <1>3
  <2> QED BY <1>4, <1>u, <2>1 DEF Unused
<1>14. WiresAgreed'
  <2> SUFFICES ASSUME NEW s \in Sessions', NEW e \in Sides(s)', NEW i \in 1 .. Len(wire'[s][e]), Yes(wire'[s][e][i])
               PROVE  e \in ever'[Other(s, e)']
    BY DEF WiresAgreed, Yes
  <2>1. CASE s = n
    <3>1. e \in Devices BY <1>3, <1>1, <2>1 DEF Sides, TrustSessions
    <3>2. wire'[s][e] = <<>> BY <1>13, <2>1, <3>1
    <3> QED BY <3>2, EmptySeq
  <2>2. CASE s \in Sessions
    <3>1. e \in Sides(s) /\ Other(s, e)' = Other(s, e) BY <1>7, <2>2
    <3>2. e \in ever[Other(s, e)] BY <1>u, <2>2, <3>1 DEF WiresAgreed
    <3> QED BY <1>u, <3>1, <3>2 DEF ghosts
  <2> QED BY <1>4, <2>1, <2>2
<1>15. HandsAgreed'
  <2> SUFFICES ASSUME NEW s \in Sessions', NEW e \in Sides(s)'
               PROVE  /\ hand'[s][e].at = "read" /\ Yes(hand'[s][e]) => e \in ever'[Other(s, e)']
                      /\ hand'[s][e].at = "reply" => /\ Yes(hand'[s][e])
                                                     /\ hand'[s][e].on \in Sessions'
                                                     /\ e \in Sides(hand[s][e].on)'
                                                     /\ Other(hand[s][e].on, e)' \in ever'[e]
    BY DEF HandsAgreed, Yes
  <2>1. CASE s = n
    <3>1. e \in Devices BY <1>3, <1>1, <2>1 DEF Sides, TrustSessions
    <3>2. hand'[s][e] = Idle BY <1>13, <2>1, <3>1
    <3>3. hand'[s][e].at = "idle" BY <3>2 DEF Idle
    <3> QED BY <3>3
  <2>2. CASE s \in Sessions
    <3>1. e \in Sides(s) /\ Other(s, e)' = Other(s, e) BY <1>7, <2>2
    <3>2. hand' = hand /\ ever' = ever BY <1>u DEF ghosts
    <3>3. hand'[s][e].at = "read" /\ Yes(hand'[s][e]) => e \in ever'[Other(s, e)']
      BY <2>2, <3>1, <3>2 DEF HandsAgreed
    <3>4. ASSUME hand'[s][e].at = "reply"
          PROVE  Yes(hand'[s][e]) /\ hand'[s][e].on \in Sessions' /\ e \in Sides(hand[s][e].on)'
                 /\ Other(hand[s][e].on, e)' \in ever'[e]
      <4>1. /\ Yes(hand[s][e]) /\ hand[s][e].on \in Sessions /\ e \in Sides(hand[s][e].on)
            /\ Other(hand[s][e].on, e) \in ever[e]
        BY <2>2, <3>1, <3>2, <3>4 DEF HandsAgreed
      <4>2. PICK o \in Sessions : o = hand[s][e].on BY <4>1
      <4>3. Sides(o)' = Sides(o) /\ Other(o, e)' = Other(o, e) BY <1>7
      <4>4. Sides(hand[s][e].on)' = Sides(o)' /\ Other(hand[s][e].on, e)' = Other(o, e)'
        BY <3>2, <4>2 DEF Sides, Other
      <4> QED BY <1>4, <3>2, <4>1, <4>2, <4>3, <4>4
    <3> QED BY <3>3, <3>4
  <2> QED BY <1>4, <2>1, <2>2
<1>16. ListIsAgreed' BY <1>u DEF ListIsAgreed, Trusts, ghosts
<1> QED BY <1>5, <1>6, <1>8, <1>9, <1>10, <1>11, <1>12, <1>14, <1>15, <1>16

LEMMA FaultCounted ==
  ASSUME TrustTypeOK, NEW f, Fault(f)
  PROVE  Spent \in [forgets : 0 .. Forgets, faults : 0 .. MaxFaults] /\ Spent.forgets = count.forgets
<1>1. count \in [forgets : 0 .. Forgets, faults : 0 .. MaxFaults] /\ count.faults < MaxFaults
  BY DEF TrustTypeOK, Fault
<1>2. count.faults \in 0 .. MaxFaults BY <1>1
<1>3. count.faults + 1 \in 0 .. MaxFaults BY <1>1, <1>2
<1> QED BY <1>1, <1>3 DEF Spent

LEMMA CutKeeps ==
  ASSUME TrustIInv, NEW s \in Sessions, Cut(s)
  PROVE  TrustIInv'
<1> DEFINE r == [sess[s] EXCEPT !.cut = TRUE]
           quiet == [d \in Devices |-> <<>>]
<1> USE DEF TrustIInv
<1>1. sess[s] \in TrustSessions /\ s \in 1 .. MaxSessions BY SidesFacts
<1>2. sess' = [sess EXCEPT ![s] = r] BY DEF Cut
<1>3. r \in TrustSessions /\ r.from = sess[s].from /\ r.to = sess[s].to /\ r.snap = sess[s].snap
  BY <1>1 DEF TrustSessions
<1>4. wire' = [wire EXCEPT ![s] = quiet] /\ UNCHANGED <<list, active, talk, hand, offers, ghosts>> BY DEF Cut
<1>5. count' \in [forgets : 0 .. Forgets, faults : 0 .. MaxFaults] BY FaultCounted DEF Cut
<1>6. quiet \in [Devices -> Seq(TrustMsgs)] /\ \A d \in Devices : Len(quiet[d]) = 0
  <2>1. <<>> \in Seq(TrustMsgs) /\ Len(<<>>) = 0 BY EmptySeq
  <2> QED BY <2>1
<1> HIDE DEF r, quiet
<1>7. sess' \in Seq(TrustSessions) /\ Len(sess') = Len(sess) /\ SameSides /\ sess'[s] = r
      /\ \A o \in Sessions : o # s => sess'[o] = sess[o]
  BY <1>2, <1>3, OneSession
<1>8. /\ wire' \in [1 .. MaxSessions -> [Devices -> Seq(TrustMsgs)]]
      /\ wire'[s] = quiet /\ \A o \in 1 .. MaxSessions : o # s => wire'[o] = wire[o]
  BY <1>1, <1>4, <1>6 DEF TrustTypeOK
<1>9. TrustTypeOK' BY <1>4, <1>5, <1>7, <1>8 DEF TrustTypeOK, ghosts
<1>10. TwoSides' BY <1>7, TwoSidesKept
<1>11. TalkOfActive' BY <1>4, <1>7, TalkKept
<1>12. Unused' BY <1>4, <1>7, <1>8, UnusedKept
<1>13. Grows BY <1>4 DEF Grows, ghosts
<1>14. SaysSo' BY <1>4, SaysSoKept DEF StandsFor, ghosts
<1>15. SaidOnce' BY <1>4 DEF SaidOnce, ghosts
<1>16. SnapsAgreed' BY <1>3, <1>7, <1>13, SnapsKept
<1>17. WiresAgreed'
  <2> SUFFICES ASSUME NEW o \in Sessions, NEW e \in Sides(o), NEW i \in 1 .. Len(wire'[o][e])
               PROVE  \E j \in 1 .. Len(wire[o][e]) : wire'[o][e][i] = wire[o][e][j]
    BY <1>7, <1>13, WiresKept
  <2>1. o \in 1 .. MaxSessions /\ e \in Devices BY SidesFacts
  <2>2. CASE o = s BY <1>6, <1>8, <2>1, <2>2
  <2>3. CASE o # s
    <3>1. wire'[o] = wire[o] BY <1>8, <2>1, <2>3
    <3> QED BY <3>1
  <2> QED BY <2>2, <2>3
<1>18. HandsAgreed' BY <1>4, <1>7, <1>13, HandsKept
<1>19. ListIsAgreed' BY <1>4 DEF ListIsAgreed, Trusts, ghosts
<1> QED BY <1>9, <1>10, <1>11, <1>12, <1>14, <1>15, <1>16, <1>17, <1>18, <1>19

-----------------------------------------------------------------------------
(* The user's part, and time.                                               *)

\* A step that changes no session.
LEMMA SameSessions ==
  ASSUME TrustTypeOK, sess' = sess
  PROVE  SameSides
BY DEF SameSides

\* A device's active session, and the device its talk is with.
LEMMA ActiveFacts ==
  ASSUME TrustTypeOK, TwoSides, TalkOfActive, NEW d \in Devices, active[d] # 0
  PROVE  /\ active[d] \in Sessions /\ d \in Sides(active[d])
         /\ talk[d].peer = Other(active[d], d) /\ talk[d].peer \in Devices \ {d}
<1>1. active[d] \in Sessions
  <2>1. active[d] \in 0 .. Len(sess) /\ Len(sess) \in Nat BY LenProperties DEF TrustTypeOK
  <2> QED BY <2>1 DEF Sessions
<1>2. d \in Sides(active[d]) /\ talk[d].peer = Other(active[d], d) BY DEF TalkOfActive
<1> QED BY <1>1, <1>2, SidesFacts

LEMMA TalkStep ==
  ASSUME TrustTypeOK, NEW d \in Devices, NEW t \in TrustTalks, talk' = [talk EXCEPT ![d] = t]
  PROVE  /\ talk' \in [Devices -> TrustTalks] /\ talk'[d] = t
         /\ \A e \in Devices : e # d => talk'[e] = talk[e]
BY DEF TrustTypeOK

LEMMA TalkOffers ==
  ASSUME NEW t \in TrustTalks, NEW n \in Nat, NEW r, r = [t EXCEPT !.offered = n]
  PROVE  /\ r \in TrustTalks /\ r.peer = t.peer /\ r.offered = n
         /\ r.asked = t.asked /\ r.accepted = t.accepted /\ r.key = t.key
BY DEF TrustTalks

LEMMA TalkAsked ==
  ASSUME NEW t \in TrustTalks, NEW b \in BOOLEAN, NEW r, r = [t EXCEPT !.asked = b]
  PROVE  /\ r \in TrustTalks /\ r.peer = t.peer /\ r.offered = t.offered
         /\ r.asked = b /\ r.accepted = t.accepted /\ r.key = t.key
BY DEF TrustTalks

LEMMA TalkAccepts ==
  ASSUME NEW t \in TrustTalks, NEW b \in BOOLEAN, NEW r, r = [t EXCEPT !.accepted = b]
  PROVE  /\ r \in TrustTalks /\ r.peer = t.peer /\ r.offered = t.offered
         /\ r.asked = t.asked /\ r.accepted = b /\ r.key = t.key
BY DEF TrustTalks

LEMMA TalkKeys ==
  ASSUME NEW t \in TrustTalks, NEW k \in TagKeys, NEW r, r = [t EXCEPT !.key = k]
  PROVE  /\ r \in TrustTalks /\ r.peer = t.peer /\ r.offered = t.offered
         /\ r.asked = t.asked /\ r.accepted = t.accepted /\ r.key = k
BY DEF TrustTalks

LEMMA OfferKeeps ==
  ASSUME TrustIInv, NEW d \in Devices, Offer(d)
  PROVE  TrustIInv'
<1> DEFINE s == active[d]
           q == talk[d].peer
           m == Msg("offer", NoKey)
<1> USE DEF TrustIInv
<1>1. s \in Sessions /\ d \in Sides(s) /\ q = Other(s, d) /\ q \in Devices BY ActiveFacts DEF Offer
<1>2. /\ offers + 1 <= MaxOffers /\ offers' = offers + 1
      /\ talk' = [talk EXCEPT ![d].offered = offers + 1]
      /\ said' = [said EXCEPT ![d] = @ \cup {q}]
      /\ ever' = [ever EXCEPT ![d] = @ \cup {q}]
      /\ wire' = Sent(wire, d, s, m)
      /\ UNCHANGED <<list, active, sess, hand, owed, spoilt, astray, count>>
  BY DEF Offer
<1>3. m \in TrustMsgs /\ ~Yes(m) BY DEF Msg, TrustMsgs, TrustTypes, NoKey, TagKeys, Yes
<1> HIDE DEF s, m
<1>4. SameSides BY <1>2, SameSessions
<1>5. /\ said' \in [Devices -> SUBSET Devices] /\ said'[d] = said[d] \cup {q}
      /\ \A e \in Devices : e # d => said'[e] = said[e]
      /\ ever' \in [Devices -> SUBSET Devices] /\ ever'[d] = ever[d] \cup {q}
      /\ \A e \in Devices : e # d => ever'[e] = ever[e]
  BY <1>1, <1>2 DEF TrustTypeOK
<1>6. offers' \in 0 .. MaxOffers /\ offers + 1 \in Nat BY <1>2 DEF TrustTypeOK
<1>7. /\ talk' \in [Devices -> TrustTalks] /\ \A e \in Devices : e # d => talk'[e] = talk[e]
      /\ talk'[d].peer = q
  <2>1. talk[d] \in TrustTalks BY DEF TrustTypeOK
  <2>2. PICK t : t = [talk[d] EXCEPT !.offered = offers + 1] OBVIOUS
  <2>3. t \in TrustTalks /\ t.peer = q BY <1>6, <2>1, <2>2, TalkOffers
  <2>4. talk' = [talk EXCEPT ![d] = t] BY <1>2, <2>2
  <2> QED BY <2>3, <2>4, TalkStep
<1>8. /\ wire' \in [1 .. MaxSessions -> [Devices -> Seq(TrustMsgs)]]
      /\ \A o \in 1 .. MaxSessions : o # s => wire'[o] = wire[o]
  BY <1>1, <1>2, <1>3, SentFacts
<1>9. TrustTypeOK' BY <1>2, <1>5, <1>6, <1>7, <1>8 DEF TrustTypeOK
<1>10. TwoSides' BY <1>4, TwoSidesKept
<1>11. TalkOfActive' BY <1>2, <1>4, <1>7, TalkKept
<1>12. Unused' BY <1>1, <1>2, <1>4, <1>8, UnusedKept
<1>13. Grows BY <1>2, <1>5 DEF Grows
<1>14. SaysSo' BY <1>2, <1>5, <1>7, SaysSoKept DEF StandsFor
<1>15. SaidOnce' BY <1>5 DEF SaidOnce
<1>16. SnapsAgreed' BY <1>2, <1>4, <1>13, SnapsKept
<1>17. WiresAgreed' BY <1>1, <1>2, <1>3, <1>4, <1>13, SentAgreed
<1>18. HandsAgreed' BY <1>2, <1>4, <1>13, HandsKept
<1>19. ListIsAgreed'
  <2>1. \A x, y \in Devices : list'[x][y].in => y \in said'[x] \/ <<x, y>> \in spoilt'
    BY <1>2, <1>5 DEF ListIsAgreed, Trusts
  <2>2. \A x, y \in Devices : list'[x][y].in => x \in ever'[y] \/ \E r \in Devices \ {y} : <<x, y, r>> \in astray'
    BY <1>2, <1>13 DEF ListIsAgreed, Trusts, Grows
  <2> QED BY <2>1, <2>2 DEF ListIsAgreed, Trusts
<1> QED BY <1>9, <1>10, <1>11, <1>12, <1>14, <1>15, <1>16, <1>17, <1>18, <1>19

LEMMA ExpireKeeps ==
  ASSUME TrustIInv, NEW d \in Devices, Expire(d)
  PROVE  TrustIInv'
<1> USE DEF TrustIInv
<1>1. UNCHANGED <<list, active, sess, wire, hand, offers, ghosts, count>> BY DEF Expire
<1>2. /\ talk' \in [Devices -> TrustTalks] /\ talk'[d].peer = talk[d].peer
      /\ (talk'[d].offered # 0 => talk[d].offered # 0) /\ (talk'[d].accepted => talk[d].accepted)
      /\ \A e \in Devices : e # d => talk'[e] = talk[e]
  <2>1. talk \in [Devices -> TrustTalks] BY DEF TrustTypeOK
  <2>2. talk[d] \in TrustTalks BY <2>1
  <2>3. PICK t : /\ talk' = [talk EXCEPT ![d] = t] /\ t \in TrustTalks /\ t.peer = talk[d].peer
                 /\ (t.offered # 0 => talk[d].offered # 0) /\ (t.accepted => talk[d].accepted)
    <3>0. PICK no \in BOOLEAN : no = FALSE OBVIOUS
    <3>1. CASE talk' = [talk EXCEPT ![d].offered = 0]
      <4>1. PICK t : t = [talk[d] EXCEPT !.offered = 0] OBVIOUS
      <4>2. talk' = [talk EXCEPT ![d] = t] BY <3>1, <4>1
      <4>3. t \in TrustTalks /\ t.peer = talk[d].peer /\ t.offered = 0 /\ t.accepted = talk[d].accepted
        BY <2>2, <4>1, TalkOffers
      <4> QED BY <4>2, <4>3
    <3>2. CASE talk' = [talk EXCEPT ![d].asked = FALSE]
      <4>1. PICK t : t = [talk[d] EXCEPT !.asked = no] OBVIOUS
      <4>2. talk' = [talk EXCEPT ![d] = t] BY <3>0, <3>2, <4>1
      <4>3. t \in TrustTalks /\ t.peer = talk[d].peer /\ t.offered = talk[d].offered /\ t.accepted = talk[d].accepted
        BY <2>2, <3>0, <4>1, TalkAsked
      <4> QED BY <4>2, <4>3
    <3>3. CASE talk' = [talk EXCEPT ![d].accepted = FALSE]
      <4>1. PICK t : t = [talk[d] EXCEPT !.accepted = no] OBVIOUS
      <4>2. talk' = [talk EXCEPT ![d] = t] BY <3>0, <3>3, <4>1
      <4>3. t \in TrustTalks /\ t.peer = talk[d].peer /\ t.offered = talk[d].offered /\ t.accepted = no
        BY <2>2, <3>0, <4>1, TalkAccepts
      <4> QED BY <3>0, <4>2, <4>3
    <3> QED BY <3>1, <3>2, <3>3 DEF Expire
  <2> QED BY <2>3, TalkStep
<1>3. SameSides BY <1>1, SameSessions
<1>4. TrustTypeOK' BY <1>1, <1>2 DEF TrustTypeOK, ghosts
<1>5. TwoSides' BY <1>3, TwoSidesKept
<1>6. TalkOfActive' BY <1>1, <1>2, <1>3, TalkKept
<1>7. Unused' BY <1>1, <1>3, UnusedKept
<1>8. Grows BY <1>1 DEF Grows, ghosts
<1>9. SaysSo' BY <1>1, <1>2, SaysSoKept DEF StandsFor, ghosts
<1>10. SaidOnce' BY <1>1 DEF SaidOnce, ghosts
<1>11. SnapsAgreed' BY <1>1, <1>3, <1>8, SnapsKept
<1>12. WiresAgreed' BY <1>1, <1>3, <1>8, WiresKept
<1>13. HandsAgreed' BY <1>1, <1>3, <1>8, HandsKept
<1>14. ListIsAgreed' BY <1>1 DEF ListIsAgreed, Trusts, ghosts
<1> QED BY <1>4, <1>5, <1>6, <1>7, <1>9, <1>10, <1>11, <1>12, <1>13, <1>14

LEMMA AnswerKeeps ==
  ASSUME TrustIInv, NEW d \in Devices, NEW yes \in BOOLEAN, AnswerTrust(d, yes)
  PROVE  TrustIInv'
<1> DEFINE s == active[d]
           q == talk[d].peer
           m == Msg(IF yes THEN "accept" ELSE "decline", NoKey)
<1> USE DEF TrustIInv
<1>1. s \in Sessions /\ d \in Sides(s) /\ q = Other(s, d) /\ q \in Devices BY ActiveFacts DEF AnswerTrust
<1>2. /\ talk' = [talk EXCEPT ![d].asked = FALSE, ![d].accepted = @ \/ yes]
      /\ said' = [said EXCEPT ![d] = IF yes THEN @ \cup {q} ELSE @]
      /\ ever' = [ever EXCEPT ![d] = IF yes THEN @ \cup {q} ELSE @]
      /\ wire' = Sent(wire, d, s, m)
      /\ UNCHANGED <<list, active, sess, hand, offers, owed, spoilt, astray, count>>
  BY DEF AnswerTrust
<1>3. m \in TrustMsgs /\ (Yes(m) => yes) BY DEF Msg, TrustMsgs, TrustTypes, NoKey, TagKeys, Yes
<1> HIDE DEF s, m
<1>4. SameSides BY <1>2, SameSessions
<1>5. /\ said' \in [Devices -> SUBSET Devices] /\ said[d] \subseteq said'[d] /\ (yes => q \in said'[d])
      /\ said'[d] \subseteq said[d] \cup (IF yes THEN {q} ELSE {})
      /\ \A e \in Devices : e # d => said'[e] = said[e]
      /\ ever' \in [Devices -> SUBSET Devices] /\ ever'[d] = ever[d] \cup (IF yes THEN {q} ELSE {})
      /\ \A e \in Devices : e # d => ever'[e] = ever[e]
  <2>1. said \in [Devices -> SUBSET Devices] /\ ever \in [Devices -> SUBSET Devices] BY DEF TrustTypeOK
  <2>2. CASE yes BY <1>1, <1>2, <2>1, <2>2
  <2>3. CASE ~yes BY <1>1, <1>2, <2>1, <2>3
  <2> QED BY <2>2, <2>3
<1>7. /\ talk' \in [Devices -> TrustTalks] /\ \A e \in Devices : e # d => talk'[e] = talk[e]
      /\ talk'[d].peer = q /\ talk'[d].offered = talk[d].offered
      /\ (talk'[d].accepted => talk[d].accepted \/ yes)
  <2>1. talk[d] \in TrustTalks BY DEF TrustTypeOK
  <2>2. talk[d].accepted \in BOOLEAN BY <2>1 DEF TrustTalks
  <2>3. PICK b \in BOOLEAN : b = (talk[d].accepted \/ yes) BY <2>2
  <2>0. PICK no \in BOOLEAN : no = FALSE OBVIOUS
  <2>4. PICK u : u = [talk[d] EXCEPT !.asked = no] OBVIOUS
  <2>5. u \in TrustTalks /\ u.peer = q /\ u.offered = talk[d].offered /\ u.accepted = talk[d].accepted
    BY <2>1, <2>4, TalkAsked
  <2>6. PICK t : t = [u EXCEPT !.accepted = b] OBVIOUS
  <2>7. t \in TrustTalks /\ t.peer = u.peer /\ t.offered = u.offered /\ t.accepted = b
    BY <2>5, <2>6, TalkAccepts
  <2>8. talk' = [talk EXCEPT ![d] = t] BY <1>2, <2>0, <2>3, <2>4, <2>5, <2>6
  <2> QED BY <2>3, <2>5, <2>7, <2>8, TalkStep
<1>8. /\ wire' \in [1 .. MaxSessions -> [Devices -> Seq(TrustMsgs)]]
      /\ \A o \in 1 .. MaxSessions : o # s => wire'[o] = wire[o]
  BY <1>1, <1>2, <1>3, SentFacts
<1>9. TrustTypeOK' BY <1>2, <1>5, <1>7, <1>8 DEF TrustTypeOK
<1>10. TwoSides' BY <1>4, TwoSidesKept
<1>11. TalkOfActive' BY <1>2, <1>4, <1>7, TalkKept
<1>12. Unused' BY <1>1, <1>2, <1>4, <1>8, UnusedKept
<1>13. Grows BY <1>2, <1>5 DEF Grows
<1>14. SaysSo' BY <1>2, <1>5, <1>7, SaysSoKept DEF StandsFor
<1>15. SaidOnce' BY <1>5 DEF SaidOnce
<1>16. SnapsAgreed' BY <1>2, <1>4, <1>13, SnapsKept
<1>17. WiresAgreed'
  <2>1. Yes(m) => q \in ever'[d] BY <1>3, <1>5
  <2> QED BY <1>1, <1>2, <1>3, <1>4, <1>13, <2>1, SentAgreed
<1>18. HandsAgreed' BY <1>2, <1>4, <1>13, HandsKept
<1>19. ListIsAgreed'
  <2>1. \A x, y \in Devices : list'[x][y].in => y \in said'[x] \/ <<x, y>> \in spoilt'
    BY <1>2, <1>5 DEF ListIsAgreed, Trusts
  <2>2. \A x, y \in Devices : list'[x][y].in => x \in ever'[y] \/ \E r \in Devices \ {y} : <<x, y, r>> \in astray'
    BY <1>2, <1>13 DEF ListIsAgreed, Trusts, Grows
  <2> QED BY <2>1, <2>2 DEF ListIsAgreed, Trusts
<1> QED BY <1>9, <1>10, <1>11, <1>12, <1>14, <1>15, <1>16, <1>17, <1>18, <1>19

LEMMA ForgetKeeps ==
  ASSUME TrustIInv, NEW d \in Devices, NEW q \in Devices, Forget(d, q)
  PROVE  TrustIInv'
<1> USE DEF TrustIInv
<1>1. PICK ok \in BOOLEAN :
        /\ ok \/ Fault("save")
        /\ list' = IF ok THEN [list EXCEPT ![d][q] = NoEntry] ELSE list
        /\ said' = IF ok /\ ~Standing(d, q) THEN [said EXCEPT ![d] = @ \ {q}] ELSE said
        /\ spoilt' = IF ok THEN spoilt \ {<<d, q>>} ELSE spoilt
        /\ count' = [Counted(ok) EXCEPT !.forgets = @ + 1]
  BY DEF Forget, Saves
<1>2. /\ count.forgets < Forgets
      /\ UNCHANGED <<active, talk, sess, wire, hand, offers, ever, owed, astray>>
  BY DEF Forget
<1>3. /\ list' \in [Devices -> [Devices -> Entries]]
      /\ ok => ~list'[d][q].in
      /\ \A x, y \in Devices : list'[x][y].in => list[x][y].in
  <2>1. NoEntry \in Entries /\ ~NoEntry.in BY DEF NoEntry, NoKey, Entries, TagKeys
  <2>2. list \in [Devices -> [Devices -> Entries]] BY DEF TrustTypeOK
  <2>3. CASE ok BY <1>1, <2>1, <2>2, <2>3
  <2>4. CASE ~ok BY <1>1, <2>2, <2>4
  <2> QED BY <2>3, <2>4
<1>4. /\ said' \in [Devices -> SUBSET Devices]
      /\ \A e \in Devices : e # d => said'[e] = said[e]
      /\ said'[d] \subseteq said[d] /\ said[d] \ {q} \subseteq said'[d]
      /\ ~ok \/ Standing(d, q) => said'[d] = said[d]
  BY <1>1 DEF TrustTypeOK
<1>5. count' \in [forgets : 0 .. Forgets, faults : 0 .. MaxFaults]
  <2>1. /\ Counted(ok) \in [forgets : 0 .. Forgets, faults : 0 .. MaxFaults]
        /\ Counted(ok).forgets = count.forgets
    BY <1>1, FaultCounted DEF Counted, TrustTypeOK
  <2>2. count.forgets \in 0 .. Forgets BY DEF TrustTypeOK
  <2>3. count.forgets + 1 \in 0 .. Forgets BY <1>2, <2>2
  <2> QED BY <1>1, <2>1, <2>3
<1>6. spoilt' \subseteq spoilt /\ spoilt \ {<<d, q>>} \subseteq spoilt' BY <1>1
<1>7. SameSides BY <1>2, SameSessions
<1>8. TrustTypeOK' BY <1>2, <1>3, <1>4, <1>5, <1>6 DEF TrustTypeOK
<1>9. TwoSides' BY <1>7, TwoSidesKept
<1>10. TalkOfActive' BY <1>2, <1>7, TalkKept
<1>11. Unused' BY <1>2, <1>7, UnusedKept
<1>12. Grows BY <1>2 DEF Grows
<1>13. SaysSo'
  <2> SUFFICES ASSUME NEW e \in Devices, active[e] # 0, StandsFor(e)
               PROVE  talk[e].peer \in said'[e]
    BY <1>2 DEF SaysSo, StandsFor
  <2>1. talk[e].peer \in said[e] BY DEF SaysSo
  <2>2. CASE e = d /\ talk[e].peer = q
    <3>1. Standing(d, q) BY <2>2 DEF Standing, StandsFor
    <3> QED BY <1>4, <2>1, <2>2, <3>1
  <2>3. CASE ~(e = d /\ talk[e].peer = q) BY <1>4, <2>1, <2>3
  <2> QED BY <2>2, <2>3
<1>14. SaidOnce'
  <2> SUFFICES ASSUME NEW e \in Devices PROVE said'[e] \subseteq ever[e] BY <1>2 DEF SaidOnce
  <2>1. said'[e] \subseteq said[e] BY <1>4
  <2> QED BY <2>1 DEF SaidOnce
<1>15. SnapsAgreed' BY <1>2, <1>7, <1>12, SnapsKept
<1>16. WiresAgreed' BY <1>2, <1>7, <1>12, WiresKept
<1>17. HandsAgreed' BY <1>2, <1>7, <1>12, HandsKept
<1>18. ListIsAgreed'
  <2> SUFFICES ASSUME NEW x \in Devices, NEW y \in Devices, list'[x][y].in
               PROVE  /\ y \in said'[x] \/ <<x, y>> \in spoilt'
                      /\ x \in ever[y] \/ \E r \in Devices \ {y} : <<x, y, r>> \in astray
    BY <1>2 DEF ListIsAgreed, Trusts
  <2>1. Trusts(x, y) BY <1>3 DEF Trusts
  <2>2. ~ok \/ <<x, y>> # <<d, q>> BY <1>3
  <2>3. /\ y \in said[x] \/ <<x, y>> \in spoilt
        /\ x \in ever[y] \/ \E r \in Devices \ {y} : <<x, y, r>> \in astray
    BY <2>1 DEF ListIsAgreed
  <2>4. CASE ok
    <3>1. y \in said[x] => y \in said'[x] BY <1>4, <2>2, <2>4
    <3>2. <<x, y>> \in spoilt => <<x, y>> \in spoilt' BY <1>6, <2>2, <2>4
    <3> QED BY <2>3, <3>1, <3>2
  <2>5. CASE ~ok
    <3>1. said'[x] = said[x] /\ spoilt' = spoilt BY <1>1, <1>4, <2>5
    <3> QED BY <2>3, <3>1
  <2> QED BY <2>4, <2>5
<1> QED BY <1>8, <1>9, <1>10, <1>11, <1>13, <1>14, <1>15, <1>16, <1>17, <1>18

-----------------------------------------------------------------------------
(* touchTrust writes the entry it read.                                     *)

LEMMA TouchKeeps ==
  ASSUME TrustIInv, NEW s \in Sessions, NEW d \in Sides(s), Touch(d, s)
  PROVE  TrustIInv'
<1> DEFINE q == Other(s, d)
           e == sess[s].snap[d]
           r == [sess[s] EXCEPT !.end[d] = "touched", !.snap[d] = NoEntry]
<1> USE DEF TrustIInv
<1>1. /\ sess[s] \in TrustSessions /\ d \in Devices /\ q \in Devices
      /\ e \in Entries /\ (e.in => Agreed(d, q))
  <2>1. sess[s] \in TrustSessions /\ d \in Devices /\ q \in Devices BY SidesFacts
  <2>2. e \in Entries BY <2>1 DEF TrustSessions
  <2>3. e.in => Agreed(d, q) BY DEF SnapsAgreed
  <2> QED BY <2>1, <2>2, <2>3
<1>2. /\ list' = IF e.in THEN [list EXCEPT ![d][q] = e] ELSE list
      /\ spoilt' = IF e.in /\ e # list[d][q] THEN spoilt \cup {<<d, q>>} ELSE spoilt
      /\ UNCHANGED <<active, talk, wire, hand, offers, said, ever, owed, astray, count>>
  BY DEF Touch, Touched
<1>3. sess' = [sess EXCEPT ![s] = r] BY DEF Touch
<1>4. /\ r \in TrustSessions /\ r.from = sess[s].from /\ r.to = sess[s].to
      /\ \A x \in Devices : r.snap[x].in => sess[s].snap[x].in
  <2>1. NoEntry \in Entries /\ ~NoEntry.in BY DEF NoEntry, NoKey, Entries, TagKeys
  <2> QED BY <1>1, <2>1 DEF TrustSessions
<1> HIDE DEF q, e, r
<1>5. sess' \in Seq(TrustSessions) /\ Len(sess') = Len(sess) /\ SameSides /\ sess'[s] = r
      /\ \A o \in Sessions : o # s => sess'[o] = sess[o]
  BY <1>3, <1>4, OneSession
<1>6. /\ list' \in [Devices -> [Devices -> Entries]]
      /\ \A x, y \in Devices : list'[x][y] = IF e.in /\ x = d /\ y = q THEN e ELSE list[x][y]
  BY <1>1, <1>2 DEF TrustTypeOK
<1>7. spoilt' \subseteq Devices \X Devices /\ spoilt \subseteq spoilt'
  <2>1. spoilt \subseteq Devices \X Devices BY DEF TrustTypeOK
  <2>2. <<d, q>> \in Devices \X Devices BY <1>1
  <2>3. spoilt' = spoilt \/ spoilt' = spoilt \cup {<<d, q>>} BY <1>2
  <2> QED BY <2>1, <2>2, <2>3
<1>8. TrustTypeOK' BY <1>2, <1>5, <1>6, <1>7 DEF TrustTypeOK
<1>9. TwoSides' BY <1>5, TwoSidesKept
<1>10. TalkOfActive' BY <1>2, <1>5, TalkKept
<1>11. Unused' BY <1>2, <1>5, UnusedKept
<1>12. Grows BY <1>2 DEF Grows
<1>13. SaysSo' BY <1>2, SaysSoKept DEF StandsFor
<1>14. SaidOnce' BY <1>2 DEF SaidOnce
<1>15. SnapsAgreed'
  <2>1. \A o \in Sessions : \A x \in Sides(o) : x \in Devices BY SidesFacts
  <2> QED BY <1>4, <1>5, <1>12, <2>1, SnapsKept
<1>16. WiresAgreed' BY <1>2, <1>5, <1>12, WiresKept
<1>17. HandsAgreed' BY <1>2, <1>5, <1>12, HandsKept
<1>18. ListIsAgreed'
  <2> SUFFICES ASSUME NEW x \in Devices, NEW y \in Devices, list'[x][y].in
               PROVE  /\ y \in said[x] \/ <<x, y>> \in spoilt'
                      /\ Agreed(x, y)
    BY <1>2 DEF ListIsAgreed, Trusts, Agreed
  <2>1. CASE list[x][y].in /\ list'[x][y] = list[x][y]
    BY <1>7, <2>1 DEF ListIsAgreed, Trusts, Agreed
  <2>2. CASE ~(list[x][y].in /\ list'[x][y] = list[x][y])
    <3>1. e.in /\ x = d /\ y = q /\ e # list[d][q] BY <1>6, <2>2
    <3> QED BY <1>1, <1>2, <3>1
  <2> QED BY <2>1, <2>2
<1> QED BY <1>8, <1>9, <1>10, <1>11, <1>13, <1>14, <1>15, <1>16, <1>17, <1>18

-----------------------------------------------------------------------------
(* A session starts.                                                        *)

\* startSession's two changes of the sessions: the new one is on, the old one is off.
LEMMA StartedSessions ==
  ASSUME TrustTypeOK, TwoSides, NEW s \in Sessions, NEW d \in Sides(s), Start(d, s)
  PROVE  /\ sess' \in Seq(TrustSessions) /\ SameSides
         /\ \A o \in Sessions : \A e \in Devices : sess'[o].snap[e].in => sess[o].snap[e].in
<1> DEFINE on == [sess EXCEPT ![s].end[d] = "on"]
           r == [sess[s] EXCEPT !.end[d] = "on"]
           old == active[d]
           z == [on[old] EXCEPT !.end[d] = "off"]
<1>1. sess \in Seq(TrustSessions) /\ s \in 1 .. Len(sess) /\ sess[s] \in TrustSessions /\ d \in Devices
  BY SidesFacts DEF TrustTypeOK, Sessions
<1>2. on = [sess EXCEPT ![s] = r] BY <1>1
<1>3. /\ r \in TrustSessions /\ r.from = sess[s].from /\ r.to = sess[s].to /\ r.snap = sess[s].snap
  BY <1>1 DEF TrustSessions
<1>4. sess' = on \/ (old # 0 /\ old # s /\ sess' = [on EXCEPT ![old].end[d] = "off"]) BY DEF Start
<1> HIDE DEF r, on
<1>5. on \in Seq(TrustSessions) /\ Len(on) = Len(sess)
      /\ \A o \in 1 .. Len(sess) : on[o] = IF o = s THEN r ELSE sess[o]
  BY <1>1, <1>2, <1>3, ExceptSeq
<1>6. CASE sess' = on BY <1>3, <1>5, <1>6 DEF SameSides, Sessions
<1>7. CASE old # 0 /\ old # s /\ sess' = [on EXCEPT ![old].end[d] = "off"]
  <2>1. old \in 1 .. Len(on)
    <3>1. active[d] \in 0 .. Len(sess) /\ Len(sess) \in Nat BY <1>1, LenProperties DEF TrustTypeOK
    <3> QED BY <1>5, <1>7, <3>1
  <2>2. on[old] \in TrustSessions BY <1>5, <2>1, ElementOfSeq
  <2>3. z \in TrustSessions /\ z.from = on[old].from /\ z.to = on[old].to /\ z.snap = on[old].snap
    BY <2>2 DEF TrustSessions
  <2>4. sess' = [on EXCEPT ![old] = z] BY <1>7
  <2> HIDE DEF z, old
  <2>5. sess' \in Seq(TrustSessions) /\ Len(sess') = Len(on)
        /\ \A o \in 1 .. Len(on) : sess'[o] = IF o = old THEN z ELSE on[o]
    BY <1>5, <2>1, <2>3, <2>4, ExceptSeq
  <2>6. ASSUME NEW o \in Sessions
        PROVE  /\ sess'[o].from = sess[o].from /\ sess'[o].to = sess[o].to
               /\ \A e \in Devices : sess'[o].snap[e].in => sess[o].snap[e].in
    <3>1. o \in 1 .. Len(on) /\ o \in 1 .. Len(sess) BY <1>5 DEF Sessions
    <3>2. sess'[o].from = on[o].from /\ sess'[o].to = on[o].to /\ sess'[o].snap = on[o].snap
      BY <2>3, <2>5, <3>1
    <3> QED BY <1>3, <1>5, <3>1, <3>2
  <2> QED BY <1>5, <2>5, <2>6 DEF SameSides
<1> QED BY <1>4, <1>6, <1>7

LEMMA StartKeeps ==
  ASSUME TrustIInv, NEW s \in Sessions, NEW d \in Sides(s), Start(d, s)
  PROVE  TrustIInv'
<1> DEFINE q == Other(s, d)
           old == active[d]
<1> USE DEF TrustIInv
<1>1. /\ s \in 1 .. MaxSessions /\ sess[s] \in TrustSessions
      /\ d \in Devices /\ q \in Devices /\ q # d
  BY SidesFacts
<1>2. /\ wire' = IF old # 0 /\ old # s THEN [wire EXCEPT ![old][d] = <<>>] ELSE wire
      /\ active' = [active EXCEPT ![d] = s]
      /\ talk' = [talk EXCEPT ![d] = NewTalk(q)]
      /\ UNCHANGED <<list, hand, offers, said, ever, owed, spoilt, astray, count>>
  BY DEF Start, ghosts
<1>3. sess' \in Seq(TrustSessions) /\ SameSides
      /\ \A o \in Sessions : \A x \in Devices : sess'[o].snap[x].in => sess[o].snap[x].in
  BY StartedSessions
<1>4. Len(sess') = Len(sess) /\ Len(sess) \in Nat /\ s \in 0 .. Len(sess) /\ Sessions' = Sessions
  <2>1. Len(sess) \in Nat BY LenProperties DEF TrustTypeOK
  <2> QED BY <1>3, <2>1, SessionsKept DEF SameSides, Sessions
<1> HIDE DEF q
<1>5. /\ active' \in [Devices -> 0 .. Len(sess)] /\ active'[d] = s
      /\ \A x \in Devices : x # d => active'[x] = active[x]
  BY <1>1, <1>2, <1>4 DEF TrustTypeOK
<1>6. /\ talk' \in [Devices -> TrustTalks] /\ talk'[d] = NewTalk(q)
      /\ \A x \in Devices : x # d => talk'[x] = talk[x]
  <2>1. NewTalk(q) \in TrustTalks BY <1>1 DEF NewTalk, NoKey, TrustTalks, TagKeys
  <2> QED BY <1>1, <1>2, <2>1, TalkStep
<1>7. /\ wire' \in [1 .. MaxSessions -> [Devices -> Seq(TrustMsgs)]]
      /\ \A o \in 1 .. MaxSessions, x \in Devices : wire'[o][x] = wire[o][x] \/ wire'[o][x] = <<>>
      /\ \A o \in 1 .. MaxSessions \ Sessions : wire'[o] = wire[o]
  <2>1. wire \in [1 .. MaxSessions -> [Devices -> Seq(TrustMsgs)]] BY DEF TrustTypeOK
  <2>2. CASE old # 0 /\ old # s
    <3>1. old \in Sessions BY <1>1, <2>2, ActiveFacts
    <3>2. old \in 1 .. MaxSessions BY <3>1, SidesFacts
    <3>3. wire' = [wire EXCEPT ![old][d] = <<>>] BY <1>2, <2>2
    <3>4. <<>> \in Seq(TrustMsgs) BY EmptySeq
    <3> HIDE DEF old
    <3> QED BY <1>1, <2>1, <3>1, <3>2, <3>3, <3>4
  <2>3. CASE ~(old # 0 /\ old # s) BY <1>2, <2>1, <2>3
  <2> QED BY <2>2, <2>3
<1>8. TrustTypeOK' BY <1>2, <1>3, <1>4, <1>5, <1>6, <1>7 DEF TrustTypeOK
<1>9. TwoSides' BY <1>3, TwoSidesKept
<1>10. TalkOfActive'
  <2> SUFFICES ASSUME NEW x \in Devices, active'[x] # 0
               PROVE  x \in Sides(active[x])' /\ talk'[x].peer = Other(active[x], x)'
    BY DEF TalkOfActive
  <2>1. CASE x = d
    <3>1. Sides(active[x])' = Sides(s)' /\ Other(active[x], x)' = Other(s, x)' BY <1>5, <2>1 DEF Sides, Other
    <3>2. Sides(s)' = Sides(s) /\ Other(s, d)' = Other(s, d) BY <1>1, <1>3, SidesKept
    <3>3. talk'[x].peer = q BY <1>6, <2>1 DEF NewTalk
    <3> QED BY <2>1, <3>1, <3>2, <3>3 DEF q
  <2>2. CASE x # d
    <3>1. active'[x] = active[x] /\ talk'[x] = talk[x] /\ active[x] # 0 BY <1>5, <1>6, <2>2
    <3>2. PICK o \in Sessions : o = active[x] BY <3>1, ActiveFacts
    <3>3. x \in Sides(o) /\ talk[x].peer = Other(o, x) BY <3>1, <3>2 DEF TalkOfActive
    <3>4. Sides(o)' = Sides(o) /\ Other(o, x)' = Other(o, x) BY <1>3, SidesKept
    <3>5. Sides(active[x])' = Sides(o)' /\ Other(active[x], x)' = Other(o, x)' BY <3>1, <3>2 DEF Sides, Other
    <3> QED BY <3>1, <3>3, <3>4, <3>5
  <2> QED BY <2>1, <2>2
<1>11. Unused' BY <1>2, <1>3, <1>7, UnusedKept
<1>12. Grows BY <1>2 DEF Grows
<1>13. SaysSo' BY <1>2, <1>5, <1>6, SaysSoKept DEF StandsFor, NewTalk
<1>14. SaidOnce' BY <1>2 DEF SaidOnce
<1>15. SnapsAgreed'
  <2>1. \A o \in Sessions : \A x \in Sides(o) : x \in Devices BY SidesFacts
  <2> QED BY <1>3, <1>12, <2>1, SnapsKept
<1>16. WiresAgreed'
  <2> SUFFICES ASSUME NEW o \in Sessions, NEW x \in Sides(o), NEW i \in 1 .. Len(wire'[o][x])
               PROVE  \E j \in 1 .. Len(wire[o][x]) : wire'[o][x][i] = wire[o][x][j]
    BY <1>3, <1>12, WiresKept
  <2>1. o \in 1 .. MaxSessions /\ x \in Devices BY SidesFacts
  <2>2. wire'[o][x] = wire[o][x] \/ wire'[o][x] = <<>> BY <1>7, <2>1
  <2>3. CASE wire'[o][x] = <<>>
    <3>1. Len(wire'[o][x]) = 0 BY <2>3, EmptySeq
    <3> QED BY <3>1
  <2> QED BY <2>2, <2>3
<1>17. HandsAgreed' BY <1>2, <1>3, <1>12, HandsKept
<1>18. ListIsAgreed' BY <1>2 DEF ListIsAgreed, Trusts
<1> QED BY <1>8, <1>9, <1>10, <1>11, <1>13, <1>14, <1>15, <1>16, <1>17, <1>18

-----------------------------------------------------------------------------
(* A message is read and handled, and answered.                             *)

\* A step of one goroutine.
LEMMA HandStep ==
  ASSUME TrustTypeOK, NEW s \in 1 .. MaxSessions, NEW d \in Devices, NEW h \in Hands,
         hand' = [hand EXCEPT ![s][d] = h]
  PROVE  /\ hand' \in [1 .. MaxSessions -> [Devices -> Hands]] /\ hand'[s][d] = h
         /\ \A o \in 1 .. MaxSessions : o # s => hand'[o] = hand[o]
         /\ \A e \in Devices : e # d => hand'[s][e] = hand[s][e]
BY DEF TrustTypeOK

LEMMA ReadsKeeps ==
  ASSUME TrustIInv, NEW s \in Sessions, NEW d \in Sides(s), Reads(d, s)
  PROVE  TrustIInv'
<1> DEFINE m == Head(wire[s][d])
           h == [Idle EXCEPT !.at = "read", !.type = m.type, !.key = m.key]
           rest == Tail(wire[s][d])
<1> USE DEF TrustIInv
<1>1. s \in 1 .. MaxSessions /\ d \in Devices BY SidesFacts
<1>2. /\ wire[s][d] # <<>>
      /\ hand' = [hand EXCEPT ![s][d] = h]
      /\ wire' = [wire EXCEPT ![s][d] = rest]
      /\ UNCHANGED <<list, active, talk, sess, offers, ghosts, count>>
  BY DEF Reads
<1>3. /\ m \in TrustMsgs /\ rest \in Seq(TrustMsgs)
      /\ 1 \in 1 .. Len(wire[s][d]) /\ m = wire[s][d][1]
      /\ \A i \in 1 .. Len(rest) : rest[i] = wire[s][d][i + 1] /\ i + 1 \in 1 .. Len(wire[s][d])
  <2>1. wire[s][d] \in Seq(TrustMsgs) BY <1>1 DEF TrustTypeOK
  <2>2. /\ m \in TrustMsgs /\ rest \in Seq(TrustMsgs) /\ m = wire[s][d][1]
        /\ Len(rest) = Len(wire[s][d]) - 1
        /\ \A i \in 1 .. Len(rest) : rest[i] = wire[s][d][i + 1]
    BY <1>2, <2>1, HeadTailProperties
  <2>3. Len(wire[s][d]) \in Nat /\ Len(wire[s][d]) # 0 BY <1>2, <2>1, EmptySeq, LenProperties
  <2> QED BY <2>2, <2>3
<1>4. h \in Hands /\ h.at = "read" /\ h.type = m.type
  BY <1>3 DEF TrustMsgs, Hands, Idle, NoKey, TagKeys
<1> HIDE DEF h, rest, m
<1>5. /\ hand' \in [1 .. MaxSessions -> [Devices -> Hands]] /\ hand'[s][d] = h
      /\ \A o \in 1 .. MaxSessions : o # s => hand'[o] = hand[o]
      /\ \A e \in Devices : e # d => hand'[s][e] = hand[s][e]
  BY <1>1, <1>2, <1>4, HandStep
<1>6. /\ wire' \in [1 .. MaxSessions -> [Devices -> Seq(TrustMsgs)]] /\ wire'[s][d] = rest
      /\ \A o \in 1 .. MaxSessions : o # s => wire'[o] = wire[o]
      /\ \A e \in Devices : e # d => wire'[s][e] = wire[s][e]
  BY <1>1, <1>2, <1>3 DEF TrustTypeOK
<1>7. SameSides BY <1>2, SameSessions
<1>8. TrustTypeOK' BY <1>2, <1>5, <1>6 DEF TrustTypeOK, ghosts
<1>9. TwoSides' BY <1>7, TwoSidesKept
<1>10. TalkOfActive' BY <1>2, <1>7, TalkKept
<1>11. Unused' BY <1>5, <1>6, <1>7, UnusedKept
<1>12. Grows BY <1>2 DEF Grows, ghosts
<1>13. SaysSo' BY <1>2, SaysSoKept DEF StandsFor, ghosts
<1>14. SaidOnce' BY <1>2 DEF SaidOnce, ghosts
<1>15. SnapsAgreed' BY <1>2, <1>7, <1>12, SnapsKept
<1>16. WiresAgreed'
  <2> SUFFICES ASSUME NEW o \in Sessions, NEW e \in Sides(o), NEW i \in 1 .. Len(wire'[o][e])
               PROVE  \E j \in 1 .. Len(wire[o][e]) : wire'[o][e][i] = wire[o][e][j]
    BY <1>7, <1>12, WiresKept
  <2>1. o \in 1 .. MaxSessions /\ e \in Devices BY SidesFacts
  <2>2. CASE o = s /\ e = d BY <1>3, <1>6, <2>2
  <2>3. CASE ~(o = s /\ e = d)
    <3>1. wire'[o][e] = wire[o][e] BY <1>6, <2>1, <2>3
    <3> QED BY <3>1
  <2> QED BY <2>2, <2>3
<1>17. HandsAgreed'
  <2> SUFFICES ASSUME NEW o \in Sessions, NEW e \in Sides(o)
               PROVE  \/ hand'[o][e] = hand[o][e]
                      \/ hand'[o][e].at = "read" /\ (Yes(hand'[o][e]) => e \in ever'[Other(o, e)])
    BY <1>7, <1>12, HandsKept
  <2>1. o \in 1 .. MaxSessions /\ e \in Devices BY SidesFacts
  <2>2. CASE o = s /\ e = d
    <3>1. Yes(h) => d \in ever[Other(s, d)]
      <4>1. Yes(h) => Yes(wire[s][d][1]) BY <1>3, <1>4 DEF Yes
      <4> QED BY <1>3, <4>1 DEF WiresAgreed
    <3> QED BY <1>2, <1>4, <1>5, <2>2, <3>1 DEF ghosts
  <2>3. CASE ~(o = s /\ e = d) BY <1>5, <2>1, <2>3
  <2> QED BY <2>2, <2>3
<1>18. ListIsAgreed' BY <1>2 DEF ListIsAgreed, Trusts, ghosts
<1> QED BY <1>8, <1>9, <1>10, <1>11, <1>13, <1>14, <1>15, <1>16, <1>17, <1>18

\* A reply is a yes to the other side of the active session, to which this one's user agreed.
LEMMA ReplyingFacts ==
  ASSUME TrustIInv, NEW d \in Devices, NEW key \in TagKeys, NEW reply \in {"none", "accept", "commit"},
         reply # "none" => active[d] # 0 /\ StandsFor(d)
  PROVE  /\ Replying(d, reply, key) \in Hands
         /\ \/ Replying(d, reply, key).at = "idle"
            \/ /\ Replying(d, reply, key).at = "reply" /\ Yes(Replying(d, reply, key))
               /\ Replying(d, reply, key).on \in Sessions /\ d \in Sides(Replying(d, reply, key).on)
               /\ Other(Replying(d, reply, key).on, d) \in ever[d]
<1> USE DEF TrustIInv
<1>1. Idle \in Hands /\ Idle.at = "idle" BY DEF Idle, Hands, NoKey, TagKeys
<1>2. CASE reply = "none" BY <1>1, <1>2 DEF Replying
<1>3. CASE reply # "none"
  <2>1. /\ active[d] \in Sessions /\ d \in Sides(active[d]) /\ talk[d].peer = Other(active[d], d)
    BY <1>3, ActiveFacts
  <2>2. talk[d].peer \in ever[d] BY <1>3 DEF SaysSo, SaidOnce
  <2>3. active[d] \in Nat BY <2>1 DEF Sessions
  <2>4. PICK r : r = [at |-> "reply", type |-> reply, key |-> key, on |-> active[d]] OBVIOUS
  <2>5. Replying(d, reply, key) = r BY <1>3, <2>4 DEF Replying
  <2>6. r \in Hands BY <1>3, <2>3, <2>4 DEF Hands, TrustTypes
  <2>7. r.at = "reply" /\ r.on = active[d] /\ Yes(r) BY <1>3, <2>4 DEF Yes
  <2> QED BY <2>1, <2>2, <2>5, <2>6, <2>7
<1> QED BY <1>2, <1>3

\* What handling leaves alone, writing or not.
LEMMA HandledKeeps ==
  ASSUME TrustIInv, NEW s \in Sessions, NEW d \in Sides(s), NEW t \in TrustTalks, NEW h \in Hands,
         t.peer = talk[d].peer,
         active[d] # 0 /\ (t.offered # 0 \/ t.accepted) => StandsFor(d),
         \/ h.at = "idle"
         \/ /\ h.at = "reply" /\ Yes(h) /\ h.on \in Sessions /\ d \in Sides(h.on)
            /\ Other(h.on, d) \in ever[d],
         talk' = [talk EXCEPT ![d] = t], hand' = [hand EXCEPT ![s][d] = h],
         list' \in [Devices -> [Devices -> Entries]], owed' \subseteq TagKeys,
         spoilt' \subseteq Devices \X Devices,
         astray \subseteq astray', astray' \subseteq Devices \X Devices \X Devices,
         count' \in [forgets : 0 .. Forgets, faults : 0 .. MaxFaults],
         UNCHANGED <<active, sess, wire, offers, said, ever>>
  PROVE  /\ TrustTypeOK' /\ TwoSides' /\ TalkOfActive' /\ Unused'
         /\ SaysSo' /\ SaidOnce' /\ SnapsAgreed' /\ WiresAgreed' /\ HandsAgreed'
<1> USE DEF TrustIInv
<1>1. s \in 1 .. MaxSessions /\ d \in Devices BY SidesFacts
<1>2. /\ hand' \in [1 .. MaxSessions -> [Devices -> Hands]] /\ hand'[s][d] = h
      /\ \A o \in 1 .. MaxSessions : o # s => hand'[o] = hand[o]
      /\ \A e \in Devices : e # d => hand'[s][e] = hand[s][e]
  <2>1. TrustTypeOK /\ hand' = [hand EXCEPT ![s][d] = h] OBVIOUS
  <2>2. hand \in [1 .. MaxSessions -> [Devices -> Hands]] BY DEF TrustTypeOK
  <2> QED BY ONLY <1>1, <2>1, <2>2, h \in Hands
<1>3. /\ talk' \in [Devices -> TrustTalks] /\ talk'[d] = t
      /\ \A e \in Devices : e # d => talk'[e] = talk[e]
  BY <1>1, TalkStep
<1>4. SameSides BY SameSessions
<1>5. TrustTypeOK' BY <1>2, <1>3 DEF TrustTypeOK
<1>6. TwoSides' BY <1>4, TwoSidesKept
<1>7. TalkOfActive' BY <1>3, <1>4, TalkKept
<1>8. Unused' BY <1>2, <1>4, UnusedKept
<1>9. Grows BY DEF Grows
<1>10. SaysSo' BY <1>3, SaysSoKept DEF StandsFor
<1>11. SaidOnce' BY DEF SaidOnce
<1>12. SnapsAgreed' BY <1>4, <1>9, SnapsKept
<1>13. WiresAgreed' BY <1>4, <1>9, WiresKept
<1>14. HandsAgreed'
  <2> SUFFICES ASSUME NEW o \in Sessions, NEW e \in Sides(o)
               PROVE  \/ hand'[o][e] = hand[o][e]
                      \/ hand'[o][e].at = "idle"
                      \/ /\ hand'[o][e].at = "reply" /\ Yes(hand'[o][e])
                         /\ hand'[o][e].on \in Sessions /\ e \in Sides(hand'[o][e].on)
                         /\ Other(hand'[o][e].on, e) \in ever'[e]
    BY <1>4, <1>9, HandsKept
  <2>1. o \in 1 .. MaxSessions /\ e \in Devices BY SidesFacts
  <2>2. CASE o = s /\ e = d BY <1>2, <2>2
  <2>3. CASE ~(o = s /\ e = d) BY <1>2, <2>1, <2>3
  <2> QED BY <2>2, <2>3
<1> QED BY <1>5, <1>6, <1>7, <1>8, <1>10, <1>11, <1>12, <1>13, <1>14

LEMMA SaysKeeps ==
  ASSUME TrustIInv, NEW s \in Sessions, NEW d \in Sides(s), NEW t \in TrustTalks,
         NEW reply \in {"none", "accept", "commit"},
         t.peer = talk[d].peer,
         active[d] # 0 /\ (t.offered # 0 \/ t.accepted) => StandsFor(d),
         reply # "none" => active[d] # 0 /\ StandsFor(d),
         Says(d, s, t, reply), UNCHANGED <<active, sess, wire, offers, said, ever>>
  PROVE  TrustIInv'
<1> USE DEF TrustIInv
<1>1. d \in Devices BY SidesFacts
<1>2. NoKey \in TagKeys BY DEF NoKey, TagKeys
<1>3. PICK h : h = Replying(d, reply, NoKey) OBVIOUS
<1>4. /\ h \in Hands
      /\ \/ h.at = "idle"
         \/ /\ h.at = "reply" /\ Yes(h) /\ h.on \in Sessions /\ d \in Sides(h.on)
            /\ Other(h.on, d) \in ever[d]
  BY <1>1, <1>2, <1>3, ReplyingFacts
<1>5. /\ talk' = [talk EXCEPT ![d] = t] /\ hand' = [hand EXCEPT ![s][d] = h]
      /\ UNCHANGED <<list, owed, spoilt, astray, count>>
  BY <1>3 DEF Says
<1>6. /\ list \in [Devices -> [Devices -> Entries]] /\ owed \subseteq TagKeys
      /\ spoilt \subseteq Devices \X Devices /\ astray \subseteq Devices \X Devices \X Devices
      /\ count \in [forgets : 0 .. Forgets, faults : 0 .. MaxFaults]
  BY DEF TrustTypeOK
<1>7. /\ TrustTypeOK' /\ TwoSides' /\ TalkOfActive' /\ Unused'
      /\ SaysSo' /\ SaidOnce' /\ SnapsAgreed' /\ WiresAgreed' /\ HandsAgreed'
  BY <1>4, <1>5, <1>6, HandledKeeps
<1>8. ListIsAgreed' BY <1>5 DEF ListIsAgreed, Trusts
<1> QED BY <1>7, <1>8

LEMMA WritesKeeps ==
  ASSUME TrustIInv, NEW s \in Sessions, NEW d \in Sides(s), NEW t \in TrustTalks,
         NEW reply \in {"none", "commit"}, NEW key \in TagKeys,
         t.peer = talk[d].peer,
         t.offered # 0 \/ t.accepted => StandsFor(d),
         active[d] # 0, StandsFor(d), d \in ever[Other(s, d)],
         Writes(d, s, t, reply, key), UNCHANGED <<active, sess, wire, offers, said, ever>>
  PROVE  TrustIInv'
<1> DEFINE q == talk[d].peer
           e == [in |-> TRUE, key |-> t.key]
<1> USE DEF TrustIInv
<1>1. d \in Devices /\ Other(s, d) \in Devices BY SidesFacts
<1>2. q \in Devices /\ q = Other(active[d], d) BY <1>1, ActiveFacts
<1>3. PICK ok \in BOOLEAN :
        /\ ok \/ Fault("save")
        /\ list' = IF ok THEN [list EXCEPT ![d][q] = e] ELSE list
        /\ talk' = [talk EXCEPT ![d] = t]
        /\ hand' = [hand EXCEPT ![s][d] = IF ok THEN Replying(d, reply, key) ELSE Idle]
        /\ owed' = IF reply = "commit" THEN owed \cup {key} ELSE IF ok /\ s = active[d] THEN owed \ {key} ELSE owed
        /\ spoilt' = IF ok THEN spoilt \ {<<d, q>>} ELSE spoilt
        /\ astray' = IF ok /\ s # active[d] THEN astray \cup {<<d, q, Other(s, d)>>} ELSE astray
        /\ count' = Counted(ok)
  BY DEF Writes, Saves
<1>4. PICK h : h = IF ok THEN Replying(d, reply, key) ELSE Idle OBVIOUS
<1>5. /\ h \in Hands
      /\ \/ h.at = "idle"
         \/ /\ h.at = "reply" /\ Yes(h) /\ h.on \in Sessions /\ d \in Sides(h.on)
            /\ Other(h.on, d) \in ever[d]
  <2>1. CASE ok
    <3>1. h = Replying(d, reply, key) BY <1>4, <2>1
    <3> QED BY <1>1, <3>1, ReplyingFacts
  <2>2. CASE ~ok
    <3>1. h = Idle BY <1>4, <2>2
    <3> QED BY <3>1 DEF Idle, Hands, NoKey, TagKeys
  <2> QED BY <2>1, <2>2
<1>6. e \in Entries /\ e.in BY DEF Entries, TrustTalks
<1> HIDE DEF q, e
<1>7. /\ list' \in [Devices -> [Devices -> Entries]]
      /\ \A x, y \in Devices : ~(ok /\ x = d /\ y = q) => list'[x][y] = list[x][y]
  BY <1>1, <1>2, <1>3, <1>6 DEF TrustTypeOK
<1>8. owed' \subseteq TagKeys BY <1>3 DEF TrustTypeOK
<1>9. /\ spoilt' \subseteq Devices \X Devices
      /\ \A x, y \in Devices : <<x, y>> \in spoilt /\ ~(ok /\ x = d /\ y = q) => <<x, y>> \in spoilt'
  BY <1>3 DEF TrustTypeOK
<1>10. /\ astray \subseteq astray' /\ astray' \subseteq Devices \X Devices \X Devices
       /\ ok /\ s # active[d] => <<d, q, Other(s, d)>> \in astray'
  <2>1. astray \subseteq Devices \X Devices \X Devices BY DEF TrustTypeOK
  <2>2. <<d, q, Other(s, d)>> \in Devices \X Devices \X Devices BY <1>1, <1>2
  <2>3. CASE ok /\ s # active[d]
    <3>1. astray' = astray \cup {<<d, q, Other(s, d)>>} BY <1>3, <2>3
    <3> QED BY <2>1, <2>2, <3>1
  <2>4. CASE ~(ok /\ s # active[d])
    <3>1. astray' = astray BY <1>3, <2>4
    <3> QED BY <2>1, <2>4, <3>1
  <2> QED BY <2>3, <2>4
<1>11. count' \in [forgets : 0 .. Forgets, faults : 0 .. MaxFaults]
  BY <1>3, FaultCounted DEF Counted, TrustTypeOK
<1>12. /\ TrustTypeOK' /\ TwoSides' /\ TalkOfActive' /\ Unused'
       /\ SaysSo' /\ SaidOnce' /\ SnapsAgreed' /\ WiresAgreed' /\ HandsAgreed'
  <2>1. talk' = [talk EXCEPT ![d] = t] /\ hand' = [hand EXCEPT ![s][d] = h] BY <1>3, <1>4
  <2> QED BY <1>5, <1>7, <1>8, <1>9, <1>10, <1>11, <2>1, HandledKeeps
<1>13. ListIsAgreed'
  <2> SUFFICES ASSUME NEW x \in Devices, NEW y \in Devices, list'[x][y].in
               PROVE  /\ y \in said[x] \/ <<x, y>> \in spoilt'
                      /\ x \in ever[y] \/ \E r \in Devices \ {y} : <<x, y, r>> \in astray'
    BY DEF ListIsAgreed, Trusts
  <2>1. CASE ok /\ x = d /\ y = q
    <3>1. q \in said[d] BY <1>1 DEF SaysSo, q
    <3>2. CASE Other(s, d) = q BY <2>1, <3>1, <3>2
    <3>3. CASE Other(s, d) # q
      <4>1. s # active[d] BY <1>2, <3>3
      <4>2. <<d, q, Other(s, d)>> \in astray' BY <1>10, <2>1, <4>1
      <4> QED BY <1>1, <2>1, <3>1, <3>3, <4>2
    <3> QED BY <3>2, <3>3
  <2>2. CASE ~(ok /\ x = d /\ y = q)
    <3>1. Trusts(x, y) BY <1>7, <2>2 DEF Trusts
    <3>2. /\ y \in said[x] \/ <<x, y>> \in spoilt
          /\ x \in ever[y] \/ \E r \in Devices \ {y} : <<x, y, r>> \in astray
      BY <3>1 DEF ListIsAgreed
    <3> QED BY <1>9, <1>10, <2>2, <3>2
  <2> QED BY <2>1, <2>2
<1> QED BY <1>12, <1>13

LEMMA KeptIsKey ==
  ASSUME NEW t \in TrustTalks, NEW key \in TagKeys
  PROVE  KeptTagKey(t, key) \in TagKeys
BY DEF KeptTagKey, TrustTalks

LEMMA HandleKeeps ==
  ASSUME TrustIInv, NEW s \in Sessions, NEW d \in Sides(s), Handle(d, s)
  PROVE  TrustIInv'
<1> DEFINE m == hand[s][d]
           t == talk[d]
           own == [n |-> t.offered, by |-> d]
<1> USE DEF TrustIInv
<1>1. d \in Devices /\ s \in 1 .. MaxSessions BY SidesFacts
<1>2. m \in Hands /\ m.key \in TagKeys BY <1>1 DEF TrustTypeOK, Hands
<1>3. t \in TrustTalks /\ own \in TagKeys
  BY <1>1 DEF TrustTypeOK, TrustTalks, TagKeys
<1>4. m.at = "read" /\ UNCHANGED <<active, sess, wire, offers, said, ever>> BY DEF Handle
<1>5. Yes(m) => d \in ever[Other(s, d)] BY <1>4 DEF HandsAgreed
<1>6. PICK yes \in BOOLEAN, no \in BOOLEAN : yes = TRUE /\ no = FALSE OBVIOUS
<1>7. "none" \in {"none", "accept", "commit"} /\ "accept" \in {"none", "accept", "commit"} OBVIOUS
<1>8. \/ Says(d, s, t, "none")
      \/ t.offered # 0 /\ active[d] # 0 /\ Says(d, s, [t EXCEPT !.accepted = TRUE], "accept")
      \/ Says(d, s, [t EXCEPT !.asked = TRUE], "none")
      \/ /\ m.type = "accept" /\ t.offered # 0 /\ active[d] # 0
         /\ Writes(d, s, [t EXCEPT !.offered = 0, !.key = KeptTagKey(t, own)], "commit", own)
      \/ Says(d, s, [t EXCEPT !.offered = 0], "none")
      \/ /\ m.type = "commit" /\ t.accepted /\ active[d] # 0
         /\ Writes(d, s, [t EXCEPT !.accepted = FALSE, !.key = KeptTagKey(t, m.key)], "none", m.key)
  BY DEF Handle, SaidYes
<1> HIDE DEF m, own
<1>9. CASE Says(d, s, t, "none")
  <2>1. active[d] # 0 /\ (t.offered # 0 \/ t.accepted) => StandsFor(d) BY DEF StandsFor
  <2> QED BY <1>3, <1>4, <1>7, <1>9, <2>1, SaysKeeps
<1>10. CASE t.offered # 0 /\ active[d] # 0 /\ Says(d, s, [t EXCEPT !.accepted = TRUE], "accept")
  <2>1. PICK u : u = [t EXCEPT !.accepted = yes] OBVIOUS
  <2>2. u \in TrustTalks /\ u.peer = t.peer
    <3>1. t \in TrustTalks BY <1>3
    <3>2. yes \in BOOLEAN BY <1>6
    <3> QED BY ONLY <2>1, <3>1, <3>2, TalkAccepts
  <2>3. Says(d, s, u, "accept") BY <1>6, <1>10, <2>1
  <2>4. StandsFor(d) BY <1>10 DEF StandsFor
  <2> QED BY <1>4, <1>7, <1>10, <2>2, <2>3, <2>4, SaysKeeps
<1>11. CASE Says(d, s, [t EXCEPT !.asked = TRUE], "none")
  <2>1. PICK u : u = [t EXCEPT !.asked = yes] OBVIOUS
  <2>2. u \in TrustTalks /\ u.peer = t.peer /\ u.offered = t.offered /\ u.accepted = t.accepted
    BY ONLY yes \in BOOLEAN, <1>3, <2>1, TalkAsked
  <2>3. Says(d, s, u, "none") BY <1>6, <1>11, <2>1
  <2>4. active[d] # 0 /\ (u.offered # 0 \/ u.accepted) => StandsFor(d) BY <2>2 DEF StandsFor
  <2> QED BY <1>4, <1>7, <2>2, <2>3, <2>4, SaysKeeps
<1>12. CASE /\ m.type = "accept" /\ t.offered # 0 /\ active[d] # 0
            /\ Writes(d, s, [t EXCEPT !.offered = 0, !.key = KeptTagKey(t, own)], "commit", own)
  <2>1. PICK k : k = KeptTagKey(t, own) OBVIOUS
  <2>2. k \in TagKeys BY <1>3, <2>1, KeptIsKey
  <2>3. PICK v : v = [t EXCEPT !.offered = 0] OBVIOUS
  <2>4. v \in TrustTalks /\ v.peer = t.peer BY <1>3, <2>3, TalkOffers
  <2>5. PICK u : u = [v EXCEPT !.key = k] OBVIOUS
  <2>6. u \in TrustTalks /\ u.peer = v.peer BY <2>2, <2>4, <2>5, TalkKeys
  <2>7. Writes(d, s, u, "commit", own) BY <1>12, <2>1, <2>3, <2>5
  <2>8. StandsFor(d) /\ Yes(m) BY <1>12 DEF StandsFor, Yes
  <2> QED BY <1>3, <1>4, <1>5, <1>12, <2>4, <2>6, <2>7, <2>8, WritesKeeps
<1>13. CASE Says(d, s, [t EXCEPT !.offered = 0], "none")
  <2>1. PICK u : u = [t EXCEPT !.offered = 0] OBVIOUS
  <2>2. u \in TrustTalks /\ u.peer = t.peer /\ u.offered = 0 /\ u.accepted = t.accepted
    BY <1>3, <2>1, TalkOffers
  <2>3. Says(d, s, u, "none") BY <1>13, <2>1
  <2>4. active[d] # 0 /\ (u.offered # 0 \/ u.accepted) => StandsFor(d) BY <2>2 DEF StandsFor
  <2> QED BY <1>4, <1>7, <2>2, <2>3, <2>4, SaysKeeps
<1>14. CASE /\ m.type = "commit" /\ t.accepted /\ active[d] # 0
            /\ Writes(d, s, [t EXCEPT !.accepted = FALSE, !.key = KeptTagKey(t, m.key)], "none", m.key)
  <2>1. PICK k : k = KeptTagKey(t, m.key) OBVIOUS
  <2>2. k \in TagKeys BY <1>2, <1>3, <2>1, KeptIsKey
  <2>3. PICK v : v = [t EXCEPT !.accepted = no] OBVIOUS
  <2>4. v \in TrustTalks /\ v.peer = t.peer BY <1>3, <1>6, <2>3, TalkAccepts
  <2>5. PICK u : u = [v EXCEPT !.key = k] OBVIOUS
  <2>6. u \in TrustTalks /\ u.peer = v.peer BY <2>2, <2>4, <2>5, TalkKeys
  <2>7. Writes(d, s, u, "none", m.key) BY <1>6, <1>14, <2>1, <2>3, <2>5
  <2>8. StandsFor(d) /\ Yes(m) BY <1>14 DEF StandsFor, Yes
  <2>9. PICK k2 \in TagKeys : k2 = m.key BY <1>2
  <2>10. Writes(d, s, u, "none", k2) BY <2>7, <2>9
  <2> QED BY <1>4, <1>5, <1>14, <2>4, <2>6, <2>8, <2>10, WritesKeeps
<1> QED BY <1>8, <1>9, <1>10, <1>11, <1>12, <1>13, <1>14

LEMMA ReplyKeeps ==
  ASSUME TrustIInv, NEW s \in Sessions, NEW d \in Sides(s), Reply(d, s)
  PROVE  TrustIInv'
<1> DEFINE h == hand[s][d]
           m == Msg(h.type, h.key)
<1> USE DEF TrustIInv
<1>1. s \in 1 .. MaxSessions /\ d \in Devices BY SidesFacts
<1>2. /\ h.at = "reply" /\ wire' = Sent(wire, d, h.on, m) /\ hand' = [hand EXCEPT ![s][d] = Idle]
      /\ UNCHANGED <<list, active, talk, sess, offers, ghosts, count>>
  BY DEF Reply
<1>3. Yes(h) /\ h.on \in Sessions /\ d \in Sides(h.on) /\ Other(h.on, d) \in ever[d]
  BY <1>2 DEF HandsAgreed
<1>4. m \in TrustMsgs
  <2>1. h \in Hands BY <1>1 DEF TrustTypeOK
  <2>2. h.key \in TagKeys BY <2>1 DEF Hands
  <2>3. h.type \in TrustTypes BY <1>3 DEF Yes, TrustTypes
  <2> QED BY <2>2, <2>3 DEF Msg, TrustMsgs
<1>5. PICK o \in Sessions : o = h.on BY <1>3
<1>6. d \in Sides(o) /\ Other(o, d) \in ever[d] /\ wire' = Sent(wire, d, o, m) BY <1>2, <1>3, <1>5
<1> HIDE DEF m, h
<1>7. /\ hand' \in [1 .. MaxSessions -> [Devices -> Hands]] /\ hand'[s][d] = Idle
      /\ \A x \in 1 .. MaxSessions : x # s => hand'[x] = hand[x]
      /\ \A e \in Devices : e # d => hand'[s][e] = hand[s][e]
  <2>1. Idle \in Hands BY DEF Idle, Hands, NoKey, TagKeys
  <2> QED BY <1>1, <1>2, <2>1, HandStep
<1>8. /\ wire' \in [1 .. MaxSessions -> [Devices -> Seq(TrustMsgs)]]
      /\ \A x \in 1 .. MaxSessions : x # o => wire'[x] = wire[x]
  BY <1>4, <1>6, SentFacts
<1>9. SameSides BY <1>2, SameSessions
<1>10. TrustTypeOK' BY <1>2, <1>7, <1>8 DEF TrustTypeOK, ghosts
<1>11. TwoSides' BY <1>9, TwoSidesKept
<1>12. TalkOfActive' BY <1>2, <1>9, TalkKept
<1>13. Unused' BY <1>7, <1>8, <1>9, UnusedKept
<1>14. Grows BY <1>2 DEF Grows, ghosts
<1>15. SaysSo' BY <1>2, SaysSoKept DEF StandsFor, ghosts
<1>16. SaidOnce' BY <1>2 DEF SaidOnce, ghosts
<1>17. SnapsAgreed' BY <1>2, <1>9, <1>14, SnapsKept
<1>18. WiresAgreed'
  <2>1. Other(o, d) \in ever'[d] BY <1>2, <1>6 DEF ghosts
  <2> QED BY <1>4, <1>6, <1>9, <1>14, <2>1, SentAgreed
<1>19. HandsAgreed'
  <2> SUFFICES ASSUME NEW x \in Sessions, NEW e \in Sides(x)
               PROVE  hand'[x][e] = hand[x][e] \/ hand'[x][e].at = "idle"
    BY <1>9, <1>14, HandsKept
  <2>1. x \in 1 .. MaxSessions /\ e \in Devices BY SidesFacts
  <2>2. CASE x = s /\ e = d BY <1>7, <2>2 DEF Idle
  <2>3. CASE ~(x = s /\ e = d) BY <1>7, <2>1, <2>3
  <2> QED BY <2>2, <2>3
<1>20. ListIsAgreed' BY <1>2 DEF ListIsAgreed, Trusts, ghosts
<1> QED BY <1>10, <1>11, <1>12, <1>13, <1>15, <1>16, <1>17, <1>18, <1>19, <1>20

-----------------------------------------------------------------------------
(* The theorems.                                                            *)

LEMMA TrustStarts ==
  ASSUME TrustInit
  PROVE  TrustIInv
<1> USE DEF TrustInit
<1>1. sess = <<>> /\ sess \in Seq(TrustSessions) /\ Len(sess) = 0 /\ Sessions = {}
  BY EmptySeq DEF Sessions
<1>2. PICK both \in BOOLEAN :
        /\ list = [d \in Devices |-> [q \in Devices |->
                    IF both /\ d # q THEN [in |-> TRUE, key |-> [n |-> 0, by |-> d + q]] ELSE NoEntry]]
        /\ said = [d \in Devices |-> IF both THEN Devices \ {d} ELSE {}]
  OBVIOUS
<1>3. NoEntry \in Entries /\ ~NoEntry.in BY DEF NoEntry, NoKey, Entries, TagKeys
<1>4. \A d, q \in Devices : [in |-> TRUE, key |-> [n |-> 0, by |-> d + q]] \in Entries
  <2> SUFFICES ASSUME NEW d \in Devices, NEW q \in Devices
               PROVE  [in |-> TRUE, key |-> [n |-> 0, by |-> d + q]] \in Entries
    OBVIOUS
  <2>1. d + q \in Nat OBVIOUS
  <2>2. [n |-> 0, by |-> d + q] \in TagKeys BY <2>1 DEF TagKeys
  <2> QED BY <2>2 DEF Entries
<1>5. list \in [Devices -> [Devices -> Entries]] BY <1>2, <1>3, <1>4
<1>6. NewTalk(0) \in TrustTalks /\ Idle \in Hands /\ <<>> \in Seq(TrustMsgs)
  BY EmptySeq DEF NewTalk, NoKey, TrustTalks, TagKeys, Idle, Hands
<1>7. talk \in [Devices -> TrustTalks] BY <1>6
<1>8. /\ wire \in [1 .. MaxSessions -> [Devices -> Seq(TrustMsgs)]]
      /\ hand \in [1 .. MaxSessions -> [Devices -> Hands]]
  BY <1>6
<1>9. said \in [Devices -> SUBSET Devices] /\ ever \in [Devices -> SUBSET Devices] BY <1>2
<1>10. /\ active \in [Devices -> 0 .. Len(sess)] /\ offers \in 0 .. MaxOffers
       /\ count \in [forgets : 0 .. Forgets, faults : 0 .. MaxFaults]
       /\ Len(sess) <= MaxSessions
  BY <1>1
<1>11. TrustTypeOK BY <1>1, <1>5, <1>7, <1>8, <1>9, <1>10 DEF TrustTypeOK
<1>12. TwoSides /\ SnapsAgreed /\ WiresAgreed /\ HandsAgreed
  BY <1>1 DEF TwoSides, SnapsAgreed, WiresAgreed, HandsAgreed
<1>13. TalkOfActive /\ SaysSo BY DEF TalkOfActive, SaysSo
<1>14. Unused BY DEF Unused
<1>15. SaidOnce BY DEF SaidOnce
<1>16. ListIsAgreed
  <2> SUFFICES ASSUME NEW d \in Devices, NEW q \in Devices, list[d][q].in
               PROVE  q \in said[d] /\ d \in ever[q]
    BY DEF ListIsAgreed, Trusts
  <2>1. both /\ d # q BY <1>2, <1>3
  <2> QED BY <1>2, <2>1
<1> QED BY <1>11, <1>12, <1>13, <1>14, <1>15, <1>16 DEF TrustIInv

LEMMA TrustStepKeeps ==
  ASSUME TrustIInv, [TrustNext]_trustVars
  PROVE  TrustIInv'
<1>1. CASE Opening
  <2>1. ASSUME NEW d \in Dialers, NEW q \in Devices, NEW code \in Codes, Dial(d, q, code)
        PROVE  TrustIInv'
    <3>1. d \in Devices /\ code \in BOOLEAN OBVIOUS
    <3> QED BY <2>1, <3>1, DialKeeps
  <2>2. ASSUME NEW s \in Sessions, Admit(s) \/ Accepted(s) \/ DialFails(s)
        PROVE  TrustIInv'
    BY <2>2, AdmitKeeps, AcceptedKeeps, DialFailsKeeps
  <2>3. ASSUME NEW s \in Sessions, NEW d \in {sess[s].from, sess[s].to}, Touch(d, s) \/ Start(d, s)
        PROVE  TrustIInv'
    BY <2>3, TouchKeeps, StartKeeps DEF Sides
  <2> QED BY <1>1, <2>1, <2>2, <2>3 DEF Opening
<1>2. ASSUME NEW d \in Devices, User(d) \/ Expire(d)
      PROVE  TrustIInv'
  BY <1>2, OfferKeeps, AnswerKeeps, ForgetKeeps, ExpireKeeps DEF User
<1>3. ASSUME NEW s \in Sessions, Cut(s)
      PROVE  TrustIInv'
  BY <1>3, CutKeeps
<1>4. ASSUME NEW s \in Sessions, NEW d \in {sess[s].from, sess[s].to}, Talking(d, s)
      PROVE  TrustIInv'
  BY <1>4, ReadsKeeps, HandleKeeps, ReplyKeeps, LostEndKeeps DEF Talking, Sides
<1>5. CASE UNCHANGED trustVars
  <2> USE DEF TrustIInv, trustVars
  <2>1. SameSides BY <1>5, SameSessions
  <2>2. Grows BY <1>5 DEF Grows
  <2>3. TrustTypeOK' BY <1>5 DEF TrustTypeOK
  <2>4. TwoSides' BY <2>1, TwoSidesKept
  <2>5. TalkOfActive' BY <1>5, <2>1, TalkKept
  <2>6. Unused' BY <1>5, <2>1, UnusedKept
  <2>7. SaysSo' BY <1>5, SaysSoKept DEF StandsFor
  <2>8. SaidOnce' BY <1>5 DEF SaidOnce
  <2>9. SnapsAgreed' BY <1>5, <2>1, <2>2, SnapsKept
  <2>10. WiresAgreed' BY <1>5, <2>1, <2>2, WiresKept
  <2>11. HandsAgreed' BY <1>5, <2>1, <2>2, HandsKept
  <2>12. ListIsAgreed' BY <1>5 DEF ListIsAgreed, Trusts
  <2> QED BY <2>3, <2>4, <2>5, <2>6, <2>7, <2>8, <2>9, <2>10, <2>11, <2>12
<1> QED BY <1>1, <1>2, <1>3, <1>4, <1>5 DEF TrustNext

\* TrustIInv is inductive, for any devices and any bounds: whoever offered or said yes in a
\* session said so of the device at its other end (SaysSo), and an accept or a commit was
\* sent by a device whose user agreed (WiresAgreed, HandsAgreed).
THEOREM TrustIInvHolds == TrustSpec => []TrustIInv
<1>1. TrustInit => TrustIInv BY TrustStarts
<1>2. TrustIInv /\ [TrustNext]_trustVars => TrustIInv' BY TrustStepKeeps
<1> QED BY <1>1, <1>2, PTL DEF TrustSpec

\* The list of pkg/identity holds only devices both users agreed to (PAIR-08, PAIR-10), with
\* touchTrust's and the late answer's exceptions named in ListIsAgreed.
THEOREM ListAgreedHolds == TrustSpec => []ListIsAgreed
<1>1. TrustIInv => ListIsAgreed BY DEF TrustIInv
<1> QED BY <1>1, TrustIInvHolds, PTL
=============================================================================
