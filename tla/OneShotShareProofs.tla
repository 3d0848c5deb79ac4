----------------------- MODULE OneShotShareProofs -----------------------
(***************************************************************************)
(* The two ways to give a file once: an offer to one receiver, and the web *)
(* share.                                                                  *)
(*                                                                         *)
(* The web share: a file is whole when the page, or the client of a form,  *)
(* is told so, except where another transfer wrote over its partial file;  *)
(* and who waits on a pause is the transfer the record names, or has been  *)
(* woken.  Neither is inductive: ShareIInv adds what the page and the      *)
(* requests of one upload agree on.                                        *)
(*                                                                         *)
(* The one-shot offer: of the devices that prove a code at once, one is    *)
(* the receiver, for any number of devices, connections and rounds; what   *)
(* is accepted keeps its time; and the Gate's places are those of the      *)
(* connections that hold one.                                              *)
(*                                                                         *)
(* None of these is inductive.  Who is told depends on who claimed, on     *)
(* where its goroutine is, on what serve registered and on the outcome it  *)
(* gave: Winner says how these agree, at every step of the one and of the  *)
(* others.  A place is counted once only because a connection's place and  *)
(* handshake are known from where it is (Sound), and a connection waits    *)
(* once in a queue (Waiting).                                              *)
(***************************************************************************)
EXTENDS OneShot, WebShare, FiniteSetTheorems, SequenceTheorems, TLAPS

-----------------------------------------------------------------------------
(* The web share.  A file is whole when it is told because the page and    *)
(* the requests of an upload agree on how far it is: what comes before the *)
(* chunk a request carries is on the disk, the page is never behind a      *)
(* request it gave up, and a first chunk has no other beside it.           *)

Handlers ==
  [kind : {"chunk", "form", "down", None},
   st : {"none", "admit", "register", "check", "open", "copy", "end", "part", "create", "read", "write"},
   page : Pages \union {None}, file : Nat, idx : Nat, dest : Names \union {None},
   saved : SUBSET ((1..Files) \X Names), wait : BOOLEAN, gone : BOOLEAN, canceled : BOOLEAN,
   dead : BOOLEAN]
Scripts ==
  [st : {"idle", "asking", "next", "sent", "paused", "done", "failed"}, file : Nat, idx : Nat,
   on : Slots \union {None}]
Contents == [there : BOOLEAN, has : SUBSET (1..Chunks)]
Records ==
  [dir : {"upload", "download", None}, by : Slots \union {None}, dest : Names \union {None},
   paused : BOOLEAN]

ShareTypeOK ==
  /\ page \in [Pages -> Scripts]
  /\ h \in [Slots -> Handlers]
  /\ disk \in [Names -> Contents]
  /\ rec \in Records

\* Who gets a name that nobody else came with, and was not spoiled.
Clean == Senders \ (spoiled \union SameNames)
Own(p) == {NameOf[p][i] : i \in 1..Files} \union (Names \ Asked)

KindsAgree ==
  \A s \in Slots :
    /\ h[s].kind = "chunk" => h[s].page \in Uploads
                              /\ h[s].st \in {"admit", "register", "check", "open", "copy", "end"}
    /\ h[s].kind = "form" => h[s].page \in Forms /\ h[s].st \in {"admit", "part", "create", "read"}
    /\ h[s].kind = "down" => h[s].page \in Downloads /\ h[s].st \in {"admit", "write"}
    /\ h[s].kind = None => h[s].page = None /\ h[s].st = "none"

PagesWait ==
  \A p \in Pages, s \in Slots : page[p].on = s =>
    page[p].st = "sent" /\ h[s].page = p /\ ~h[s].gone

ChunksAgree ==
  \A s \in Slots : h[s].kind = "chunk" =>
    /\ h[s].file \in 1..Files /\ h[s].idx \in 1..Chunks
    /\ h[s].st # "admit" => h[s].dest = NameOf[h[s].page][h[s].file]
    /\ page[h[s].page].on = s => page[h[s].page].file = h[s].file /\ page[h[s].page].idx = h[s].idx

PlacesAgree ==
  /\ \A p \in Uploads : page[p].file \in 1..(Files + 1) /\ page[p].idx \in 1..Chunks
  /\ \A p \in Senders : page[p].st \in {"idle", "asking"} =>
       page[p].idx = 1 /\ \A s \in Slots : h[s].page # p

OneFormEach ==
  /\ \A p \in Forms : /\ page[p].st # "paused" /\ page[p].file = 1 /\ page[p].idx = 1
                      /\ page[p].st = "next" => \A s \in Slots : h[s].page # p
  /\ \A s, t \in Slots : h[s].page \in Forms /\ h[t].page = h[s].page => s = t

FormsAgree ==
  \A s \in Slots : h[s].kind = "form" =>
    /\ h[s].file \in 1..(Files + 1)
    /\ h[s].st \in {"create", "read"} => h[s].file \in 1..Files /\ h[s].dest \in Own(h[s].page)
    /\ \A f \in h[s].saved : f[2] \in Own(h[s].page)
    /\ h[s].st = "read" => h[s].idx \in 1..(Chunks + 1)

ChunksLate ==
  \A s \in Slots : h[s].kind = "chunk" /\ h[s].page \in Clean =>
    /\ \/ h[s].file < page[h[s].page].file
       \/ h[s].file = page[h[s].page].file /\ h[s].idx <= page[h[s].page].idx
    /\ h[s].idx = 1 =>
         /\ page[h[s].page].file = h[s].file /\ page[h[s].page].idx = 1
         /\ page[h[s].page].on = s \/ page[h[s].page].st = "failed"
         /\ \A t \in Slots : h[t].page = h[s].page /\ h[t].file = h[s].file => t = s

ChunksThere ==
  \A s \in Slots : h[s].kind = "chunk" /\ h[s].page \in Clean =>
    /\ \A i \in 1..Chunks : i < h[s].idx =>
         disk[NameOf[h[s].page][h[s].file]].there /\ i \in disk[NameOf[h[s].page][h[s].file]].has
    /\ h[s].st \in {"copy", "end"} => disk[NameOf[h[s].page][h[s].file]].there /\ ~h[s].dead
    /\ h[s].st = "end" => h[s].idx \in disk[NameOf[h[s].page][h[s].file]].has

SentThere ==
  \A p \in Uploads : p \in Clean /\ page[p].file <= Files =>
    \A i \in 1..Chunks : i < page[p].idx =>
      disk[NameOf[p][page[p].file]].there /\ i \in disk[NameOf[p][page[p].file]].has

FormsThere ==
  \A s \in Slots : h[s].kind = "form" /\ h[s].page \in Clean =>
    /\ h[s].st = "read" => /\ ~h[s].dead /\ disk[h[s].dest].there
                           /\ \A i \in 1..Chunks : i < h[s].idx => i \in disk[h[s].dest].has
    /\ \A f \in h[s].saved : disk[f[2]].there /\ disk[f[2]].has = 1..Chunks
    /\ h[s].st = "create" => \A f \in h[s].saved : f[2] # h[s].dest

PausesHeld == rec.paused => rec.dir # None

Same(t) ==
  /\ h'[t].kind = h[t].kind /\ h'[t].st = h[t].st /\ h'[t].page = h[t].page
  /\ h'[t].file = h[t].file /\ h'[t].idx = h[t].idx /\ h'[t].dest = h[t].dest
  /\ h'[t].saved = h[t].saved

\* Nothing that the parts are about changes.
Untouched ==
  /\ \A t \in Slots : Same(t) /\ h'[t].gone = h[t].gone /\ h'[t].dead = h[t].dead
  /\ page' = page /\ disk' = disk /\ spoiled' = spoiled /\ reported' = reported

\* What is said of an upload's files, of a form, and of the pages.
Parts ==
  /\ KindsAgree /\ PagesWait /\ ChunksAgree /\ PlacesAgree /\ OneFormEach
  /\ FormsAgree /\ ChunksLate /\ ChunksThere /\ SentThere /\ FormsThere
  /\ WholeWhenTold

Held == PausesHeld /\ WaiterCanBeResumed

LEMMA NobodyType == Nobody \in Handlers
BY DEF Nobody, Handlers

LEMMA NoRecordType == NoRecord \in Records
BY DEF NoRecord, Records

\* The records of the requests, with one field set.
LEMMA Fields ==
  ASSUME NEW r \in Handlers
  PROVE  /\ \A x \in BOOLEAN : [r EXCEPT !.wait = x] \in Handlers
         /\ \A x \in BOOLEAN : [r EXCEPT !.gone = x] \in Handlers
         /\ \A x \in BOOLEAN : [r EXCEPT !.canceled = x] \in Handlers
         /\ \A x \in BOOLEAN : [r EXCEPT !.dead = x] \in Handlers
<1>1. /\ r.kind \in {"chunk", "form", "down", None}
      /\ r.st \in {"none", "admit", "register", "check", "open", "copy", "end", "part", "create", "read", "write"}
      /\ r.page \in Pages \union {None} /\ r.file \in Nat /\ r.idx \in Nat
      /\ r.dest \in Names \union {None} /\ r.saved \in SUBSET ((1..Files) \X Names)
      /\ r.wait \in BOOLEAN /\ r.gone \in BOOLEAN /\ r.canceled \in BOOLEAN /\ r.dead \in BOOLEAN
  BY DEF Handlers
<1>2. r = [kind |-> r.kind, st |-> r.st, page |-> r.page, file |-> r.file, idx |-> r.idx,
           dest |-> r.dest, saved |-> r.saved, wait |-> r.wait, gone |-> r.gone,
           canceled |-> r.canceled, dead |-> r.dead]
  BY DEF Handlers
<1> QED
  BY <1>1, <1>2 DEF Handlers

LEMMA DeadSame ==
  ASSUME NEW r \in Handlers, NEW q, q = [r EXCEPT !.dead = TRUE]
  PROVE  /\ q.kind = r.kind /\ q.st = r.st /\ q.page = r.page /\ q.file = r.file /\ q.idx = r.idx
         /\ q.dest = r.dest /\ q.saved = r.saved /\ q.gone = r.gone /\ q.wait = r.wait
BY DEF Handlers

LEMMA WokenSame ==
  ASSUME NEW hs \in [Slots -> Handlers]
  PROVE  /\ Woken(hs) \in [Slots -> Handlers]
         /\ \A t \in Slots :
              /\ Woken(hs)[t].kind = hs[t].kind /\ Woken(hs)[t].st = hs[t].st
              /\ Woken(hs)[t].page = hs[t].page /\ Woken(hs)[t].file = hs[t].file
              /\ Woken(hs)[t].idx = hs[t].idx /\ Woken(hs)[t].dest = hs[t].dest
              /\ Woken(hs)[t].saved = hs[t].saved /\ Woken(hs)[t].gone = hs[t].gone
              /\ Woken(hs)[t].dead = hs[t].dead /\ Woken(hs)[t].canceled = hs[t].canceled
              /\ ~Woken(hs)[t].wait
<1>1. ASSUME NEW t \in Slots
      PROVE  Woken(hs)[t] = [hs[t] EXCEPT !.wait = FALSE] /\ hs[t] \in Handlers
  BY DEF Woken
<1>2. Woken(hs) \in [Slots -> Handlers]
  BY <1>1, Fields DEF Woken
<1> QED
  BY <1>1, <1>2 DEF Handlers

LEMMA UntouchedStep ==
  ASSUME ShareTypeOK, Parts, Untouched
  PROVE  Parts'
<1> USE DEF Untouched, Same
<1>1. KindsAgree' BY DEF Parts, KindsAgree
<1>2. PagesWait' BY DEF Parts, PagesWait
<1>3. ChunksAgree' BY DEF Parts, ChunksAgree
<1>4. PlacesAgree' BY DEF Parts, PlacesAgree
<1>5. OneFormEach' BY DEF Parts, OneFormEach
<1>6. FormsAgree' BY DEF Parts, FormsAgree, Own, Asked
<1>7. ChunksLate' BY DEF Parts, ChunksLate, Clean
<1>8. ChunksThere' BY DEF Parts, ChunksThere, Clean
<1>9. SentThere' BY DEF Parts, SentThere, Clean
<1>10. FormsThere' BY DEF Parts, FormsThere, Clean
<1>11. WholeWhenTold' BY DEF Parts, WholeWhenTold, SameNames
<1> QED BY <1>1, <1>2, <1>3, <1>4, <1>5, <1>6, <1>7, <1>8, <1>9, <1>10, <1>11 DEF Parts

\* A request that ends, or ends with an answer to the page that waits for it.
RequestOver(s) ==
  /\ h'[s].kind = None /\ h'[s].page = None /\ h'[s].st = "none"
  /\ \A t \in Slots \ {s} : Same(t) /\ h'[t].gone = h[t].gone /\ h'[t].dead = h[t].dead
  /\ disk' = disk /\ spoiled' = spoiled
  /\ \A p \in Pages : page[p].on # s => page'[p] = page[p]
  /\ \A p \in Pages : page[p].on = s =>
       /\ page'[p].on = None /\ page'[p].st \in {"failed", "done"}
       /\ page'[p].file = page[p].file /\ page'[p].idx = page[p].idx

LEMMA RequestOverStep ==
  ASSUME ShareTypeOK, Parts, NEW s \in Slots, RequestOver(s)
  PROVE  /\ KindsAgree' /\ PagesWait' /\ ChunksAgree' /\ PlacesAgree' /\ OneFormEach'
         /\ FormsAgree' /\ ChunksLate' /\ ChunksThere' /\ SentThere' /\ FormsThere'
<1> USE DEF RequestOver, Same
<1>0. /\ None \notin Slots /\ None \notin Pages /\ None \notin {"chunk", "form", "down"}
      /\ Uploads \subseteq Pages /\ Forms \subseteq Pages /\ Uploads \subseteq Senders /\ Forms \subseteq Senders
      /\ Senders \subseteq Pages
  BY NoneAssumption DEF Pages, Senders
<1>a. \A p \in Pages : page'[p].file = page[p].file /\ page'[p].idx = page[p].idx
  OBVIOUS
<1>b. \A p \in Pages : page'[p].st = page[p].st \/ page'[p].st \in {"failed", "done"}
  OBVIOUS
<1>1. KindsAgree' BY <1>0 DEF Parts, KindsAgree
<1>2. PagesWait' BY <1>0 DEF Parts, PagesWait
<1>3. ChunksAgree' BY <1>0, <1>a DEF Parts, ChunksAgree, KindsAgree
<1>4. PlacesAgree' BY <1>0, <1>a, <1>b DEF Parts, PlacesAgree
<1>5. OneFormEach' BY <1>0, <1>a, <1>b DEF Parts, OneFormEach
<1>6. FormsAgree' BY <1>0 DEF Parts, FormsAgree, Own, Asked
<1>7. ChunksLate'
  <2> SUFFICES ASSUME NEW t \in Slots', h'[t].kind = "chunk", h'[t].page \in Clean'
               PROVE  /\ \/ h'[t].file < page'[h'[t].page].file
                         \/ h'[t].file = page'[h'[t].page].file /\ h'[t].idx <= page'[h'[t].page].idx
                      /\ h'[t].idx = 1 =>
                           /\ page'[h'[t].page].file = h'[t].file /\ page'[h'[t].page].idx = 1
                           /\ page'[h'[t].page].on = t \/ page'[h'[t].page].st = "failed"
                           /\ \A u \in Slots : h'[u].page = h'[t].page /\ h'[u].file = h'[t].file => u = t
    BY DEF ChunksLate
  <2>1. t \in Slots /\ t # s /\ h[t].kind = "chunk" /\ h[t].page \in Clean /\ h[t].page \in Uploads
    BY <1>0 DEF Parts, KindsAgree, Clean
  <2>2. page[h[t].page].on = t => page'[h[t].page] = page[h[t].page]
    BY <1>0, <2>1
  <2>3. page[h[t].page].st = "failed" => page'[h[t].page].st = "failed"
    BY <1>0, <2>1 DEF Parts, PagesWait
  <2> QED BY <1>0, <1>a, <2>1, <2>2, <2>3 DEF Parts, ChunksLate
<1>8. ChunksThere' BY <1>0 DEF Parts, ChunksThere, Clean
<1>9. SentThere' BY <1>0, <1>a DEF Parts, SentThere, Clean
<1>10. FormsThere' BY <1>0 DEF Parts, FormsThere, Clean
<1> QED BY <1>1, <1>2, <1>3, <1>4, <1>5, <1>6, <1>7, <1>8, <1>9, <1>10

\* A page that goes from a state to another where it is.
Turns(p) ==
  /\ \A q \in Pages \ {p} : page'[q] = page[q]
  /\ page'[p].file = page[p].file /\ page'[p].idx = page[p].idx /\ page'[p].on = page[p].on
  /\ page[p].st # "sent" /\ page'[p].st # "sent" /\ page[p].st # "failed"
  /\ page'[p].st \in {"idle", "asking"} => page[p].st \in {"idle", "asking"}
  /\ page'[p].st = "paused" => page[p].st = "paused"
  /\ page'[p].st = "next" => page[p].st \in {"idle", "asking", "paused"}
  /\ \A t \in Slots : Same(t) /\ h'[t].gone = h[t].gone /\ h'[t].dead = h[t].dead
  /\ disk' = disk /\ spoiled' = spoiled /\ reported' = reported

LEMMA TurnsStep ==
  ASSUME ShareTypeOK, Parts, NEW p \in Pages, Turns(p)
  PROVE  Parts'
<1> USE DEF Turns, Same
<1>0. /\ None \notin Slots /\ None \notin Pages /\ None \notin {"chunk", "form", "down"}
      /\ Uploads \subseteq Pages /\ Forms \subseteq Pages /\ Uploads \subseteq Senders /\ Forms \subseteq Senders
      /\ Senders \subseteq Pages
  BY NoneAssumption DEF Pages, Senders
<1>a. \A q \in Pages : page'[q].file = page[q].file /\ page'[q].idx = page[q].idx /\ page'[q].on = page[q].on
  OBVIOUS
<1>b. page[p].on \notin Slots
  BY DEF Parts, PagesWait
<1>1. KindsAgree' BY <1>0 DEF Parts, KindsAgree
<1>2. PagesWait' BY <1>0, <1>a, <1>b DEF Parts, PagesWait
<1>3. ChunksAgree' BY <1>0, <1>a DEF Parts, ChunksAgree, KindsAgree
<1>4. PlacesAgree' BY <1>0, <1>a DEF Parts, PlacesAgree
<1>5. OneFormEach' BY <1>0, <1>a DEF Parts, OneFormEach, PlacesAgree
<1>6. FormsAgree' BY <1>0 DEF Parts, FormsAgree, Own, Asked
<1>7. ChunksLate'
  <2> SUFFICES ASSUME NEW t \in Slots', h'[t].kind = "chunk", h'[t].page \in Clean'
               PROVE  /\ \/ h'[t].file < page'[h'[t].page].file
                         \/ h'[t].file = page'[h'[t].page].file /\ h'[t].idx <= page'[h'[t].page].idx
                      /\ h'[t].idx = 1 =>
                           /\ page'[h'[t].page].file = h'[t].file /\ page'[h'[t].page].idx = 1
                           /\ page'[h'[t].page].on = t \/ page'[h'[t].page].st = "failed"
                           /\ \A u \in Slots : h'[u].page = h'[t].page /\ h'[u].file = h'[t].file => u = t
    BY DEF ChunksLate
  <2>1. t \in Slots /\ h[t].kind = "chunk" /\ h[t].page \in Clean /\ h[t].page \in Pages
    BY <1>0 DEF Parts, KindsAgree, Clean
  <2>3. page[h[t].page].st = "failed" => page'[h[t].page].st = "failed"
    BY <2>1
  <2> QED BY <1>0, <1>a, <2>1, <2>3 DEF Parts, ChunksLate
<1>8. ChunksThere' BY <1>0 DEF Parts, ChunksThere, Clean
<1>9. SentThere' BY <1>0, <1>a DEF Parts, SentThere, Clean
<1>10. FormsThere' BY <1>0 DEF Parts, FormsThere, Clean
<1>11. WholeWhenTold' BY DEF Parts, WholeWhenTold, SameNames
<1> QED BY <1>1, <1>2, <1>3, <1>4, <1>5, <1>6, <1>7, <1>8, <1>9, <1>10, <1>11 DEF Parts

\* A page that aborts its request; a first chunk that is cut off spoils it.
Cuts(p) ==
  /\ \A q \in Pages \ {p} : page'[q] = page[q]
  /\ page'[p].file = page[p].file /\ page'[p].idx = page[p].idx /\ page'[p].on = None
  /\ page[p].st \in {"asking", "next", "sent", "paused"}
  /\ \/ page'[p].st = "failed" /\ spoiled' = spoiled
     \/ /\ page'[p].st = "paused" /\ page[p].st \in {"next", "sent"} /\ p \notin Forms
        /\ spoiled' = IF p \in Uploads /\ page[p].idx = 1 THEN spoiled \union {p} ELSE spoiled
  /\ \A t \in Slots : Same(t) /\ h'[t].dead = h[t].dead
                      /\ (page[p].on # t => h'[t].gone = h[t].gone)
  /\ disk' = disk /\ reported' = reported

LEMMA CutsStep ==
  ASSUME ShareTypeOK, Parts, NEW p \in Pages, Cuts(p)
  PROVE  Parts'
<1> USE DEF Cuts, Same
<1>0. /\ None \notin Slots /\ None \notin Pages /\ None \notin {"chunk", "form", "down"}
      /\ Uploads \subseteq Pages /\ Forms \subseteq Pages /\ Uploads \subseteq Senders /\ Forms \subseteq Senders
      /\ Senders \subseteq Pages
  BY NoneAssumption DEF Pages, Senders
<1>a. \A q \in Pages : page'[q].file = page[q].file /\ page'[q].idx = page[q].idx
  OBVIOUS
<1>b. spoiled \subseteq spoiled'
  OBVIOUS
<1>1. KindsAgree' BY <1>0 DEF Parts, KindsAgree
<1>2. PagesWait' BY <1>0, <1>a DEF Parts, PagesWait
<1>3. ChunksAgree' BY <1>0, <1>a DEF Parts, ChunksAgree, KindsAgree
<1>4. PlacesAgree' BY <1>0, <1>a DEF Parts, PlacesAgree
<1>5. OneFormEach' BY <1>0, <1>a DEF Parts, OneFormEach, PlacesAgree
<1>6. FormsAgree' BY <1>0 DEF Parts, FormsAgree, Own, Asked
<1>7. ChunksLate'
  <2> SUFFICES ASSUME NEW t \in Slots', h'[t].kind = "chunk", h'[t].page \in Clean'
               PROVE  /\ \/ h'[t].file < page'[h'[t].page].file
                         \/ h'[t].file = page'[h'[t].page].file /\ h'[t].idx <= page'[h'[t].page].idx
                      /\ h'[t].idx = 1 =>
                           /\ page'[h'[t].page].file = h'[t].file /\ page'[h'[t].page].idx = 1
                           /\ page'[h'[t].page].on = t \/ page'[h'[t].page].st = "failed"
                           /\ \A u \in Slots : h'[u].page = h'[t].page /\ h'[u].file = h'[t].file => u = t
    BY DEF ChunksLate
  <2>1. t \in Slots /\ h[t].kind = "chunk" /\ h[t].page \in Clean /\ h[t].page \in Pages /\ h[t].page \in Uploads
    BY <1>0, <1>b DEF Parts, KindsAgree, Clean
  <2>2. h[t].page = p /\ h[t].idx = 1 => page'[p].st = "failed"
    <3> SUFFICES ASSUME h[t].page = p, h[t].idx = 1, page'[p].st = "paused"
                 PROVE  FALSE
      OBVIOUS
    <3>1. page[p].idx = 1 BY <2>1 DEF Parts, ChunksLate
    <3> QED BY <3>1, <2>1 DEF Clean
  <2> QED BY <1>0, <1>a, <2>1, <2>2 DEF Parts, ChunksLate
<1>8. ChunksThere' BY <1>0, <1>b DEF Parts, ChunksThere, Clean
<1>9. SentThere' BY <1>0, <1>a, <1>b DEF Parts, SentThere, Clean
<1>10. FormsThere' BY <1>0, <1>b DEF Parts, FormsThere, Clean
<1>11. WholeWhenTold' BY <1>b DEF Parts, WholeWhenTold, SameNames
<1> QED BY <1>1, <1>2, <1>3, <1>4, <1>5, <1>6, <1>7, <1>8, <1>9, <1>10, <1>11 DEF Parts

\* A page that sends a request for where it is.
SendsRequest(p, s) ==
  /\ page[p].st = "next" /\ h[s].page = None
  /\ \A q \in Pages \ {p} : page'[q] = page[q]
  /\ page'[p].st = "sent" /\ page'[p].on = s
  /\ page'[p].file = page[p].file /\ page'[p].idx = page[p].idx
  /\ \A t \in Slots \ {s} : Same(t) /\ h'[t].gone = h[t].gone /\ h'[t].dead = h[t].dead
  /\ h'[s].st = "admit" /\ h'[s].page = p /\ h'[s].file = page[p].file /\ h'[s].idx = page[p].idx
  /\ h'[s].saved = {} /\ ~h'[s].gone
  /\ \/ p \in Uploads /\ h'[s].kind = "chunk" /\ page[p].file <= Files
     \/ p \in Forms /\ h'[s].kind = "form"
     \/ p \in Downloads /\ h'[s].kind = "down"
  /\ disk' = disk /\ reported' = reported /\ spoiled' = spoiled

LEMMA SendsRequestStep ==
  ASSUME ShareTypeOK, Parts, NEW p \in Pages, NEW s \in Slots, SendsRequest(p, s)
  PROVE  Parts'
<1> USE DEF SendsRequest, Same
<1>0. /\ None \notin Slots /\ None \notin Pages /\ None \notin {"chunk", "form", "down"}
      /\ Uploads \subseteq Pages /\ Forms \subseteq Pages /\ Uploads \subseteq Senders /\ Forms \subseteq Senders
      /\ Senders \subseteq Pages /\ Uploads \intersect Forms = {} /\ Senders \intersect Downloads = {}
      /\ Files \in Nat \ {0} /\ Chunks \in Nat \ {0}
  BY NoneAssumption, KindsAssumption, CountsAssumption DEF Pages, Senders
<1>a. \A q \in Pages : page'[q].file = page[q].file /\ page'[q].idx = page[q].idx
  OBVIOUS
<1>b. /\ page[p].on \notin Slots
      /\ \A q \in Pages : page[q].on # s
  BY <1>0 DEF Parts, PagesWait
<1>1. KindsAgree' BY <1>0 DEF Parts, KindsAgree
<1>2. PagesWait' BY <1>0, <1>b DEF Parts, PagesWait
<1>3. ChunksAgree'
  <2> SUFFICES ASSUME NEW t \in Slots', h'[t].kind = "chunk"
               PROVE  /\ h'[t].file \in 1..Files /\ h'[t].idx \in 1..Chunks
                      /\ h'[t].st # "admit" => h'[t].dest = NameOf[h'[t].page][h'[t].file]
                      /\ page'[h'[t].page].on = t => page'[h'[t].page].file = h'[t].file /\ page'[h'[t].page].idx = h'[t].idx
    BY DEF ChunksAgree
  <2>1. CASE t = s
    <3>1. p \in Uploads /\ page[p].file \in 1..(Files + 1) /\ page[p].idx \in 1..Chunks
      BY <1>0, <2>1 DEF Parts, PlacesAgree
    <3> QED BY <1>0, <2>1, <3>1
  <2>2. CASE t # s
    <3>1. t \in Slots /\ h[t].kind = "chunk" /\ h[t].page \in Pages
      BY <1>0, <2>2 DEF Parts, KindsAgree
    <3> QED BY <1>0, <1>a, <2>2, <3>1 DEF Parts, ChunksAgree
  <2> QED BY <2>1, <2>2
<1>4. PlacesAgree' BY <1>0, <1>a DEF Parts, PlacesAgree
<1>5. OneFormEach' BY <1>0, <1>a DEF Parts, OneFormEach, PlacesAgree
<1>6. FormsAgree' BY <1>0 DEF Parts, FormsAgree, Own, Asked, OneFormEach
<1>7. ChunksLate'
  <2> SUFFICES ASSUME NEW t \in Slots', h'[t].kind = "chunk", h'[t].page \in Clean'
               PROVE  /\ \/ h'[t].file < page'[h'[t].page].file
                         \/ h'[t].file = page'[h'[t].page].file /\ h'[t].idx <= page'[h'[t].page].idx
                      /\ h'[t].idx = 1 =>
                           /\ page'[h'[t].page].file = h'[t].file /\ page'[h'[t].page].idx = 1
                           /\ page'[h'[t].page].on = t \/ page'[h'[t].page].st = "failed"
                           /\ \A u \in Slots : h'[u].page = h'[t].page /\ h'[u].file = h'[t].file => u = t
    BY DEF ChunksLate
  <2>0. t \in Slots /\ h'[t].page \in Clean
    BY DEF Clean
  <2>1. CASE t = s
    <3>1. p \in Uploads /\ page[p].idx \in 1..Chunks /\ page[p].file \in Nat
      BY <1>0, <2>1 DEF Parts, PlacesAgree, ShareTypeOK, Scripts
    <3>2. ASSUME page[p].idx = 1, NEW u \in Slots, u # s, h[u].page = p, h[u].file = page[p].file
          PROVE  FALSE
      <4>1. h[u].kind = "chunk"
        BY <1>0, <3>1, <3>2 DEF Parts, KindsAgree, ShareTypeOK, Handlers
      <4>2. p \in Clean
        BY <2>0, <2>1
      <4>3. h[u].idx \in 1..Chunks
        BY <4>1 DEF Parts, ChunksAgree
      <4>4. h[u].idx <= 1
        BY <3>1, <3>2, <4>1, <4>2, <4>3 DEF Parts, ChunksLate
      <4>5. h[u].idx = 1
        BY <4>3, <4>4
      <4> QED BY <3>2, <4>1, <4>2, <4>5, <1>b DEF Parts, ChunksLate
    <3> QED BY <1>0, <2>1, <3>1, <3>2
  <2>2. CASE t # s
    <3>1. t \in Slots /\ h[t].kind = "chunk" /\ h[t].page \in Pages /\ h[t].page \in Uploads /\ h[t].page \in Clean
      BY <1>0, <2>0, <2>2 DEF Parts, KindsAgree
    <3>2. h[t].page = p => h[t].idx # 1
      BY <1>b, <3>1 DEF Parts, ChunksLate
    <3> QED BY <1>0, <1>a, <2>2, <3>1, <3>2 DEF Parts, ChunksLate
  <2> QED BY <2>1, <2>2
<1>8. ChunksThere'
  <2> SUFFICES ASSUME NEW t \in Slots', h'[t].kind = "chunk", h'[t].page \in Clean'
               PROVE  /\ \A i \in 1..Chunks : i < h'[t].idx =>
                           disk'[NameOf[h'[t].page][h'[t].file]].there /\ i \in disk'[NameOf[h'[t].page][h'[t].file]].has
                      /\ h'[t].st \in {"copy", "end"} => disk'[NameOf[h'[t].page][h'[t].file]].there /\ ~h'[t].dead
                      /\ h'[t].st = "end" => h'[t].idx \in disk'[NameOf[h'[t].page][h'[t].file]].has
    BY DEF ChunksThere
  <2>0. t \in Slots /\ h'[t].page \in Clean
    BY DEF Clean
  <2>1. CASE t = s
    BY <1>0, <2>0, <2>1 DEF Parts, SentThere
  <2>2. CASE t # s
    BY <2>0, <2>2 DEF Parts, ChunksThere
  <2> QED BY <2>1, <2>2
<1>9. SentThere' BY <1>0, <1>a DEF Parts, SentThere, Clean
<1>10. FormsThere' BY <1>0 DEF Parts, FormsThere, Clean
<1>11. WholeWhenTold' BY DEF Parts, WholeWhenTold, SameNames
<1> QED BY <1>1, <1>2, <1>3, <1>4, <1>5, <1>6, <1>7, <1>8, <1>9, <1>10, <1>11 DEF Parts

LEMMA NameOfType ==
  ASSUME NEW p \in Senders, NEW i \in 1..Files
  PROVE  NameOf[p][i] \in Names
BY NamesAssumption

LEMMA OwnNames ==
  ASSUME NEW p \in Senders
  PROVE  Own(p) \subseteq Names
BY NameOfType DEF Own

\* What ChunksThere says of one request.
LEMMA ChunkThere ==
  ASSUME ChunksThere, NEW t \in Slots, h[t].kind = "chunk", h[t].page \in Clean
  PROVE  /\ \A i \in 1..Chunks : i < h[t].idx =>
              disk[NameOf[h[t].page][h[t].file]].there /\ i \in disk[NameOf[h[t].page][h[t].file]].has
         /\ h[t].st \in {"copy", "end"} => disk[NameOf[h[t].page][h[t].file]].there /\ ~h[t].dead
         /\ h[t].st = "end" => h[t].idx \in disk[NameOf[h[t].page][h[t].file]].has
BY DEF ChunksThere

\* What a request has on the disk stays there, when the request does and its file keeps its chunks.
LEMMA ChunkStays ==
  ASSUME ChunksThere, NEW t \in Slots, h[t].kind = "chunk", h[t].page \in Clean,
         h'[t].page = h[t].page, h'[t].file = h[t].file, h'[t].idx = h[t].idx,
         h'[t].st = h[t].st, h'[t].dead = h[t].dead,
         disk[NameOf[h[t].page][h[t].file]].there => disk'[NameOf[h[t].page][h[t].file]].there,
         disk[NameOf[h[t].page][h[t].file]].has \subseteq disk'[NameOf[h[t].page][h[t].file]].has
  PROVE  /\ \A i \in 1..Chunks : i < h'[t].idx =>
              disk'[NameOf[h'[t].page][h'[t].file]].there /\ i \in disk'[NameOf[h'[t].page][h'[t].file]].has
         /\ h'[t].st \in {"copy", "end"} => disk'[NameOf[h'[t].page][h'[t].file]].there /\ ~h'[t].dead
         /\ h'[t].st = "end" => h'[t].idx \in disk'[NameOf[h'[t].page][h'[t].file]].has
BY ChunkThere

\* A file goes, with the requests in S; who uses it otherwise is spoiled.
Removes(n, S) ==
  /\ \A t \in S : h'[t].kind = None /\ h'[t].page = None /\ h'[t].st = "none" /\ h[t].page \in Forms
  /\ \A t \in Slots \ S : Same(t) /\ h'[t].gone = h[t].gone /\ (h[t].dest # n => h'[t].dead = h[t].dead)
  /\ \A m \in Names : m # n => disk'[m] = disk[m]
  /\ spoiled \subseteq spoiled'
  /\ UsersOf(n) \ {h[t].page : t \in S} \subseteq spoiled'
  /\ \A p \in Pages : page[p].on \notin S => page'[p] = page[p]
  /\ \A p \in Pages : page[p].on \in S =>
       /\ page'[p].on = None /\ page'[p].st \in {"failed", "done"}
       /\ page'[p].file = page[p].file /\ page'[p].idx = page[p].idx
  /\ reported' = reported

LEMMA RemovesStep ==
  ASSUME ShareTypeOK, Parts, NEW n \in Names, NEW S \in SUBSET Slots, Removes(n, S)
  PROVE  Parts'
<1> USE DEF Removes, Same
<1>0. /\ None \notin Slots /\ None \notin Pages /\ None \notin {"chunk", "form", "down"}
      /\ Uploads \subseteq Pages /\ Forms \subseteq Pages /\ Uploads \subseteq Senders /\ Forms \subseteq Senders
      /\ Senders \subseteq Pages /\ Uploads \intersect Forms = {} /\ None \notin Forms
  BY NoneAssumption, KindsAssumption DEF Pages, Senders
<1>a. \A p \in Pages : page'[p].file = page[p].file /\ page'[p].idx = page[p].idx
  OBVIOUS
<1>b. \A p \in Pages : page'[p].st = page[p].st \/ page'[p].st \in {"failed", "done"}
  OBVIOUS
<1>c. ASSUME NEW p \in Uploads, p \in Clean', NEW i \in 1..Files
      PROVE  NameOf[p][i] # n /\ NameOf[p][i] \in Names /\ disk'[NameOf[p][i]] = disk[NameOf[p][i]]
  <2>1. p \notin spoiled' /\ p \notin {h[t].page : t \in S}
    BY <1>0, <1>c DEF Clean
  <2>2. NameOf[p][i] # n
    BY <1>0, <2>1 DEF UsersOf
  <2>3. NameOf[p][i] \in Names
    BY <1>0, NameOfType
  <2> QED BY <2>2, <2>3
<1>d. ASSUME NEW t \in Slots, t \notin S, h[t].kind = "form", h[t].page \in Clean'
      PROVE  /\ h[t].dest # n
             /\ \A f \in h[t].saved : f[2] # n /\ f[2] \in Names
             /\ h[t].dest \in Names => disk'[h[t].dest] = disk[h[t].dest]
             /\ \A f \in h[t].saved : disk'[f[2]] = disk[f[2]]
  <2>1. h[t].page \in Forms /\ h[t].page \notin spoiled'
    BY <1>d DEF Parts, KindsAgree, Clean
  <2>2. h[t].page \notin {h[u].page : u \in S}
    BY <1>d, <2>1 DEF Parts, OneFormEach
  <2>3. h[t].page \notin UsersOf(n)
    BY <2>1, <2>2
  <2>4. h[t].dest # n /\ \A f \in h[t].saved : f[2] # n
    BY <1>0, <2>1, <2>3 DEF UsersOf
  <2>5. \A f \in h[t].saved : f[2] \in Names
    BY DEF ShareTypeOK, Handlers
  <2> QED BY <2>4, <2>5
<1>1. KindsAgree' BY <1>0 DEF Parts, KindsAgree
<1>2. PagesWait' BY <1>0 DEF Parts, PagesWait
<1>3. ChunksAgree' BY <1>0, <1>a DEF Parts, ChunksAgree, KindsAgree
<1>4. PlacesAgree' BY <1>0, <1>a, <1>b DEF Parts, PlacesAgree
<1>5. OneFormEach' BY <1>0, <1>a, <1>b DEF Parts, OneFormEach
<1>6. FormsAgree' BY <1>0 DEF Parts, FormsAgree, Own, Asked
<1>7. ChunksLate'
  <2> SUFFICES ASSUME NEW t \in Slots', h'[t].kind = "chunk", h'[t].page \in Clean'
               PROVE  /\ \/ h'[t].file < page'[h'[t].page].file
                         \/ h'[t].file = page'[h'[t].page].file /\ h'[t].idx <= page'[h'[t].page].idx
                      /\ h'[t].idx = 1 =>
                           /\ page'[h'[t].page].file = h'[t].file /\ page'[h'[t].page].idx = 1
                           /\ page'[h'[t].page].on = t \/ page'[h'[t].page].st = "failed"
                           /\ \A u \in Slots : h'[u].page = h'[t].page /\ h'[u].file = h'[t].file => u = t
    BY DEF ChunksLate
  <2>1. t \in Slots /\ t \notin S /\ h[t].kind = "chunk" /\ h[t].page \in Clean /\ h[t].page \in Uploads
    BY <1>0 DEF Parts, KindsAgree, Clean
  <2>2. page[h[t].page].on = t => page'[h[t].page] = page[h[t].page]
    BY <1>0, <2>1
  <2>3. page[h[t].page].st = "failed" => page'[h[t].page].st = "failed"
    BY <1>0, <2>1 DEF Parts, PagesWait
  <2> QED BY <1>0, <1>a, <2>1, <2>2, <2>3 DEF Parts, ChunksLate
<1>8. ChunksThere'
  <2> SUFFICES ASSUME NEW t \in Slots', h'[t].kind = "chunk", h'[t].page \in Clean'
               PROVE  /\ \A i \in 1..Chunks : i < h'[t].idx =>
                           disk'[NameOf[h'[t].page][h'[t].file]].there /\ i \in disk'[NameOf[h'[t].page][h'[t].file]].has
                      /\ h'[t].st \in {"copy", "end"} => disk'[NameOf[h'[t].page][h'[t].file]].there /\ ~h'[t].dead
                      /\ h'[t].st = "end" => h'[t].idx \in disk'[NameOf[h'[t].page][h'[t].file]].has
    BY DEF ChunksThere
  <2>1. t \in Slots /\ t \notin S /\ h[t].kind = "chunk" /\ h[t].page \in Clean /\ h[t].page \in Uploads
        /\ h[t].file \in 1..Files
    BY <1>0 DEF Parts, KindsAgree, ChunksAgree, Clean
  <2>2. disk'[NameOf[h[t].page][h[t].file]] = disk[NameOf[h[t].page][h[t].file]] /\ NameOf[h[t].page][h[t].file] # n
    BY <1>c, <2>1
  <2>3. h[t].st # "admit" => h'[t].dead = h[t].dead
    BY <2>1, <2>2 DEF Parts, ChunksAgree
  <2>4. /\ h'[t].page = h[t].page /\ h'[t].file = h[t].file /\ h'[t].idx = h[t].idx /\ h'[t].st = h[t].st
    BY <2>1
  <2>5. ChunksThere
    BY DEF Parts
  <2> HIDE DEF Removes
  <2> QED BY <2>1, <2>2, <2>3, <2>4, <2>5, ChunkThere
<1>9. SentThere'
  <2> SUFFICES ASSUME NEW p \in Uploads', p \in Clean', page'[p].file <= Files, NEW i \in (1..Chunks)', i < page'[p].idx
               PROVE  disk'[NameOf[p][page'[p].file]].there /\ i \in disk'[NameOf[p][page'[p].file]].has
    BY DEF SentThere
  <2>1. p \in Uploads /\ p \in Clean /\ page[p].file \in 1..Files /\ page[p].idx = page'[p].idx /\ page'[p].file = page[p].file
    BY <1>0, <1>a, CountsAssumption DEF Parts, PlacesAgree, Clean
  <2> QED BY <1>c, <2>1 DEF Parts, SentThere
<1>10. FormsThere'
  <2> SUFFICES ASSUME NEW t \in Slots', h'[t].kind = "form", h'[t].page \in Clean'
               PROVE  /\ h'[t].st = "read" => /\ ~h'[t].dead /\ disk'[h'[t].dest].there
                           /\ \A i \in 1..Chunks : i < h'[t].idx => i \in disk'[h'[t].dest].has
                      /\ \A f \in h'[t].saved : disk'[f[2]].there /\ disk'[f[2]].has = 1..Chunks
                      /\ h'[t].st = "create" => \A f \in h'[t].saved : f[2] # h'[t].dest
    BY DEF FormsThere
  <2>1. t \in Slots /\ t \notin S /\ h[t].kind = "form" /\ h[t].page \in Clean /\ h[t].page \in Forms /\ h[t].page \in Clean'
    BY <1>0 DEF Parts, KindsAgree, Clean
  <2>2. h[t].st = "read" => h[t].dest \in Names
    BY <1>0, <2>1, OwnNames DEF Parts, FormsAgree
  <2>3. h[t].dest # n /\ (h[t].st = "read" => disk'[h[t].dest] = disk[h[t].dest])
        /\ \A f \in h[t].saved : disk'[f[2]] = disk[f[2]]
    BY <1>d, <2>1, <2>2
  <2> QED BY <2>1, <2>3 DEF Parts, FormsThere
<1>11. WholeWhenTold' BY DEF Parts, WholeWhenTold, SameNames
<1> QED BY <1>1, <1>2, <1>3, <1>4, <1>5, <1>6, <1>7, <1>8, <1>9, <1>10, <1>11 DEF Parts

\* A request that goes on, its page, the others and the disk as they were.
Proceeds(s) ==
  /\ h'[s].kind = h[s].kind /\ h'[s].page = h[s].page /\ h'[s].gone = h[s].gone
  /\ \A t \in Slots \ {s} : Same(t) /\ h'[t].gone = h[t].gone /\ h'[t].dead = h[t].dead
  /\ page' = page /\ spoiled \subseteq spoiled' /\ reported' = reported

LEMMA ProceedsStep ==
  ASSUME ShareTypeOK, Parts, NEW s \in Slots, Proceeds(s)
  PROVE  PagesWait' /\ PlacesAgree' /\ OneFormEach' /\ WholeWhenTold'
<1> USE DEF Proceeds, Same
<1>2. PagesWait' BY DEF Parts, PagesWait
<1>4. PlacesAgree' BY DEF Parts, PlacesAgree
<1>5. OneFormEach' BY DEF Parts, OneFormEach
<1>11. WholeWhenTold' BY DEF Parts, WholeWhenTold, SameNames
<1> QED BY <1>2, <1>4, <1>5, <1>11

\* A chunk's request that goes on, and what it does to its file.
LEMMA ChunkProceeds ==
  ASSUME ShareTypeOK, Parts, NEW s \in Slots, Proceeds(s), h[s].kind = "chunk",
         h'[s].file = h[s].file, h'[s].idx = h[s].idx, h'[s].saved = h[s].saved,
         h'[s].st \in {"register", "check", "open", "copy", "end"},
         h'[s].dest = NameOf[h[s].page][h[s].file],
         \A m \in Names : m # NameOf[h[s].page][h[s].file] => disk'[m] = disk[m],
         h[s].idx # 1 \/ h[s].st # "open" =>
           \A m \in Names : (disk[m].there => disk'[m].there) /\ disk[m].has \subseteq disk'[m].has,
         \A m \in Names : disk'[m].has \subseteq 1..Chunks,
         h'[s].st \in {"copy", "end"} /\ h[s].page \in Clean =>
           disk'[NameOf[h[s].page][h[s].file]].there /\ ~h'[s].dead,
         h'[s].st = "end" /\ h[s].page \in Clean => h[s].idx \in disk'[NameOf[h[s].page][h[s].file]].has
  PROVE  Parts'
<1> USE DEF Same, Proceeds
<1>0. /\ None \notin Slots /\ None \notin Pages /\ None \notin {"chunk", "form", "down"}
      /\ Uploads \subseteq Pages /\ Forms \subseteq Pages /\ Uploads \subseteq Senders /\ Forms \subseteq Senders
      /\ Senders \subseteq Pages /\ Uploads \intersect Forms = {} /\ None \notin Forms
  BY NoneAssumption, KindsAssumption DEF Pages, Senders
<1>a. /\ h[s].page \in Uploads /\ h[s].page \in Senders /\ h[s].file \in 1..Files /\ h[s].idx \in 1..Chunks
      /\ NameOf[h[s].page][h[s].file] \in Names
  BY <1>0, NamesAssumption DEF Parts, KindsAgree, ChunksAgree
<1> DEFINE n == NameOf[h[s].page][h[s].file]
\* The name is another upload's only when they share it.
<1>b. ASSUME NEW p \in Clean, NEW i \in 1..Files, <<p, i>> # <<h[s].page, h[s].file>>
      PROVE  NameOf[p][i] # n /\ NameOf[p][i] \in Names /\ disk'[NameOf[p][i]] = disk[NameOf[p][i]]
  <2>1. p \in Senders /\ p \notin SameNames
    BY DEF Clean
  <2>2. NameOf[p][i] # n
    BY <1>a, <1>b, <2>1 DEF SameNames
  <2>3. NameOf[p][i] \in Names
    BY <2>1, NamesAssumption
  <2> QED BY <2>2, <2>3
<1>c. n \in Asked
  BY <1>a DEF Asked
<1>1. KindsAgree' BY <1>0 DEF Parts, KindsAgree
<1>2. PagesWait' /\ PlacesAgree' /\ OneFormEach' /\ WholeWhenTold' BY ProceedsStep
<1>3. ChunksAgree' BY <1>0, <1>a DEF Parts, ChunksAgree
<1>6. FormsAgree' BY <1>0, <1>a DEF Parts, FormsAgree, Own, Asked
<1>7. ChunksLate' BY <1>0, <1>a DEF Parts, ChunksLate, Clean
<1>8. ChunksThere'
  <2> SUFFICES ASSUME NEW t \in Slots', h'[t].kind = "chunk", h'[t].page \in Clean'
               PROVE  /\ \A i \in 1..Chunks : i < h'[t].idx =>
                           disk'[NameOf[h'[t].page][h'[t].file]].there /\ i \in disk'[NameOf[h'[t].page][h'[t].file]].has
                      /\ h'[t].st \in {"copy", "end"} => disk'[NameOf[h'[t].page][h'[t].file]].there /\ ~h'[t].dead
                      /\ h'[t].st = "end" => h'[t].idx \in disk'[NameOf[h'[t].page][h'[t].file]].has
    BY DEF ChunksThere
  <2>0. t \in Slots /\ h[t].page \in Clean /\ h[t].kind = "chunk" /\ h[t].page \in Uploads /\ h[t].file \in 1..Files
        /\ h[t].idx \in 1..Chunks /\ h'[t].page = h[t].page /\ h'[t].file = h[t].file /\ h'[t].idx = h[t].idx
        /\ NameOf[h[t].page][h[t].file] \in Names
    <3>1. t \in Slots /\ h'[t].kind = h[t].kind /\ h'[t].page = h[t].page /\ h'[t].file = h[t].file /\ h'[t].idx = h[t].idx
      OBVIOUS
    <3>2. h[t].page \in Clean /\ h[t].kind = "chunk"
      BY <3>1 DEF Clean
    <3>3. h[t].page \in Uploads /\ h[t].file \in 1..Files /\ h[t].idx \in 1..Chunks
      BY <3>1, <3>2 DEF Parts, KindsAgree, ChunksAgree
    <3>4. NameOf[h[t].page][h[t].file] \in Names
      BY <1>0, <3>3, NamesAssumption
    <3> QED BY <3>1, <3>2, <3>3, <3>4
  <2>1. CASE t = s
    <3>1. CASE h[s].idx = 1
      BY <1>a, <2>0, <2>1, <3>1
    <3>2. CASE h[s].idx # 1
      BY <1>a, <2>0, <2>1, <3>2 DEF Parts, ChunksThere
    <3> QED BY <3>1, <3>2
  <2>u. /\ ChunksThere /\ (t # s => h'[t].st = h[t].st /\ h'[t].dead = h[t].dead)
        /\ h[s].idx # 1 \/ h[s].st # "open" =>
           \A m \in Names : (disk[m].there => disk'[m].there) /\ disk[m].has \subseteq disk'[m].has
    BY <2>0 DEF Parts
  <2>2. CASE t # s /\ <<h[t].page, h[t].file>> # <<h[s].page, h[s].file>>
    <3>1. disk'[NameOf[h[t].page][h[t].file]] = disk[NameOf[h[t].page][h[t].file]]
      BY <1>b, <2>0, <2>2
    <3> HIDE DEF Proceeds
    <3> QED BY ONLY <2>0, <2>2, <2>u, <3>1, ChunkStays
  <2>3. CASE t # s /\ <<h[t].page, h[t].file>> = <<h[s].page, h[s].file>>
    <3>1. h[s].idx # 1
      BY <2>0, <2>3 DEF Parts, ChunksLate
    <3>2. /\ disk[NameOf[h[t].page][h[t].file]].there => disk'[NameOf[h[t].page][h[t].file]].there
          /\ disk[NameOf[h[t].page][h[t].file]].has \subseteq disk'[NameOf[h[t].page][h[t].file]].has
      BY ONLY <2>0, <2>u, <3>1
    <3> HIDE DEF Proceeds
    <3> QED BY ONLY <2>0, <2>3, <2>u, <3>2, ChunkStays
  <2> QED BY <2>1, <2>2, <2>3
<1>9. SentThere'
  <2> SUFFICES ASSUME NEW p \in Uploads', p \in Clean', page'[p].file <= Files, NEW i \in (1..Chunks)', i < page'[p].idx
               PROVE  disk'[NameOf[p][page'[p].file]].there /\ i \in disk'[NameOf[p][page'[p].file]].has
    BY DEF SentThere
  <2>1. /\ p \in Uploads /\ p \in Clean /\ page[p].file \in 1..Files /\ page[p].idx \in 1..Chunks
        /\ page'[p] = page[p] /\ NameOf[p][page[p].file] \in Names
    BY <1>0, CountsAssumption, NamesAssumption DEF Parts, PlacesAgree, Clean
  <2>2. disk[NameOf[p][page[p].file]].there /\ i \in disk[NameOf[p][page[p].file]].has
    BY <2>1 DEF Parts, SentThere
  <2>3. CASE <<p, page[p].file>> # <<h[s].page, h[s].file>>
    BY <1>b, <2>1, <2>2, <2>3
  <2>4. CASE <<p, page[p].file>> = <<h[s].page, h[s].file>>
    <3>1. h[s].idx # 1
      BY <2>1, <2>4, <1>a DEF Parts, ChunksLate
    <3> QED BY <2>1, <2>2, <3>1
  <2> QED BY <2>3, <2>4
<1>10. FormsThere'
  <2> SUFFICES ASSUME NEW t \in Slots', h'[t].kind = "form", h'[t].page \in Clean'
               PROVE  /\ h'[t].st = "read" => /\ ~h'[t].dead /\ disk'[h'[t].dest].there
                           /\ \A i \in 1..Chunks : i < h'[t].idx => i \in disk'[h'[t].dest].has
                      /\ \A f \in h'[t].saved : disk'[f[2]].there /\ disk'[f[2]].has = 1..Chunks
                      /\ h'[t].st = "create" => \A f \in h'[t].saved : f[2] # h'[t].dest
    BY DEF FormsThere
  <2>1. /\ t \in Slots /\ t # s /\ h[t].kind = "form" /\ h[t].page \in Clean /\ h[t].page \in Forms
        /\ h'[t].page = h[t].page /\ h'[t].dest = h[t].dest /\ h'[t].saved = h[t].saved
    BY <1>0 DEF Parts, KindsAgree, Clean
  <2>2. ASSUME NEW m \in Own(h[t].page)
        PROVE  m # n /\ m \in Names /\ disk'[m] = disk[m]
    <3>1. CASE m \in Names \ Asked
      BY <1>c, <3>1
    <3>2. CASE m \notin Names \ Asked
      <4>1. PICK i \in 1..Files : m = NameOf[h[t].page][i]
        BY <3>2 DEF Own
      <4>2. h[t].page # h[s].page
        BY <1>0, <1>a, <2>1
      <4> QED BY <1>b, <2>1, <4>1, <4>2
    <3> QED BY <3>1, <3>2
  <2>3. /\ \A f \in h[t].saved : disk'[f[2]] = disk[f[2]]
        /\ h[t].st = "read" => disk'[h[t].dest] = disk[h[t].dest]
    BY <2>1, <2>2 DEF Parts, FormsAgree
  <2> QED BY <2>1, <2>3 DEF Parts, FormsThere
<1> QED BY <1>1, <1>2, <1>3, <1>6, <1>7, <1>8, <1>9, <1>10 DEF Parts

LEMMA NamesApart ==
  ASSUME NEW p \in Clean, NEW q \in Senders, p # q, NEW i \in 1..Files, NEW j \in 1..Files
  PROVE  NameOf[q][j] # NameOf[p][i]
<1>1. p \in Senders /\ p \notin SameNames
  BY DEF Clean
<1>2. <<q, j>> # <<p, i>>
  OBVIOUS
<1> QED BY <1>1, <1>2 DEF SameNames

LEMMA FormProceeds ==
  ASSUME ShareTypeOK, Parts, NEW s \in Slots, Proceeds(s), h[s].kind = "form",
         NEW n \in Names, n \in Own(h[s].page),
         h'[s].st \in {"part", "create", "read"},
         h'[s].file \in 1..(Files + 1),
         h'[s].st \in {"create", "read"} => h'[s].file \in 1..Files /\ h'[s].dest \in Own(h[s].page),
         h'[s].st = "read" => h'[s].idx \in 1..(Chunks + 1),
         \A f \in h'[s].saved : f[2] \in Own(h[s].page),
         \A m \in Names : m # n => disk'[m] = disk[m],
         \/ (disk[n].there => disk'[n].there) /\ disk[n].has \subseteq disk'[n].has
         \/ ~disk[n].there
         \/ UsersOf(n) \ {h[s].page} \subseteq spoiled',
         disk'[n].has \subseteq 1..Chunks,
         h[s].page \in Clean /\ h[s].page \notin spoiled' =>
           /\ h'[s].st = "read" => /\ ~h'[s].dead /\ disk'[h'[s].dest].there
                                   /\ \A i \in 1..Chunks : i < h'[s].idx => i \in disk'[h'[s].dest].has
           /\ \A f \in h'[s].saved : disk'[f[2]].there /\ disk'[f[2]].has = 1..Chunks
           /\ h'[s].st = "create" => \A f \in h'[s].saved : f[2] # h'[s].dest
  PROVE  Parts'
<1> USE DEF Same, Proceeds
<1>0. /\ None \notin Slots /\ None \notin Pages /\ None \notin {"chunk", "form", "down"}
      /\ Uploads \subseteq Pages /\ Forms \subseteq Pages /\ Uploads \subseteq Senders /\ Forms \subseteq Senders
      /\ Senders \subseteq Pages /\ Uploads \intersect Forms = {} /\ None \notin Forms
  BY NoneAssumption, KindsAssumption DEF Pages, Senders
<1>a. h[s].page \in Forms /\ h[s].page \in Senders
  BY <1>0 DEF Parts, KindsAgree
\* The name is not one that another came with and does not share.
<1>b. ASSUME NEW p \in Clean, p # h[s].page, NEW i \in 1..Files
      PROVE  NameOf[p][i] # n /\ NameOf[p][i] \in Names /\ disk'[NameOf[p][i]] = disk[NameOf[p][i]]
  <2>1. p \in Senders /\ p \notin SameNames /\ NameOf[p][i] \in Names
    BY NameOfType DEF Clean
  <2>2. NameOf[p][i] \in Asked
    BY <2>1 DEF Asked
  <2>3. NameOf[p][i] # n
    <3>1. CASE n \in Names \ Asked
      BY <2>2, <3>1
    <3>2. CASE n \notin Names \ Asked
      <4>1. PICK j \in 1..Files : n = NameOf[h[s].page][j]
        BY <3>2 DEF Own
      <4>2. h[s].page \in Senders /\ p # h[s].page
        BY <1>a, <1>b
      <4>3. NameOf[h[s].page][j] # NameOf[p][i]
        BY <4>2, NamesApart
      <4> QED BY <4>1, <4>3
    <3> QED BY <3>1, <3>2
  <2> QED BY <2>1, <2>3
<1>c. Clean' \subseteq Clean
  BY DEF Clean
<1>1. KindsAgree' BY <1>0, <1>a DEF Parts, KindsAgree
<1>2. PagesWait' /\ PlacesAgree' /\ OneFormEach' /\ WholeWhenTold' BY ProceedsStep
<1>3. ChunksAgree' BY <1>0, <1>a DEF Parts, ChunksAgree
<1>6. FormsAgree'
  <2> SUFFICES ASSUME NEW t \in Slots', h'[t].kind = "form"
               PROVE  /\ h'[t].file \in 1..(Files + 1)
                      /\ h'[t].st \in {"create", "read"} => h'[t].file \in 1..Files /\ h'[t].dest \in Own(h'[t].page)
                      /\ \A f \in h'[t].saved : f[2] \in Own(h'[t].page)
                      /\ h'[t].st = "read" => h'[t].idx \in 1..(Chunks + 1)
    BY DEF FormsAgree, Own, Asked
  <2>1. CASE t = s
    BY <2>1
  <2>2. CASE t # s
    <3>1. /\ t \in Slots /\ h[t].kind = "form" /\ h'[t].page = h[t].page /\ h'[t].file = h[t].file
          /\ h'[t].st = h[t].st /\ h'[t].dest = h[t].dest /\ h'[t].saved = h[t].saved /\ h'[t].idx = h[t].idx
      BY <2>2
    <3>2. FormsAgree
      BY DEF Parts
    <3> QED BY ONLY <3>1, <3>2 DEF FormsAgree
  <2> QED BY <2>1, <2>2
<1>7. ChunksLate' BY <1>0, <1>a, <1>c DEF Parts, ChunksLate, KindsAgree
<1>8. ChunksThere'
  <2> SUFFICES ASSUME NEW t \in Slots', h'[t].kind = "chunk", h'[t].page \in Clean'
               PROVE  /\ \A i \in 1..Chunks : i < h'[t].idx =>
                           disk'[NameOf[h'[t].page][h'[t].file]].there /\ i \in disk'[NameOf[h'[t].page][h'[t].file]].has
                      /\ h'[t].st \in {"copy", "end"} => disk'[NameOf[h'[t].page][h'[t].file]].there /\ ~h'[t].dead
                      /\ h'[t].st = "end" => h'[t].idx \in disk'[NameOf[h'[t].page][h'[t].file]].has
    BY DEF ChunksThere
  <2>0. t \in Slots /\ t # s /\ h[t].page \in Clean /\ h[t].kind = "chunk" /\ h[t].page \in Uploads /\ h[t].file \in 1..Files
        /\ h'[t].page = h[t].page /\ h'[t].file = h[t].file /\ h'[t].idx = h[t].idx
        /\ h'[t].st = h[t].st /\ h'[t].dead = h[t].dead /\ h[t].page # h[s].page
    BY <1>0, <1>a, <1>c DEF Parts, KindsAgree, ChunksAgree
  <2>1. disk'[NameOf[h[t].page][h[t].file]] = disk[NameOf[h[t].page][h[t].file]]
    BY <1>b, <2>0
  <2>2. ChunksThere BY DEF Parts
  <2> HIDE DEF Proceeds
  <2> QED BY ONLY <2>0, <2>1, <2>2, ChunkStays
<1>9. SentThere'
  <2> SUFFICES ASSUME NEW p \in Uploads', p \in Clean', page'[p].file <= Files, NEW i \in (1..Chunks)', i < page'[p].idx
               PROVE  disk'[NameOf[p][page'[p].file]].there /\ i \in disk'[NameOf[p][page'[p].file]].has
    BY DEF SentThere
  <2>1. /\ p \in Uploads /\ p \in Clean /\ page[p].file \in 1..Files /\ page[p].idx \in 1..Chunks
        /\ page'[p] = page[p] /\ p # h[s].page
    BY <1>0, <1>a, <1>c, CountsAssumption DEF Parts, PlacesAgree
  <2>2. disk[NameOf[p][page[p].file]].there /\ i \in disk[NameOf[p][page[p].file]].has
    BY <2>1 DEF Parts, SentThere
  <2> QED BY <1>b, <2>1, <2>2
<1>10. FormsThere'
  <2> SUFFICES ASSUME NEW t \in Slots', h'[t].kind = "form", h'[t].page \in Clean'
               PROVE  /\ h'[t].st = "read" => /\ ~h'[t].dead /\ disk'[h'[t].dest].there
                           /\ \A i \in 1..Chunks : i < h'[t].idx => i \in disk'[h'[t].dest].has
                      /\ \A f \in h'[t].saved : disk'[f[2]].there /\ disk'[f[2]].has = 1..Chunks
                      /\ h'[t].st = "create" => \A f \in h'[t].saved : f[2] # h'[t].dest
    BY DEF FormsThere
  <2>1. CASE t = s
    BY <2>1, <1>c DEF Clean
  <2>2. CASE t # s
    <3>1. /\ t \in Slots /\ t # s /\ h[t].kind = "form" /\ h[t].page \in Clean /\ h[t].page \in Forms
          /\ h'[t].page = h[t].page /\ h'[t].dest = h[t].dest /\ h'[t].saved = h[t].saved
          /\ h'[t].st = h[t].st /\ h'[t].idx = h[t].idx /\ h'[t].dead = h[t].dead
          /\ h[t].page # h[s].page /\ h[t].page \notin spoiled' /\ h[t].page \in Senders
      BY <1>0, <1>a, <1>c, <2>2 DEF Parts, KindsAgree, OneFormEach, Clean
    <3>2. /\ h[t].st = "read" => /\ ~h[t].dead /\ disk[h[t].dest].there /\ h[t].dest \in Names
                           /\ \A i \in 1..Chunks : i < h[t].idx => i \in disk[h[t].dest].has
          /\ \A f \in h[t].saved : disk[f[2]].there /\ disk[f[2]].has = 1..Chunks /\ f[2] \in Names
          /\ h[t].st = "create" => \A f \in h[t].saved : f[2] # h[t].dest
      BY <3>1, OwnNames DEF Parts, FormsThere, FormsAgree
    <3>3. CASE h[t].page \in UsersOf(n)
      <4>1. ~disk[n].there \/ ((disk[n].there => disk'[n].there) /\ disk[n].has \subseteq disk'[n].has)
        BY <3>1, <3>3
      <4>2. \A m \in Names : disk[m].there => disk'[m].there /\ disk[m].has \subseteq disk'[m].has
        <5> SUFFICES ASSUME NEW m \in Names, disk[m].there
                     PROVE  disk'[m].there /\ disk[m].has \subseteq disk'[m].has
          OBVIOUS
        <5>1. CASE m = n
          BY ONLY <4>1, <5>1, disk[m].there
        <5>2. CASE m # n
          <6>1. disk'[m] = disk[m]
            BY <5>2
          <6> QED BY ONLY <6>1, disk[m].there
        <5> QED BY <5>1, <5>2
      <4>3. \A m \in Names : disk[m].has = 1..Chunks => disk'[m].has \subseteq 1..Chunks
        <5> SUFFICES ASSUME NEW m \in Names, disk[m].has = 1..Chunks
                     PROVE  disk'[m].has \subseteq 1..Chunks
          OBVIOUS
        <5>1. m = n \/ disk'[m] = disk[m]
          OBVIOUS
        <5>2. disk'[n].has \subseteq 1..Chunks
          OBVIOUS
        <5> QED BY ONLY <5>1, <5>2, disk[m].has = 1..Chunks
      <4> HIDE DEF Proceeds
      <4>4. h[t].st = "read" =>
              disk'[h[t].dest].there /\ \A i \in 1..Chunks : i < h[t].idx => i \in disk'[h[t].dest].has
        BY ONLY <3>2, <4>2
      <4>5. \A f \in h[t].saved : disk'[f[2]].there /\ disk'[f[2]].has = 1..Chunks
        BY ONLY <3>2, <4>2, <4>3
      <4> QED BY ONLY <3>1, <3>2, <4>4, <4>5
    <3>4. CASE h[t].page \notin UsersOf(n)
      <4>1. h[t].dest # n /\ \A f \in h[t].saved : f[2] # n
        BY <3>1, <3>4 DEF UsersOf
      <4>2. h[t].st = "read" => disk'[h[t].dest] = disk[h[t].dest]
        BY <3>2, <4>1
      <4>3. \A f \in h[t].saved : disk'[f[2]] = disk[f[2]]
        BY <3>2, <4>1
      <4> HIDE DEF Proceeds
      <4> QED BY ONLY <3>1, <3>2, <4>2, <4>3
    <3> QED BY <3>3, <3>4
  <2> QED BY <2>1, <2>2
<1> QED BY <1>1, <1>2, <1>3, <1>6, <1>7, <1>8, <1>9, <1>10 DEF Parts

\* A request of a download goes on, and its page with it.
LEMMA DownProceeds ==
  ASSUME ShareTypeOK, Parts, NEW s \in Slots, h[s].kind = "down",
         h'[s].kind = h[s].kind, h'[s].page = h[s].page, h'[s].gone = h[s].gone,
         h'[s].st = "write",
         \A t \in Slots \ {s} : Same(t) /\ h'[t].gone = h[t].gone /\ h'[t].dead = h[t].dead,
         disk' = disk, spoiled' = spoiled, reported' = reported,
         \A p \in Pages : p # h[s].page => page'[p] = page[p],
         page'[h[s].page].st = page[h[s].page].st, page'[h[s].page].on = page[h[s].page].on
  PROVE  Parts'
<1> USE DEF Same
<1>0. /\ None \notin Slots /\ None \notin Pages /\ None \notin {"chunk", "form", "down"}
      /\ Uploads \subseteq Pages /\ Forms \subseteq Pages /\ Uploads \subseteq Senders /\ Forms \subseteq Senders
      /\ Senders \subseteq Pages /\ Uploads \intersect Forms = {} /\ None \notin Forms
      /\ Senders \intersect Downloads = {}
  BY NoneAssumption, KindsAssumption DEF Pages, Senders
<1>a. h[s].page \in Downloads /\ h[s].page \notin Senders /\ h[s].page \in Pages
  BY <1>0 DEF Parts, KindsAgree, Pages
<1>b. \A p \in Senders : page'[p] = page[p]
  BY <1>0, <1>a
<1>1. KindsAgree' BY <1>0, <1>a DEF Parts, KindsAgree
<1>2. PagesWait' BY <1>0 DEF Parts, PagesWait
<1>3. ChunksAgree' BY <1>0, <1>b DEF Parts, ChunksAgree, KindsAgree
<1>4. PlacesAgree' BY <1>0, <1>b DEF Parts, PlacesAgree
<1>5. OneFormEach' BY <1>0, <1>a, <1>b DEF Parts, OneFormEach
<1>6. FormsAgree' BY <1>0 DEF Parts, FormsAgree, Own, Asked
<1>7. ChunksLate'
  <2>1. ChunksLate /\ KindsAgree
    BY DEF Parts
  <2> QED BY <1>0, <1>a, <1>b, <2>1 DEF ChunksLate, Clean, KindsAgree
<1>8. ChunksThere'
  <2> SUFFICES ASSUME NEW t \in Slots', h'[t].kind = "chunk", h'[t].page \in Clean'
               PROVE  /\ \A i \in 1..Chunks : i < h'[t].idx =>
                           disk'[NameOf[h'[t].page][h'[t].file]].there /\ i \in disk'[NameOf[h'[t].page][h'[t].file]].has
                      /\ h'[t].st \in {"copy", "end"} => disk'[NameOf[h'[t].page][h'[t].file]].there /\ ~h'[t].dead
                      /\ h'[t].st = "end" => h'[t].idx \in disk'[NameOf[h'[t].page][h'[t].file]].has
    BY DEF ChunksThere
  <2>1. /\ t \in Slots /\ t # s /\ h[t].kind = "chunk" /\ h[t].page \in Clean
        /\ h'[t].page = h[t].page /\ h'[t].file = h[t].file /\ h'[t].idx = h[t].idx
        /\ h'[t].st = h[t].st /\ h'[t].dead = h[t].dead
    BY DEF Clean
  <2>2. ChunksThere
    BY DEF Parts
  <2>3. disk' = disk
    OBVIOUS
  <2> QED BY ONLY <2>1, <2>2, <2>3, ChunkStays
<1>9. SentThere' BY <1>0, <1>b DEF Parts, SentThere, Clean
<1>10. FormsThere' BY <1>0 DEF Parts, FormsThere, Clean
<1>11. WholeWhenTold' BY DEF Parts, WholeWhenTold, SameNames
<1> QED BY <1>1, <1>2, <1>3, <1>4, <1>5, <1>6, <1>7, <1>8, <1>9, <1>10, <1>11 DEF Parts

\* A chunk's request that ends well: its page goes to the next chunk.
ChunkOver(s) ==
  /\ h'[s].kind = None /\ h'[s].page = None /\ h'[s].st = "none"
  /\ \A t \in Slots \ {s} : Same(t) /\ h'[t].gone = h[t].gone /\ h'[t].dead = h[t].dead
  /\ disk' = disk /\ spoiled' = spoiled
  /\ \A p \in Pages : page[p].on # s => page'[p] = page[p]
  /\ \A p \in Pages : page[p].on = s =>
       /\ page'[p].on = None /\ page'[p].st = "next"
       /\ page'[p].file = IF h[s].idx = Chunks THEN page[p].file + 1 ELSE page[p].file
       /\ page'[p].idx = IF h[s].idx = Chunks THEN 1 ELSE page[p].idx + 1

LEMMA ChunkOverStep ==
  ASSUME ShareTypeOK, Parts, NEW s \in Slots, ChunkOver(s), h[s].kind = "chunk", h[s].st = "end"
  PROVE  /\ KindsAgree' /\ PagesWait' /\ ChunksAgree' /\ PlacesAgree' /\ OneFormEach'
         /\ FormsAgree' /\ ChunksLate' /\ ChunksThere' /\ SentThere' /\ FormsThere'
<1> USE DEF ChunkOver, Same
<1>0. /\ None \notin Slots /\ None \notin Pages /\ None \notin {"chunk", "form", "down"}
      /\ Uploads \subseteq Pages /\ Forms \subseteq Pages /\ Uploads \subseteq Senders /\ Forms \subseteq Senders
      /\ Senders \subseteq Pages /\ Uploads \intersect Forms = {} /\ Chunks \in Nat \ {0} /\ Files \in Nat \ {0}
  BY NoneAssumption, KindsAssumption, CountsAssumption DEF Pages, Senders
<1>a. /\ h[s].page \in Uploads /\ h[s].file \in 1..Files /\ h[s].idx \in 1..Chunks /\ h[s].page \in Pages
      /\ \A p \in Pages : page[p].on = s =>
           p = h[s].page /\ page[p].file = h[s].file /\ page[p].idx = h[s].idx /\ page[p].st = "sent"
  BY <1>0 DEF Parts, KindsAgree, ChunksAgree, PagesWait
<1>1. KindsAgree' BY <1>0 DEF Parts, KindsAgree
<1>2. PagesWait' BY <1>0 DEF Parts, PagesWait
<1>4. PlacesAgree'
  <2>1. ASSUME NEW p \in Uploads
        PROVE  page'[p].file \in 1..(Files + 1) /\ page'[p].idx \in 1..Chunks
    <3>0. page[p].file \in 1..(Files + 1) /\ page[p].idx \in 1..Chunks
      BY DEF Parts, PlacesAgree
    <3>1. CASE page[p].on # s
      BY <1>0, <3>0, <3>1
    <3>2. CASE page[p].on = s
      BY <1>0, <1>a, <3>0, <3>2
    <3> QED BY <3>1, <3>2
  <2>2. ASSUME NEW p \in Senders, page'[p].st \in {"idle", "asking"}
        PROVE  page'[p].idx = 1 /\ \A t \in Slots : h'[t].page # p
    BY <1>0, <2>2 DEF Parts, PlacesAgree
  <2> QED BY <2>1, <2>2 DEF PlacesAgree
<1>5. OneFormEach' BY <1>0, <1>a DEF Parts, OneFormEach
<1>6. FormsAgree' BY <1>0 DEF Parts, FormsAgree, Own, Asked
<1>3. ChunksAgree'
  <2> SUFFICES ASSUME NEW t \in Slots', h'[t].kind = "chunk"
               PROVE  /\ h'[t].file \in 1..Files /\ h'[t].idx \in 1..Chunks
                      /\ h'[t].st # "admit" => h'[t].dest = NameOf[h'[t].page][h'[t].file]
                      /\ page'[h'[t].page].on = t => page'[h'[t].page].file = h'[t].file /\ page'[h'[t].page].idx = h'[t].idx
    BY DEF ChunksAgree
  <2>1. t \in Slots /\ t # s /\ h[t].kind = "chunk" /\ h[t].page \in Pages
    BY <1>0 DEF Parts, KindsAgree
  <2>2. page'[h[t].page].on = t => page'[h[t].page] = page[h[t].page] /\ page[h[t].page].on = t
    BY <1>0, <2>1
  <2> QED BY <2>1, <2>2 DEF Parts, ChunksAgree
<1>7. ChunksLate'
  <2> SUFFICES ASSUME NEW t \in Slots', h'[t].kind = "chunk", h'[t].page \in Clean'
               PROVE  /\ \/ h'[t].file < page'[h'[t].page].file
                         \/ h'[t].file = page'[h'[t].page].file /\ h'[t].idx <= page'[h'[t].page].idx
                      /\ h'[t].idx = 1 =>
                           /\ page'[h'[t].page].file = h'[t].file /\ page'[h'[t].page].idx = 1
                           /\ page'[h'[t].page].on = t \/ page'[h'[t].page].st = "failed"
                           /\ \A u \in Slots : h'[u].page = h'[t].page /\ h'[u].file = h'[t].file => u = t
    BY DEF ChunksLate
  <2>1. /\ t \in Slots /\ t # s /\ h[t].kind = "chunk" /\ h[t].page \in Clean /\ h[t].page \in Uploads
        /\ h'[t].page = h[t].page /\ h'[t].file = h[t].file /\ h'[t].idx = h[t].idx
        /\ h[t].file \in Nat /\ h[t].idx \in 1..Chunks
        /\ page[h[t].page].file \in Nat /\ page[h[t].page].idx \in 1..Chunks
    BY <1>0 DEF Parts, KindsAgree, ChunksAgree, PlacesAgree, Clean
  <2>2. CASE page[h[t].page].on # s
    BY <1>0, <2>1, <2>2 DEF Parts, ChunksLate
  <2>3. CASE page[h[t].page].on = s
    <3>1. h[t].page = h[s].page /\ page[h[t].page].file = h[s].file /\ page[h[t].page].idx = h[s].idx
          /\ page[h[t].page].st = "sent"
      BY <1>0, <1>a, <2>1, <2>3
    <3>2. h[t].idx # 1
      BY <1>0, <2>1, <2>3, <3>1 DEF Parts, ChunksLate
    <3>3. \/ h[t].file < page[h[t].page].file
          \/ h[t].file = page[h[t].page].file /\ h[t].idx <= page[h[t].page].idx
      BY <2>1 DEF Parts, ChunksLate
    <3>4. /\ page'[h[t].page].file = IF h[s].idx = Chunks THEN page[h[t].page].file + 1 ELSE page[h[t].page].file
          /\ page'[h[t].page].idx = IF h[s].idx = Chunks THEN 1 ELSE page[h[t].page].idx + 1
      BY <1>0, <2>1, <2>3
    <3> HIDE DEF ChunkOver
    <3> QED BY <1>a, <2>1, <3>2, <3>3, <3>4
  <2> QED BY <2>2, <2>3
<1>8. ChunksThere' BY <1>0 DEF Parts, ChunksThere, Clean
<1>9. SentThere'
  <2> SUFFICES ASSUME NEW p \in Uploads', p \in Clean', page'[p].file <= Files, NEW i \in (1..Chunks)', i < page'[p].idx
               PROVE  disk'[NameOf[p][page'[p].file]].there /\ i \in disk'[NameOf[p][page'[p].file]].has
    BY DEF SentThere
  <2>1. /\ p \in Uploads /\ p \in Pages /\ p \in Clean /\ page[p].file \in Nat /\ page[p].idx \in 1..Chunks
    BY <1>0 DEF Parts, PlacesAgree, Clean
  <2>2. CASE page[p].on # s
    BY <2>1, <2>2 DEF Parts, SentThere
  <2>3. CASE page[p].on = s /\ h[s].idx = Chunks
    BY <1>0, <2>1, <2>3
  <2>4. CASE page[p].on = s /\ h[s].idx # Chunks
    <3>1. p = h[s].page /\ page[p].file = h[s].file /\ page[p].idx = h[s].idx
      BY <1>a, <2>1, <2>4
    <3>2. page'[p].file = h[s].file /\ page'[p].idx = h[s].idx + 1
      BY <2>1, <2>4, <3>1
    <3>3. /\ \A j \in 1..Chunks : j < h[s].idx =>
               disk[NameOf[p][h[s].file]].there /\ j \in disk[NameOf[p][h[s].file]].has
          /\ disk[NameOf[p][h[s].file]].there /\ h[s].idx \in disk[NameOf[p][h[s].file]].has
      BY <2>1, <3>1, ChunkThere DEF Parts
    <3> QED BY <1>a, <3>2, <3>3
  <2> QED BY <2>2, <2>3, <2>4
<1>10. FormsThere' BY <1>0 DEF Parts, FormsThere, Clean
<1> QED BY <1>1, <1>2, <1>3, <1>4, <1>5, <1>6, <1>7, <1>8, <1>9, <1>10

Steps == {"admit", "register", "check", "open", "copy", "end", "part", "create", "read", "write"}

\* What the requests are after one had some of its fields set.
Set(hs, hn, s, st, f, i, d, sv, w, dd) ==
  /\ hn \in [Slots -> Handlers]
  /\ hn[s].kind = hs[s].kind /\ hn[s].page = hs[s].page /\ hn[s].gone = hs[s].gone
  /\ hn[s].st = st /\ hn[s].file = f /\ hn[s].idx = i /\ hn[s].dest = d /\ hn[s].saved = sv
  /\ hn[s].wait = w /\ hn[s].dead = dd
  /\ \A t \in Slots \ {s} : hn[t] = hs[t]

LEMMA Set_st ==
  ASSUME NEW hs \in [Slots -> Handlers], NEW s \in Slots, NEW x \in Steps
  PROVE  Set(hs, [hs EXCEPT ![s].st = x], s, x, hs[s].file, hs[s].idx, hs[s].dest, hs[s].saved, hs[s].wait, hs[s].dead)
<1>1. hs[s] \in Handlers
  OBVIOUS
<1>2. [hs[s] EXCEPT !.st = x] \in Handlers
  BY <1>1 DEF Handlers, Steps
<1>3. [hs EXCEPT ![s].st = x] \in [Slots -> Handlers]
  BY <1>2
<1> QED BY <1>1, <1>3 DEF Set, Handlers

LEMMA Set_file ==
  ASSUME NEW hs \in [Slots -> Handlers], NEW s \in Slots, NEW x \in Nat
  PROVE  Set(hs, [hs EXCEPT ![s].file = x], s, hs[s].st, x, hs[s].idx, hs[s].dest, hs[s].saved, hs[s].wait, hs[s].dead)
<1>1. hs[s] \in Handlers
  OBVIOUS
<1>2. [hs[s] EXCEPT !.file = x] \in Handlers
  BY <1>1 DEF Handlers, Steps
<1>3. [hs EXCEPT ![s].file = x] \in [Slots -> Handlers]
  BY <1>2
<1> QED BY <1>1, <1>3 DEF Set, Handlers

LEMMA Set_idx ==
  ASSUME NEW hs \in [Slots -> Handlers], NEW s \in Slots, NEW x \in Nat
  PROVE  Set(hs, [hs EXCEPT ![s].idx = x], s, hs[s].st, hs[s].file, x, hs[s].dest, hs[s].saved, hs[s].wait, hs[s].dead)
<1>1. hs[s] \in Handlers
  OBVIOUS
<1>2. [hs[s] EXCEPT !.idx = x] \in Handlers
  BY <1>1 DEF Handlers, Steps
<1>3. [hs EXCEPT ![s].idx = x] \in [Slots -> Handlers]
  BY <1>2
<1> QED BY <1>1, <1>3 DEF Set, Handlers

LEMMA Set_dest ==
  ASSUME NEW hs \in [Slots -> Handlers], NEW s \in Slots, NEW x \in Names \union {None}
  PROVE  Set(hs, [hs EXCEPT ![s].dest = x], s, hs[s].st, hs[s].file, hs[s].idx, x, hs[s].saved, hs[s].wait, hs[s].dead)
<1>1. hs[s] \in Handlers
  OBVIOUS
<1>2. [hs[s] EXCEPT !.dest = x] \in Handlers
  BY <1>1 DEF Handlers, Steps
<1>3. [hs EXCEPT ![s].dest = x] \in [Slots -> Handlers]
  BY <1>2
<1> QED BY <1>1, <1>3 DEF Set, Handlers

LEMMA Set_saved ==
  ASSUME NEW hs \in [Slots -> Handlers], NEW s \in Slots, NEW x \in SUBSET ((1..Files) \X Names)
  PROVE  Set(hs, [hs EXCEPT ![s].saved = x], s, hs[s].st, hs[s].file, hs[s].idx, hs[s].dest, x, hs[s].wait, hs[s].dead)
<1>1. hs[s] \in Handlers
  OBVIOUS
<1>2. [hs[s] EXCEPT !.saved = x] \in Handlers
  BY <1>1 DEF Handlers, Steps
<1>3. [hs EXCEPT ![s].saved = x] \in [Slots -> Handlers]
  BY <1>2
<1> QED BY <1>1, <1>3 DEF Set, Handlers

LEMMA Set_wait ==
  ASSUME NEW hs \in [Slots -> Handlers], NEW s \in Slots, NEW x \in BOOLEAN
  PROVE  Set(hs, [hs EXCEPT ![s].wait = x], s, hs[s].st, hs[s].file, hs[s].idx, hs[s].dest, hs[s].saved, x, hs[s].dead)
<1>1. hs[s] \in Handlers
  OBVIOUS
<1>2. [hs[s] EXCEPT !.wait = x] \in Handlers
  BY <1>1 DEF Handlers, Steps
<1>3. [hs EXCEPT ![s].wait = x] \in [Slots -> Handlers]
  BY <1>2
<1> QED BY <1>1, <1>3 DEF Set, Handlers

LEMMA Set_dead ==
  ASSUME NEW hs \in [Slots -> Handlers], NEW s \in Slots, NEW x \in BOOLEAN
  PROVE  Set(hs, [hs EXCEPT ![s].dead = x], s, hs[s].st, hs[s].file, hs[s].idx, hs[s].dest, hs[s].saved, hs[s].wait, x)
<1>1. hs[s] \in Handlers
  OBVIOUS
<1>2. [hs[s] EXCEPT !.dead = x] \in Handlers
  BY <1>1 DEF Handlers, Steps
<1>3. [hs EXCEPT ![s].dead = x] \in [Slots -> Handlers]
  BY <1>2
<1> QED BY <1>1, <1>3 DEF Set, Handlers

LEMMA Set_st_dest ==
  ASSUME NEW hs \in [Slots -> Handlers], NEW s \in Slots, NEW x \in Steps, NEW y \in Names \union {None}
  PROVE  Set(hs, [hs EXCEPT ![s].st = x, ![s].dest = y], s, x, hs[s].file, hs[s].idx, y, hs[s].saved, hs[s].wait, hs[s].dead)
<1>1. PICK h1 : h1 = [hs EXCEPT ![s].st = x]
  OBVIOUS
<1>2. Set(hs, h1, s, x, hs[s].file, hs[s].idx, hs[s].dest, hs[s].saved, hs[s].wait, hs[s].dead)
  BY <1>1, Set_st
<1>3. PICK h2 : h2 = [h1 EXCEPT ![s].dest = y]
  OBVIOUS
<1>4. Set(h1, h2, s, h1[s].st, h1[s].file, h1[s].idx, y, h1[s].saved, h1[s].wait, h1[s].dead)
  <2>1. h1 \in [Slots -> Handlers]
    BY <1>2 DEF Set
  <2> QED BY <1>3, <2>1, Set_dest
<1>5. Set(hs, h2, s, x, hs[s].file, hs[s].idx, y, hs[s].saved, hs[s].wait, hs[s].dead)
  BY <1>2, <1>4 DEF Set
<1>6. h2 = [hs EXCEPT ![s].st = x, ![s].dest = y]
  BY <1>1, <1>3
<1> QED BY <1>5, <1>6

LEMMA Set_st_dead ==
  ASSUME NEW hs \in [Slots -> Handlers], NEW s \in Slots, NEW x \in Steps, NEW y \in BOOLEAN
  PROVE  Set(hs, [hs EXCEPT ![s].st = x, ![s].dead = y], s, x, hs[s].file, hs[s].idx, hs[s].dest, hs[s].saved, hs[s].wait, y)
<1>1. PICK h1 : h1 = [hs EXCEPT ![s].st = x]
  OBVIOUS
<1>2. Set(hs, h1, s, x, hs[s].file, hs[s].idx, hs[s].dest, hs[s].saved, hs[s].wait, hs[s].dead)
  BY <1>1, Set_st
<1>3. PICK h2 : h2 = [h1 EXCEPT ![s].dead = y]
  OBVIOUS
<1>4. Set(h1, h2, s, h1[s].st, h1[s].file, h1[s].idx, h1[s].dest, h1[s].saved, h1[s].wait, y)
  <2>1. h1 \in [Slots -> Handlers]
    BY <1>2 DEF Set
  <2> QED BY <1>3, <2>1, Set_dead
<1>5. Set(hs, h2, s, x, hs[s].file, hs[s].idx, hs[s].dest, hs[s].saved, hs[s].wait, y)
  BY <1>2, <1>4 DEF Set
<1>6. h2 = [hs EXCEPT ![s].st = x, ![s].dead = y]
  BY <1>1, <1>3
<1> QED BY <1>5, <1>6

LEMMA Set_st_file_saved ==
  ASSUME NEW hs \in [Slots -> Handlers], NEW s \in Slots, NEW x \in Steps, NEW y \in Nat, NEW z \in SUBSET ((1..Files) \X Names)
  PROVE  Set(hs, [hs EXCEPT ![s].st = x, ![s].file = y, ![s].saved = z], s, x, y, hs[s].idx, hs[s].dest, z, hs[s].wait, hs[s].dead)
<1>1. PICK h1 : h1 = [hs EXCEPT ![s].st = x]
  OBVIOUS
<1>2. Set(hs, h1, s, x, hs[s].file, hs[s].idx, hs[s].dest, hs[s].saved, hs[s].wait, hs[s].dead)
  BY <1>1, Set_st
<1>3. PICK h2 : h2 = [h1 EXCEPT ![s].file = y]
  OBVIOUS
<1>4. Set(h1, h2, s, h1[s].st, y, h1[s].idx, h1[s].dest, h1[s].saved, h1[s].wait, h1[s].dead)
  <2>1. h1 \in [Slots -> Handlers]
    BY <1>2 DEF Set
  <2> QED BY <1>3, <2>1, Set_file
<1>5. Set(hs, h2, s, x, y, hs[s].idx, hs[s].dest, hs[s].saved, hs[s].wait, hs[s].dead)
  BY <1>2, <1>4 DEF Set
<1>6. PICK h3 : h3 = [h2 EXCEPT ![s].saved = z]
  OBVIOUS
<1>7. Set(h2, h3, s, h2[s].st, h2[s].file, h2[s].idx, h2[s].dest, z, h2[s].wait, h2[s].dead)
  <2>1. h2 \in [Slots -> Handlers]
    BY <1>5 DEF Set
  <2> QED BY <1>6, <2>1, Set_saved
<1>8. Set(hs, h3, s, x, y, hs[s].idx, hs[s].dest, z, hs[s].wait, hs[s].dead)
  BY <1>5, <1>7 DEF Set
<1>9. h3 = [hs EXCEPT ![s].st = x, ![s].file = y, ![s].saved = z]
  BY <1>1, <1>3, <1>6
<1> QED BY <1>8, <1>9

LEMMA PageSet ==
  ASSUME page \in [Pages -> Scripts], NEW p \in Pages,
         NEW x \in {"idle", "asking", "next", "sent", "paused", "done", "failed"},
         page' = [page EXCEPT ![p].st = x]
  PROVE  /\ page' \in [Pages -> Scripts] /\ page'[p].st = x
         /\ page'[p].file = page[p].file /\ page'[p].idx = page[p].idx /\ page'[p].on = page[p].on
         /\ \A q \in Pages \ {p} : page'[q] = page[q]
<1>1. page[p] \in Scripts
  OBVIOUS
<1>2. [page[p] EXCEPT !.st = x] \in Scripts
  BY <1>1 DEF Scripts
<1>3. page' = [page EXCEPT ![p] = [page[p] EXCEPT !.st = x]]
  OBVIOUS
<1>4. page' \in [Pages -> Scripts] /\ page'[p] = [page[p] EXCEPT !.st = x]
  BY <1>2, <1>3
<1>5. \A q \in Pages \ {p} : page'[q] = page[q]
  BY <1>3
<1> QED BY <1>1, <1>4, <1>5 DEF Scripts

LEMMA PageOn ==
  ASSUME page \in [Pages -> Scripts], NEW p \in Pages,
         NEW x \in {"idle", "asking", "next", "sent", "paused", "done", "failed"},
         NEW y \in Slots \union {None}, page' = [page EXCEPT ![p].st = x, ![p].on = y]
  PROVE  /\ page' \in [Pages -> Scripts] /\ page'[p].st = x
         /\ page'[p].file = page[p].file /\ page'[p].idx = page[p].idx /\ page'[p].on = y
         /\ \A q \in Pages \ {p} : page'[q] = page[q]
<1>1. page[p] \in Scripts
  OBVIOUS
<1>2. [page[p] EXCEPT !.st = x, !.on = y] \in Scripts
  BY <1>1 DEF Scripts
<1>3. page' = [page EXCEPT ![p] = [page[p] EXCEPT !.st = x, !.on = y]]
  OBVIOUS
<1>4. page' \in [Pages -> Scripts] /\ page'[p] = [page[p] EXCEPT !.st = x, !.on = y]
  BY <1>2, <1>3
<1>5. \A q \in Pages \ {p} : page'[q] = page[q]
  BY <1>3
<1> QED BY <1>1, <1>4, <1>5 DEF Scripts

\* The inductive invariant.
ShareIInv == ShareTypeOK /\ Parts /\ Held

\* What a cancel has still to do: a file that it removes has a name.
CallsOK ==
  \A c \in calls : /\ c \in [req : Slots \union {None}, dest : Names \union {None}]
                   /\ c.req = None => c.dest \in Names

LEMMA SetProceeds ==
  ASSUME NEW s \in Slots,
         h'[s].kind = h[s].kind, h'[s].page = h[s].page, h'[s].gone = h[s].gone,
         \A t \in Slots \ {s} : h'[t] = h[t],
         page' = page, spoiled \subseteq spoiled', reported' = reported
  PROVE  Proceeds(s)
<1>1. ASSUME NEW t \in Slots \ {s}
      PROVE  Same(t) /\ h'[t].gone = h[t].gone /\ h'[t].dead = h[t].dead
  <2>1. h'[t] = h[t]
    OBVIOUS
  <2> QED BY <2>1 DEF Same
<1> QED BY <1>1 DEF Proceeds

LEMMA ChunkAdmitStep ==
  ASSUME ShareIInv, NEW s \in Slots, ChunkAdmit(s), MayUpload(h[s].page)
  PROVE  ShareIInv'
<1>1. h[s] \in Handlers /\ h \in [Slots -> Handlers] /\ h[s].st = "admit" /\ h[s].kind = "chunk"
  BY DEF ChunkAdmit, ShareIInv, ShareTypeOK
<1>2. h[s].page \in Uploads /\ h[s].page \in Senders /\ h[s].file \in 1..Files /\ h[s].idx \in 1..Chunks
      /\ NameOf[h[s].page][h[s].file] \in Names
  BY <1>1, NameOfType DEF ShareIInv, Parts, KindsAgree, ChunksAgree, Senders
<1>3. h' = [h EXCEPT ![s].st = "register", ![s].dest = NameOf[h[s].page][h[s].file]]
  BY DEF ChunkAdmit
<1>4. Set(h, h', s, "register", h[s].file, h[s].idx, NameOf[h[s].page][h[s].file], h[s].saved, h[s].wait, h[s].dead)
  BY <1>1, <1>2, <1>3, Set_st_dest DEF Steps
<1>5. /\ disk' = disk /\ rec' = rec /\ page' = page /\ spoiled' = spoiled /\ reported' = reported
      /\ \A m \in Names : disk[m].has \subseteq 1..Chunks
  BY DEF ChunkAdmit, ShareIInv, ShareTypeOK, Contents
<1>6. Proceeds(s)
  BY <1>4, <1>5, SetProceeds DEF Set
<1>7. Parts'
  BY <1>1, <1>2, <1>4, <1>5, <1>6, ChunkProceeds DEF ShareIInv, Set
<1> QED BY <1>4, <1>5, <1>7 DEF ShareIInv, ShareTypeOK, Held, PausesHeld, WaiterCanBeResumed, Set

LEMMA UntouchedAll ==
  ASSUME ShareIInv, Untouched, h' \in [Slots -> Handlers], rec' \in Records, Held'
  PROVE  ShareIInv'
BY UntouchedStep DEF ShareIInv, Untouched, ShareTypeOK

LEMMA WokenAll ==
  ASSUME ShareIInv, h' = Woken(h), page' = page, disk' = disk, spoiled' = spoiled, reported' = reported,
         rec' \in Records, rec'.paused => rec'.dir # None
  PROVE  ShareIInv'
<1>1. h' \in [Slots -> Handlers] /\ Untouched /\ \A t \in Slots : ~h'[t].wait
  BY WokenSame DEF ShareIInv, ShareTypeOK, Untouched, Same
<1>2. Held'
  BY <1>1 DEF Held, PausesHeld, WaiterCanBeResumed
<1> QED BY <1>1, <1>2, UntouchedAll

LEMMA StillAll ==
  ASSUME ShareIInv, h' = h, page' = page, disk' = disk, spoiled' = spoiled, reported' = reported,
         rec' \in Records, rec'.dir = rec.dir, rec'.paused => rec.paused \/ rec.dir # None
  PROVE  ShareIInv'
<1>1. h' \in [Slots -> Handlers] /\ Untouched
  BY DEF ShareIInv, ShareTypeOK, Untouched, Same
<1>2. Held'
  BY DEF ShareIInv, Held, PausesHeld, WaiterCanBeResumed
<1> QED BY <1>1, <1>2, UntouchedAll

LEMMA WaitOnPauseStep ==
  ASSUME ShareIInv, NEW s \in Slots, WaitOnPause(s)
  PROVE  ShareIInv'
<1>1. h \in [Slots -> Handlers] /\ h[s] \in Handlers /\ h' = [h EXCEPT ![s] = [h[s] EXCEPT !.wait = TRUE]]
  BY DEF ShareIInv, ShareTypeOK, WaitOnPause
<1>2. [h[s] EXCEPT !.wait = TRUE] \in Handlers
  BY <1>1, Fields
<1>3. /\ h' \in [Slots -> Handlers] /\ h'[s] = [h[s] EXCEPT !.wait = TRUE]
      /\ \A t \in Slots \ {s} : h'[t] = h[t]
  BY <1>1, <1>2
<1>4. Same(s) /\ h'[s].gone = h[s].gone /\ h'[s].dead = h[s].dead
  BY <1>1, <1>3 DEF Same, Handlers
<1>5. /\ h' \in [Slots -> Handlers]
      /\ \A t \in Slots : Same(t) /\ h'[t].gone = h[t].gone /\ h'[t].dead = h[t].dead
  BY <1>3, <1>4 DEF Same
<1>6. Untouched
  BY <1>5 DEF Untouched, WaitOnPause
<1>7. rec' = rec /\ rec.paused /\ rec.dir # None /\ rec' \in Records
  BY DEF WaitOnPause, ShareIInv, Held, PausesHeld, ShareTypeOK
<1> QED BY <1>5, <1>6, <1>7, UntouchedAll DEF Held, PausesHeld, WaiterCanBeResumed

LEMMA TurnsAll ==
  ASSUME ShareIInv, NEW p \in Pages, h' = h, rec' = rec, disk' = disk, spoiled' = spoiled, reported' = reported,
         NEW x \in {"asking", "next", "done", "failed"}, page' = [page EXCEPT ![p].st = x],
         page[p].st \notin {"sent", "failed"},
         x = "asking" => page[p].st \in {"idle", "asking"},
         x = "next" => page[p].st \in {"idle", "asking", "paused"}
  PROVE  ShareIInv'
<1>0. page \in [Pages -> Scripts] /\ x \in {"idle", "asking", "next", "sent", "paused", "done", "failed"}
  BY DEF ShareIInv, ShareTypeOK
<1>1. /\ page' \in [Pages -> Scripts] /\ page'[p].st = x
      /\ page'[p].file = page[p].file /\ page'[p].idx = page[p].idx /\ page'[p].on = page[p].on
      /\ \A q \in Pages \ {p} : page'[q] = page[q]
  BY <1>0, PageSet
<1>2. Turns(p)
  BY <1>1 DEF Turns, Same
<1> QED BY <1>1, <1>2, TurnsStep DEF ShareIInv, ShareTypeOK, Held, PausesHeld, WaiterCanBeResumed

LEMMA AnswerAskStep ==
  ASSUME ShareIInv, NEW p \in Senders, NEW ok \in BOOLEAN, AnswerAsk(p, ok), h' = h, rec' = rec, disk' = disk,
         spoiled' = spoiled, reported' = reported
  PROVE  ShareIInv'
<1>0. p \in Pages /\ rec \in Records
  BY DEF Pages, ShareIInv, ShareTypeOK
<1>1. CASE page[p].st = "asking"
  <2>1. PICK x \in {"next", "failed"} : page' = [page EXCEPT ![p].st = x]
    BY <1>1 DEF AnswerAsk
  <2> QED BY <1>0, <1>1, <2>1, TurnsAll
<1>2. CASE page[p].st # "asking"
  BY <1>0, <1>2, StillAll DEF AnswerAsk
<1> QED BY <1>1, <1>2

LEMMA AbortsSame ==
  ASSUME ShareIInv, NEW p \in Pages, NEW x \in {"failed", "paused"}, Aborts(p, x)
  PROVE  /\ page' \in [Pages -> Scripts] /\ h' \in [Slots -> Handlers]
         /\ \A q \in Pages \ {p} : page'[q] = page[q]
         /\ page'[p].file = page[p].file /\ page'[p].idx = page[p].idx /\ page'[p].on = None /\ page'[p].st = x
         /\ \A t \in Slots : Same(t) /\ h'[t].dead = h[t].dead /\ h'[t].wait = h[t].wait
                             /\ (page[p].on # t => h'[t].gone = h[t].gone)
<1>1. page \in [Pages -> Scripts] /\ h \in [Slots -> Handlers]
  BY DEF ShareIInv, ShareTypeOK
<1>2. x \in {"idle", "asking", "next", "sent", "paused", "done", "failed"} /\ None \in Slots \union {None}
      /\ page' = [page EXCEPT ![p].st = x, ![p].on = None]
  BY DEF Aborts
<1>3. /\ page' \in [Pages -> Scripts] /\ page'[p].st = x
      /\ page'[p].file = page[p].file /\ page'[p].idx = page[p].idx /\ page'[p].on = None
      /\ \A q \in Pages \ {p} : page'[q] = page[q]
  BY <1>1, <1>2, PageOn
<1>4. ASSUME NEW t \in Slots
      PROVE  /\ h'[t] \in Handlers
             /\ Same(t) /\ h'[t].dead = h[t].dead /\ h'[t].wait = h[t].wait
             /\ (page[p].on # t => h'[t].gone = h[t].gone)
  <2>1. CASE page[p].on # t
    <3>1. h'[t] = h[t]
      BY <2>1 DEF Aborts, Waits
    <3> QED BY <1>1, <3>1 DEF Same
  <2>2. CASE page[p].on = t
    <3>1. h'[t] = [h[t] EXCEPT !.gone = TRUE] /\ h[t] \in Handlers
      BY <1>1, <2>2 DEF Aborts, Waits
    <3>2. h'[t] \in Handlers
      BY <3>1, Fields
    <3> QED BY <2>2, <3>1, <3>2 DEF Same, Handlers
  <2> QED BY <2>1, <2>2
<1>5. h' \in [Slots -> Handlers]
  BY <1>4 DEF Aborts
<1> QED BY <1>3, <1>4, <1>5

LEMMA AbortsStep ==
  ASSUME ShareIInv, NEW p \in Pages, NEW x \in {"failed", "paused"}, Aborts(p, x),
         page[p].st \in {"asking", "next", "sent", "paused"},
         rec' = rec, disk' = disk, reported' = reported,
         \/ x = "failed" /\ spoiled' = spoiled
         \/ /\ x = "paused" /\ page[p].st \in {"next", "sent"} /\ p \notin Forms
            /\ spoiled' = IF p \in Uploads /\ page[p].idx = 1 THEN spoiled \union {p} ELSE spoiled
  PROVE  ShareIInv'
<1>1. /\ page' \in [Pages -> Scripts] /\ h' \in [Slots -> Handlers]
      /\ \A q \in Pages \ {p} : page'[q] = page[q]
      /\ page'[p].file = page[p].file /\ page'[p].idx = page[p].idx /\ page'[p].on = None /\ page'[p].st = x
      /\ \A t \in Slots : Same(t) /\ h'[t].dead = h[t].dead /\ h'[t].wait = h[t].wait
                          /\ (page[p].on # t => h'[t].gone = h[t].gone)
  BY AbortsSame
<1>2. Cuts(p)
  BY <1>1 DEF Cuts
<1>3. Parts'
  BY <1>2, CutsStep DEF ShareIInv
<1> QED BY <1>1, <1>3 DEF ShareIInv, ShareTypeOK, Held, PausesHeld, WaiterCanBeResumed

LEMMA RequestStep ==
  ASSUME ShareIInv, NEW p \in Pages, NEW s \in Slots, NEW k \in {"chunk", "form", "down"}, Request(p, s, k),
         \/ p \in Uploads /\ k = "chunk" /\ page[p].file <= Files
         \/ p \in Forms /\ k = "form"
         \/ p \in Downloads /\ k = "down"
  PROVE  ShareIInv'
<1>1. page \in [Pages -> Scripts] /\ h \in [Slots -> Handlers] /\ page[p].file \in Nat /\ page[p].idx \in Nat
  BY DEF ShareIInv, ShareTypeOK, Scripts
<1>2. page' = [page EXCEPT ![p].st = "sent", ![p].on = s] /\ s \in Slots \union {None}
      /\ "sent" \in {"idle", "asking", "next", "sent", "paused", "done", "failed"}
  BY DEF Request
<1>3. /\ page' \in [Pages -> Scripts] /\ page'[p].st = "sent"
      /\ page'[p].file = page[p].file /\ page'[p].idx = page[p].idx /\ page'[p].on = s
      /\ \A q \in Pages \ {p} : page'[q] = page[q]
  BY <1>1, <1>2, PageOn
<1>4. /\ h' \in [Slots -> Handlers] /\ \A t \in Slots \ {s} : h'[t] = h[t]
      /\ h'[s].st = "admit" /\ h'[s].page = p /\ h'[s].file = page[p].file /\ h'[s].idx = page[p].idx
      /\ h'[s].saved = {} /\ ~h'[s].gone /\ h'[s].kind = k /\ ~h'[s].wait
  <2>1. PICK r : r = [Nobody EXCEPT !.kind = k, !.st = "admit", !.page = p,
                                    !.file = page[p].file, !.idx = page[p].idx]
    OBVIOUS
  <2>2. r = [kind |-> k, st |-> "admit", page |-> p, file |-> page[p].file, idx |-> page[p].idx, dest |-> None,
             saved |-> {}, wait |-> FALSE, gone |-> FALSE, canceled |-> FALSE, dead |-> FALSE]
    BY <2>1 DEF Nobody
  <2>3. r \in Handlers
    BY <1>1, <2>2 DEF Handlers
  <2>4. h' = [h EXCEPT ![s] = r]
    BY <2>1 DEF Request
  <2>5. h' \in [Slots -> Handlers] /\ h'[s] = r /\ \A t \in Slots \ {s} : h'[t] = h[t]
    BY <1>1, <2>3, <2>4
  <2> HIDE DEF Handlers
  <2> QED BY <2>2, <2>5
<1>5. h[s].page = None /\ page[p].st = "next"
  BY DEF Request, Nobody
<1>6. disk' = disk /\ reported' = reported /\ spoiled' = spoiled /\ rec' = rec
  BY DEF Request
<1>7. SendsRequest(p, s)
  BY <1>3, <1>4, <1>5, <1>6 DEF SendsRequest, Same
<1>8. Parts'
  BY <1>7, SendsRequestStep DEF ShareIInv
<1> QED BY <1>3, <1>4, <1>6, <1>8 DEF ShareIInv, ShareTypeOK, Held, PausesHeld, WaiterCanBeResumed

\* The locked part of a cancel.
LEMMA TransferCanceled ==
  ASSUME ShareIInv, CancelTransfer, page' = page, disk' = disk, spoiled' = spoiled, reported' = reported
  PROVE  ShareIInv'
<1>1. rec' \in Records /\ ~rec'.paused /\ h' = Woken(h)
  BY NoRecordType DEF CancelTransfer, NoRecord
<1> QED BY <1>1, WokenAll

LEMMA CancelsContextStep ==
  ASSUME ShareIInv, NEW c, CancelsContext(c)
  PROVE  ShareIInv'
<1>0. /\ h \in [Slots -> Handlers] /\ rec \in Records /\ (rec.paused => rec.dir # None)
      /\ page' = page /\ disk' = disk /\ spoiled' = spoiled /\ reported' = reported /\ rec' = rec
  BY DEF ShareIInv, ShareTypeOK, Held, PausesHeld, CancelsContext
<1>1. CASE h' = h
  BY <1>0, <1>1, StillAll
<1>2. CASE c.req \in Slots /\ h' = [h EXCEPT ![c.req].canceled = TRUE]
  <2>1. PICK r : r = [h[c.req] EXCEPT !.canceled = TRUE]
    OBVIOUS
  <2>2. r \in Handlers /\ h[c.req] \in Handlers
    BY <1>0, <1>2, <2>1, Fields
  <2>3. h' \in [Slots -> Handlers] /\ h'[c.req] = r /\ \A t \in Slots \ {c.req} : h'[t] = h[t]
    BY <1>0, <1>2, <2>1, <2>2
  <2>4. /\ r.kind = h[c.req].kind /\ r.st = h[c.req].st /\ r.page = h[c.req].page /\ r.file = h[c.req].file
        /\ r.idx = h[c.req].idx /\ r.dest = h[c.req].dest /\ r.saved = h[c.req].saved
        /\ r.gone = h[c.req].gone /\ r.dead = h[c.req].dead /\ r.wait = h[c.req].wait
    BY <2>1, <2>2 DEF Handlers
  <2>5. \A t \in Slots : /\ Same(t) /\ h'[t].gone = h[t].gone /\ h'[t].dead = h[t].dead
                          /\ h'[t].wait = h[t].wait
    BY <1>2, <2>3, <2>4 DEF Same
  <2>6. Untouched /\ Held'
    BY <1>0, <2>5 DEF Untouched, ShareIInv, Held, PausesHeld, WaiterCanBeResumed
  <2> QED BY <1>0, <2>3, <2>6, UntouchedAll
<1>3. CASE c.req \notin Slots /\ h' = [h EXCEPT ![c.req].canceled = TRUE]
  <2>1. h' = h
    BY <1>0, <1>3
  <2> QED BY <1>1, <2>1
<1> QED BY <1>1, <1>2, <1>3 DEF CancelsContext

LEMMA RemovesFileStep ==
  ASSUME ShareIInv, NEW c, c.dest \in Names, RemovesFile(c)
  PROVE  ShareIInv'
<1> DEFINE n == c.dest
<1>1. h \in [Slots -> Handlers] /\ rec \in Records /\ disk \in [Names -> Contents] /\ n \in Names
  BY DEF ShareIInv, ShareTypeOK
<1>2. /\ Remove(h, n) /\ spoiled' = spoiled \union UsersOf(n)
      /\ page' = page /\ rec' = rec /\ reported' = reported
  BY DEF RemovesFile
<1> HIDE DEF n
<1>3. /\ h' \in [Slots -> Handlers] /\ disk' \in [Names -> Contents]
      /\ \A t \in Slots : Same(t) /\ h'[t].gone = h[t].gone /\ (h[t].dest # n => h'[t].dead = h[t].dead)
      /\ \A t \in Slots : h'[t].wait = h[t].wait
      /\ \A m \in Names : m # n => disk'[m] = disk[m]
  <2>1. CASE disk' = [disk EXCEPT ![n] = NoFile] /\ h' = Unlinked(h, n)
    <3>1. disk' \in [Names -> Contents] /\ \A m \in Names : m # n => disk'[m] = disk[m]
      BY <1>1, <2>1 DEF Contents, NoFile
    <3>2. ASSUME NEW t \in Slots
          PROVE  /\ h'[t] \in Handlers
                 /\ Same(t) /\ h'[t].gone = h[t].gone /\ (h[t].dest # n => h'[t].dead = h[t].dead)
                 /\ h'[t].wait = h[t].wait
      <4>1. CASE h[t].dest = n
        <5>1. h'[t] = [h[t] EXCEPT !.dead = TRUE] /\ h[t] \in Handlers
          BY <1>1, <2>1, <4>1 DEF Unlinked
        <5>2. h'[t] \in Handlers
          BY <5>1, Fields
        <5>3. /\ h'[t].kind = h[t].kind /\ h'[t].st = h[t].st /\ h'[t].page = h[t].page
              /\ h'[t].file = h[t].file /\ h'[t].idx = h[t].idx /\ h'[t].dest = h[t].dest
              /\ h'[t].saved = h[t].saved /\ h'[t].gone = h[t].gone /\ h'[t].wait = h[t].wait
          BY <5>1, DeadSame
        <5> QED BY <4>1, <5>2, <5>3 DEF Same
      <4>2. CASE h[t].dest # n
        <5>1. h'[t] = h[t] /\ h[t] \in Handlers
          BY <1>1, <2>1, <4>2 DEF Unlinked
        <5> QED BY <5>1 DEF Same
      <4> QED BY <4>1, <4>2
    <3>3. h' \in [Slots -> Handlers]
      BY <2>1, <3>2 DEF Unlinked
    <3> QED BY <3>1, <3>2, <3>3
  <2>2. CASE h' = h /\ UNCHANGED disk
    BY <1>1, <2>2 DEF Same
  <2> QED BY <1>2, <2>1, <2>2 DEF Remove
<1>4. Held'
  BY <1>2, <1>3 DEF ShareIInv, Held, PausesHeld, WaiterCanBeResumed
<1>5. Removes(n, {})
  BY <1>2, <1>3 DEF Removes
<1>6. Parts'
  BY <1>1, <1>5, RemovesStep DEF ShareIInv
<1> QED BY <1>1, <1>2, <1>3, <1>4, <1>6 DEF ShareIInv, ShareTypeOK

LEMMA EndOnlySame ==
  ASSUME ShareIInv, NEW s \in Slots, EndOnly(s)
  PROVE  /\ h' \in [Slots -> Handlers] /\ rec' \in Records /\ rec'.dir = rec.dir /\ rec'.paused = rec.paused
         /\ h'[s].kind = None /\ h'[s].page = None /\ h'[s].st = "none" /\ ~h'[s].wait
         /\ \A t \in Slots \ {s} : Same(t) /\ h'[t].gone = h[t].gone /\ h'[t].dead = h[t].dead
                                   /\ h'[t].wait = h[t].wait
<1>1. h \in [Slots -> Handlers] /\ rec \in Records
  BY DEF ShareIInv, ShareTypeOK
<1>2. h' \in [Slots -> Handlers] /\ h'[s] = Nobody /\ \A t \in Slots \ {s} : h'[t] = h[t]
  BY <1>1, NobodyType DEF EndOnly
<1>3. rec' \in Records /\ rec'.dir = rec.dir /\ rec'.paused = rec.paused
  <2>1. CASE rec.by = s
    BY <1>1, <2>1 DEF EndOnly, Records
  <2>2. CASE rec.by # s
    BY <1>1, <2>2 DEF EndOnly
  <2> QED BY <2>1, <2>2
<1>4. Nobody.kind = None /\ Nobody.page = None /\ Nobody.st = "none" /\ ~Nobody.wait
  BY DEF Nobody
<1> QED BY <1>2, <1>3, <1>4 DEF Same

LEMMA UnregisterSame ==
  ASSUME ShareIInv, NEW s \in Slots, UnregisterAndEnd(s)
  PROVE  /\ h' \in [Slots -> Handlers] /\ rec' \in Records /\ ~rec'.paused
         /\ h'[s].kind = None /\ h'[s].page = None /\ h'[s].st = "none"
         /\ \A t \in Slots : ~h'[t].wait
         /\ \A t \in Slots \ {s} : Same(t) /\ h'[t].gone = h[t].gone /\ h'[t].dead = h[t].dead
<1>1. h \in [Slots -> Handlers]
  BY DEF ShareIInv, ShareTypeOK
<1>2. PICK h0 : h0 = [h EXCEPT ![s] = Nobody]
  OBVIOUS
<1>3. h0 \in [Slots -> Handlers] /\ h0[s] = Nobody /\ \A t \in Slots \ {s} : h0[t] = h[t]
  BY <1>1, <1>2, NobodyType
<1>4. h' = Woken(h0) /\ rec' = NoRecord
  BY <1>2 DEF UnregisterAndEnd
<1>5. h' \in [Slots -> Handlers] /\ \A t \in Slots :
              /\ h'[t].kind = h0[t].kind /\ h'[t].st = h0[t].st
              /\ h'[t].page = h0[t].page /\ h'[t].file = h0[t].file
              /\ h'[t].idx = h0[t].idx /\ h'[t].dest = h0[t].dest
              /\ h'[t].saved = h0[t].saved /\ h'[t].gone = h0[t].gone
              /\ h'[t].dead = h0[t].dead /\ ~h'[t].wait
  BY <1>3, <1>4, WokenSame
<1>6. Nobody.kind = None /\ Nobody.page = None /\ Nobody.st = "none"
  BY DEF Nobody
<1>7. rec' \in Records /\ ~rec'.paused
  BY <1>4, NoRecordType DEF NoRecord
<1> QED BY <1>3, <1>5, <1>6, <1>7 DEF Same

LEMMA AnswerSame ==
  ASSUME ShareIInv, NEW s \in Slots, NEW x \in {"failed", "done"}, Answer(s, x), h[s].page \in Pages
  PROVE  /\ page' \in [Pages -> Scripts]
         /\ \A p \in Pages : page[p].on # s => page'[p] = page[p]
         /\ \A p \in Pages : page[p].on = s =>
              /\ page'[p].on = None /\ page'[p].st \in {"failed", "done"}
              /\ page'[p].file = page[p].file /\ page'[p].idx = page[p].idx
<1>1. page \in [Pages -> Scripts]
  BY DEF ShareIInv, ShareTypeOK
<1>2. \A p \in Pages : page[p].on = s => h[s].page = p
  BY DEF ShareIInv, Parts, PagesWait
<1>3. CASE page[h[s].page].on = s
  <2>1. page' = [page EXCEPT ![h[s].page].st = x, ![h[s].page].on = None]
    BY <1>3 DEF Answer, Waits
  <2>2. x \in {"idle", "asking", "next", "sent", "paused", "done", "failed"} /\ None \in Slots \union {None}
    OBVIOUS
  <2>3. /\ page' \in [Pages -> Scripts] /\ page'[h[s].page].st = x
        /\ page'[h[s].page].file = page[h[s].page].file /\ page'[h[s].page].idx = page[h[s].page].idx
        /\ page'[h[s].page].on = None
        /\ \A q \in Pages \ {h[s].page} : page'[q] = page[q]
    BY <1>1, <2>1, <2>2, PageOn
  <2> QED BY <1>2, <1>3, <2>3
<1>4. CASE page[h[s].page].on # s
  BY <1>1, <1>2, <1>4 DEF Answer, Waits
<1> QED BY <1>3, <1>4

\* A request that ends, with an answer or when nobody waits for one.
LEMMA RequestEnds ==
  ASSUME ShareIInv, NEW s \in Slots, h[s].page \in Pages, disk' = disk, spoiled' = spoiled,
         EndOnly(s) \/ UnregisterAndEnd(s),
         \/ \E x \in {"failed", "done"} : Answer(s, x)
         \/ page' = page /\ h[s].gone
  PROVE  /\ ShareTypeOK' /\ Held'
         /\ KindsAgree' /\ PagesWait' /\ ChunksAgree' /\ PlacesAgree' /\ OneFormEach'
         /\ FormsAgree' /\ ChunksLate' /\ ChunksThere' /\ SentThere' /\ FormsThere'
<1>1. /\ page' \in [Pages -> Scripts]
      /\ \A p \in Pages : page[p].on # s => page'[p] = page[p]
      /\ \A p \in Pages : page[p].on = s =>
           /\ page'[p].on = None /\ page'[p].st \in {"failed", "done"}
           /\ page'[p].file = page[p].file /\ page'[p].idx = page[p].idx
  <2>1. CASE \E x \in {"failed", "done"} : Answer(s, x)
    BY <2>1, AnswerSame
  <2>2. CASE page' = page /\ h[s].gone
    BY <2>2 DEF ShareIInv, ShareTypeOK, Parts, PagesWait
  <2> QED BY <2>1, <2>2
<1>2. /\ h' \in [Slots -> Handlers] /\ rec' \in Records
      /\ h'[s].kind = None /\ h'[s].page = None /\ h'[s].st = "none"
      /\ \A t \in Slots \ {s} : Same(t) /\ h'[t].gone = h[t].gone /\ h'[t].dead = h[t].dead
  BY EndOnlySame, UnregisterSame
<1>3. Held'
  <2>1. CASE EndOnly(s)
    BY <2>1, EndOnlySame DEF ShareIInv, Held, PausesHeld, WaiterCanBeResumed
  <2>2. CASE UnregisterAndEnd(s)
    BY <2>2, UnregisterSame DEF Held, PausesHeld, WaiterCanBeResumed
  <2> QED BY <2>1, <2>2
<1>4. RequestOver(s)
  BY <1>1, <1>2 DEF RequestOver
<1>5. /\ KindsAgree' /\ PagesWait' /\ ChunksAgree' /\ PlacesAgree' /\ OneFormEach'
      /\ FormsAgree' /\ ChunksLate' /\ ChunksThere' /\ SentThere' /\ FormsThere'
  BY <1>4, RequestOverStep DEF ShareIInv
<1> QED BY <1>1, <1>2, <1>3, <1>5 DEF ShareIInv, ShareTypeOK

\* It ends early: nothing is told.
LEMMA StopsStep ==
  ASSUME ShareIInv, NEW s \in Slots, h[s].page \in Pages, disk' = disk, spoiled' = spoiled, reported' = reported,
         EndOnly(s) \/ UnregisterAndEnd(s),
         \/ \E x \in {"failed", "done"} : Answer(s, x)
         \/ page' = page /\ h[s].gone
  PROVE  ShareIInv'
<1>1. WholeWhenTold'
  BY DEF ShareIInv, Parts, WholeWhenTold, SameNames
<1> QED BY <1>1, RequestEnds DEF ShareIInv, Parts

\* Whose request it is, by what it does.
LEMMA WhoServes ==
  ASSUME ShareIInv, NEW s \in Slots
  PROVE  /\ h[s] \in Handlers /\ h \in [Slots -> Handlers]
         /\ h[s].kind = "chunk" => h[s].page \in Uploads
         /\ h[s].kind = "form" => h[s].page \in Forms
         /\ h[s].kind = "down" => h[s].page \in Downloads
         /\ h[s].kind \in {"chunk", "form", "down"} => h[s].page \in Pages
         /\ h[s].st \in {"register", "check", "open", "copy", "end"} => h[s].kind = "chunk"
         /\ h[s].st \in {"part", "create", "read"} => h[s].kind = "form"
         /\ h[s].st = "write" => h[s].kind = "down"
<1>1. h[s] \in Handlers /\ h \in [Slots -> Handlers]
  BY DEF ShareIInv, ShareTypeOK
<1>2. h[s].kind \in {"chunk", "form", "down", None}
  BY <1>1 DEF Handlers
<1>3. Uploads \subseteq Pages /\ Forms \subseteq Pages /\ Downloads \subseteq Pages
  BY DEF Pages, Senders
<1> QED BY <1>1, <1>2, <1>3 DEF ShareIInv, Parts, KindsAgree

LEMMA ChunkAdmitNext ==
  ASSUME ShareIInv, NEW s \in Slots, ChunkAdmit(s)
  PROVE  ShareIInv'
<1>1. CASE MayUpload(h[s].page)
  BY <1>1, ChunkAdmitStep
<1>2. CASE ~MayUpload(h[s].page)
  BY <1>2, StopsStep, WhoServes DEF ChunkAdmit
<1> QED BY <1>1, <1>2

\* What a chunk's request knows of itself.
LEMMA OfChunk ==
  ASSUME ShareIInv, NEW s \in Slots, h[s].kind = "chunk"
  PROVE  /\ h[s].page \in Uploads /\ h[s].page \in Senders /\ h[s].file \in 1..Files /\ h[s].idx \in 1..Chunks
         /\ NameOf[h[s].page][h[s].file] \in Names /\ h[s].idx \in Nat /\ h[s].file \in Nat
         /\ h[s].st # "admit" => h[s].dest = NameOf[h[s].page][h[s].file]
         /\ disk \in [Names -> Contents] /\ rec \in Records
         /\ \A m \in Names : disk[m].has \subseteq 1..Chunks
<1>1. h[s].page \in Uploads /\ h[s].file \in 1..Files /\ h[s].idx \in 1..Chunks
      /\ (h[s].st # "admit" => h[s].dest = NameOf[h[s].page][h[s].file])
  BY DEF ShareIInv, Parts, KindsAgree, ChunksAgree
<1>2. h[s].page \in Senders
  BY <1>1 DEF Senders
<1>3. disk \in [Names -> Contents] /\ rec \in Records
  BY DEF ShareIInv, ShareTypeOK
<1>4. \A m \in Names : disk[m].has \subseteq 1..Chunks
  BY <1>3 DEF Contents
<1> QED BY <1>1, <1>2, <1>3, <1>4, NameOfType

\* It goes on, and the disk is what it was.
LEMMA ChunkMoves ==
  ASSUME ShareIInv, NEW s \in Slots, h[s].kind = "chunk", NEW x \in {"check", "open"},
         h[s].st # "admit", h' = [h EXCEPT ![s].st = x],
         page' = page, disk' = disk, spoiled' = spoiled, reported' = reported
  PROVE  h' \in [Slots -> Handlers] /\ Parts' /\ \A t \in Slots : h'[t].wait = h[t].wait
<1>1. h[s] \in Handlers /\ h \in [Slots -> Handlers] /\ x \in Steps
  BY WhoServes DEF Steps
<1>4. Set(h, h', s, x, h[s].file, h[s].idx, h[s].dest, h[s].saved, h[s].wait, h[s].dead)
  BY <1>1, Set_st
<1>6. Proceeds(s)
  BY <1>4, SetProceeds DEF Set
<1>7. Parts'
  BY <1>1, <1>4, <1>6, OfChunk, ChunkProceeds DEF ShareIInv, Set
<1> QED BY <1>4, <1>7 DEF Set

LEMMA ChunkRegisterStep ==
  ASSUME ShareIInv, NEW s \in Slots, ChunkRegister(s)
  PROVE  ShareIInv'
<1>1. h[s].kind = "chunk" /\ h[s].st = "register" /\ h[s].dest \in Names
  BY WhoServes, OfChunk DEF ChunkRegister
<1>2. h' \in [Slots -> Handlers] /\ Parts' /\ \A t \in Slots : h'[t].wait = h[t].wait
  BY <1>1, ChunkMoves DEF ChunkRegister
<1>3. rec' \in Records /\ rec'.dir = "upload" /\ "upload" # None
  BY <1>1, NoneAssumption DEF ChunkRegister, Register, Records
<1> QED BY <1>2, <1>3 DEF ShareIInv, ShareTypeOK, Held, PausesHeld, WaiterCanBeResumed, ChunkRegister

LEMMA ChunkCheckStep ==
  ASSUME ShareIInv, NEW s \in Slots, ChunkCheck(s)
  PROVE  ShareIInv'
<1>1. h[s].kind = "chunk" /\ h[s].st = "check" /\ h[s].page \in Pages
  BY WhoServes DEF ChunkCheck
<1>2. CASE h' = [h EXCEPT ![s].st = "open"] /\ UNCHANGED <<page, rec>>
  <2>1. h' \in [Slots -> Handlers] /\ Parts' /\ \A t \in Slots : h'[t].wait = h[t].wait
    BY <1>1, <1>2, ChunkMoves DEF ChunkCheck
  <2> QED BY <1>2, <2>1 DEF ShareIInv, ShareTypeOK, Held, PausesHeld, WaiterCanBeResumed, ChunkCheck
<1>3. CASE EndOnly(s) /\ Answer(s, "failed")
  BY <1>1, <1>3, StopsStep DEF ChunkCheck
<1> QED BY <1>2, <1>3 DEF ChunkCheck

LEMMA ChunkOpenStep ==
  ASSUME ShareIInv, NEW s \in Slots, ChunkOpen(s)
  PROVE  ShareIInv'
<1>1. h[s].kind = "chunk" /\ h[s].st = "open" /\ h[s] \in Handlers /\ h \in [Slots -> Handlers]
      /\ "copy" \in Steps /\ FALSE \in BOOLEAN
  BY WhoServes DEF ChunkOpen, Steps
<1>2. h[s].dest = NameOf[h[s].page][h[s].file] /\ h[s].dest \in Names
  BY <1>1, OfChunk
<1>3. h' = [h EXCEPT ![s].st = "copy", ![s].dead = FALSE]
  BY DEF ChunkOpen
<1>4. h' \in [Slots -> Handlers] /\ h'[s].kind = h[s].kind /\ h'[s].page = h[s].page /\ h'[s].gone = h[s].gone
      /\ h'[s].st = "copy" /\ h'[s].file = h[s].file /\ h'[s].idx = h[s].idx /\ h'[s].dest = h[s].dest
      /\ h'[s].saved = h[s].saved /\ h'[s].wait = h[s].wait /\ ~h'[s].dead
      /\ \A t \in Slots \ {s} : h'[t] = h[t]
  <2>1. PICK b \in BOOLEAN : b = FALSE
    OBVIOUS
  <2>2. h' = [h EXCEPT ![s].st = "copy", ![s].dead = b]
    BY <1>3, <2>1
  <2>3. Set(h, h', s, "copy", h[s].file, h[s].idx, h[s].dest, h[s].saved, h[s].wait, b)
    BY <1>1, <2>2, Set_st_dead
  <2> QED BY <2>1, <2>3 DEF Set
<1>5. /\ rec' = rec /\ page' = page /\ spoiled' = spoiled /\ reported' = reported
      /\ disk' = [disk EXCEPT ![h[s].dest] = [there |-> TRUE, has |-> IF h[s].idx = 1 THEN {} ELSE disk[h[s].dest].has]]
  BY DEF ChunkOpen
<1>6. /\ disk' \in [Names -> Contents] /\ \A m \in Names : m # h[s].dest => disk'[m] = disk[m]
      /\ disk'[h[s].dest].there
      /\ disk'[h[s].dest].has = IF h[s].idx = 1 THEN {} ELSE disk[h[s].dest].has
  BY <1>1, <1>2, <1>5, OfChunk DEF Contents
<1>7. \A m \in Names : disk'[m].has \subseteq 1..Chunks
  BY <1>6 DEF Contents
<1>8. Proceeds(s)
  BY <1>4, <1>5, SetProceeds
<1>9. h[s].idx # 1 \/ h[s].st # "open" =>
           \A m \in Names : (disk[m].there => disk'[m].there) /\ disk[m].has \subseteq disk'[m].has
  BY <1>1, <1>6
<1>10. Parts'
  BY <1>1, <1>2, <1>4, <1>6, <1>7, <1>8, <1>9, OfChunk, ChunkProceeds DEF ShareIInv
<1> QED BY <1>4, <1>5, <1>6, <1>10 DEF ShareIInv, ShareTypeOK, Held, PausesHeld, WaiterCanBeResumed

LEMMA WrittenSame ==
  ASSUME disk \in [Names -> Contents], NEW s \in Slots, Written(s), h[s].dest \in Names, h[s].idx \in 1..Chunks
  PROVE  /\ disk' \in [Names -> Contents]
         /\ \A m \in Names : m # h[s].dest => disk'[m] = disk[m]
         /\ \A m \in Names : (disk[m].there => disk'[m].there) /\ disk[m].has \subseteq disk'[m].has
         /\ \A m \in Names : disk'[m].has \subseteq 1..Chunks
         /\ ~h[s].dead => h[s].idx \in disk'[h[s].dest].has
<1>1. CASE h[s].dead
  BY <1>1 DEF Written, Contents
<1>2. CASE ~h[s].dead
  <2>1. PICK f : f = [disk[h[s].dest] EXCEPT !.has = @ \union {h[s].idx}]
    OBVIOUS
  <2>2. disk[h[s].dest] \in Contents
    OBVIOUS
  <2>3. f \in Contents /\ f.there = disk[h[s].dest].there /\ f.has = disk[h[s].dest].has \union {h[s].idx}
    BY <2>1, <2>2 DEF Contents
  <2>4. disk' = [disk EXCEPT ![h[s].dest] = f]
    BY <1>2, <2>1 DEF Written
  <2>5. disk' \in [Names -> Contents] /\ disk'[h[s].dest] = f /\ \A m \in Names : m # h[s].dest => disk'[m] = disk[m]
    BY <2>3, <2>4
  <2>6. \A m \in Names : disk'[m].has \subseteq 1..Chunks
    BY <2>5 DEF Contents
  <2> QED BY <2>3, <2>5, <2>6
<1> QED BY <1>1, <1>2

LEMMA ChunkCopyStep ==
  ASSUME ShareIInv, NEW s \in Slots, ChunkCopy(s)
  PROVE  ShareIInv'
<1>1. h[s].kind = "chunk" /\ h[s].st = "copy" /\ h[s] \in Handlers /\ h \in [Slots -> Handlers]
      /\ "end" \in Steps /\ h[s].page \in Pages
  BY WhoServes DEF ChunkCopy, Steps
<1>2. h[s].dest = NameOf[h[s].page][h[s].file] /\ h[s].dest \in Names
  BY <1>1, OfChunk
<1>3. CASE Written(s) /\ h' = [h EXCEPT ![s].st = "end"] /\ UNCHANGED rec
  <2>1. Set(h, h', s, "end", h[s].file, h[s].idx, h[s].dest, h[s].saved, h[s].wait, h[s].dead)
    BY <1>1, <1>3, Set_st
  <2>2. Proceeds(s)
    BY <2>1, SetProceeds DEF Set, ChunkCopy
  <2>3. h[s].page \in Clean => disk[h[s].dest].there /\ ~h[s].dead
    BY <1>1, <1>2 DEF ShareIInv, Parts, ChunksThere
  <2>4. /\ disk' \in [Names -> Contents]
        /\ \A m \in Names : m # h[s].dest => disk'[m] = disk[m]
        /\ \A m \in Names : (disk[m].there => disk'[m].there) /\ disk[m].has \subseteq disk'[m].has
        /\ \A m \in Names : disk'[m].has \subseteq 1..Chunks
        /\ ~h[s].dead => h[s].idx \in disk'[h[s].dest].has
    BY <1>1, <1>2, <1>3, OfChunk, WrittenSame
  <2>5. h'[s].file = h[s].file /\ h'[s].idx = h[s].idx /\ h'[s].saved = h[s].saved /\ h'[s].st = "end"
        /\ h'[s].dest = h[s].dest /\ (h[s].page \in Clean => ~h'[s].dead)
    BY <2>1, <2>3 DEF Set
  <2>6. h'[s].st \in {"copy", "end"} /\ h[s].page \in Clean =>
           disk'[NameOf[h[s].page][h[s].file]].there /\ ~h'[s].dead
    BY <1>2, <2>3, <2>4, <2>5
  <2>7. h'[s].st = "end" /\ h[s].page \in Clean => h[s].idx \in disk'[NameOf[h[s].page][h[s].file]].has
    BY <1>2, <2>3, <2>4
  <2>8. Parts'
    BY <1>1, <1>2, <2>2, <2>4, <2>5, <2>6, <2>7, OfChunk, ChunkProceeds DEF ShareIInv
  <2> QED BY <1>3, <2>1, <2>4, <2>8 DEF ShareIInv, ShareTypeOK, Held, PausesHeld, WaiterCanBeResumed, ChunkCopy, Set
<1>4. CASE h[s].gone /\ EndOnly(s) /\ UNCHANGED disk
  BY <1>1, <1>4, StopsStep DEF ChunkCopy
<1> QED BY <1>3, <1>4 DEF ChunkCopy

LEMMA ChunkEndStep ==
  ASSUME ShareIInv, NEW s \in Slots, ChunkEnd(s)
  PROVE  ShareIInv'
<1>1. h[s].kind = "chunk" /\ h[s].st = "end" /\ h[s] \in Handlers /\ h \in [Slots -> Handlers]
      /\ h[s].page \in Pages
  BY WhoServes DEF ChunkEnd
<1>2. h[s].dest = NameOf[h[s].page][h[s].file] /\ h[s].dest \in Names /\ h[s].idx \in 1..Chunks
  BY <1>1, OfChunk
<1>3. page \in [Pages -> Scripts] /\ \A p \in Pages : page[p].on = s => h[s].page = p
  BY DEF ShareIInv, ShareTypeOK, Parts, PagesWait
<1>4. /\ page' \in [Pages -> Scripts]
      /\ \A p \in Pages : page[p].on # s => page'[p] = page[p]
      /\ \A p \in Pages : page[p].on = s =>
           /\ page'[p].on = None /\ page'[p].st = "next"
           /\ page'[p].file = IF h[s].idx = Chunks THEN page[p].file + 1 ELSE page[p].file
           /\ page'[p].idx = IF h[s].idx = Chunks THEN 1 ELSE page[p].idx + 1
  <2>1. CASE page[h[s].page].on = s
    <3> DEFINE p == h[s].page
    <3>1. page[p] \in Scripts
      BY <1>1, <1>3
    <3>2. PICK f \in Nat : f = IF h[s].idx = Chunks THEN page[p].file + 1 ELSE page[p].file
      BY <3>1 DEF Scripts
    <3>3. PICK i \in Nat : i = IF h[s].idx = Chunks THEN 1 ELSE page[p].idx + 1
      BY <3>1 DEF Scripts
    <3>4. PICK r : r = [page[p] EXCEPT !.st = "next", !.on = None, !.file = f, !.idx = i]
      OBVIOUS
    <3>5. r \in Scripts /\ r.on = None /\ r.st = "next" /\ r.file = f /\ r.idx = i
      BY <3>1, <3>4 DEF Scripts
    <3>6. page' = [page EXCEPT ![p].st = "next", ![p].on = None,
                               ![p].file = IF h[s].idx = Chunks THEN @ + 1 ELSE @,
                               ![p].idx = IF h[s].idx = Chunks THEN 1 ELSE @ + 1]
      BY <2>1 DEF ChunkEnd, PageNext, Waits
    <3>7. page' = [page EXCEPT ![p] = r]
      BY <1>1, <1>3, <3>1, <3>2, <3>3, <3>4, <3>6 DEF Scripts
    <3>8. page' \in [Pages -> Scripts] /\ page'[p] = r /\ \A q \in Pages \ {p} : page'[q] = page[q]
      BY <1>1, <1>3, <3>5, <3>7
    <3> QED BY <1>1, <1>3, <2>1, <3>2, <3>3, <3>5, <3>8
  <2>2. CASE page[h[s].page].on # s
    BY <1>1, <1>3, <2>2 DEF ChunkEnd, PageNext, Waits
  <2> QED BY <2>1, <2>2
<1>5. /\ h' \in [Slots -> Handlers] /\ rec' \in Records
      /\ h'[s].kind = None /\ h'[s].page = None /\ h'[s].st = "none"
      /\ \A t \in Slots \ {s} : Same(t) /\ h'[t].gone = h[t].gone /\ h'[t].dead = h[t].dead
  BY EndOnlySame, UnregisterSame DEF ChunkEnd
<1>6. Held'
  <2>1. CASE EndOnly(s)
    BY <2>1, EndOnlySame DEF ShareIInv, Held, PausesHeld, WaiterCanBeResumed
  <2>2. CASE UnregisterAndEnd(s)
    BY <2>2, UnregisterSame DEF Held, PausesHeld, WaiterCanBeResumed
  <2> QED BY <2>1, <2>2 DEF ChunkEnd
<1>7. ChunkOver(s)
  BY <1>4, <1>5 DEF ChunkOver, ChunkEnd
<1>8. /\ KindsAgree' /\ PagesWait' /\ ChunksAgree' /\ PlacesAgree' /\ OneFormEach'
      /\ FormsAgree' /\ ChunksLate' /\ ChunksThere' /\ SentThere' /\ FormsThere'
  BY <1>1, <1>7, ChunkOverStep DEF ShareIInv
<1>9. WholeWhenTold'
  <2>1. CASE h[s].idx = Chunks
    <3>1. reported' = reported \union Report(s, {<<h[s].file, h[s].dest>>}) /\ spoiled' = spoiled
      BY <2>1 DEF ChunkEnd
    <3>2. h[s].page \in Clean => Whole(h[s].dest)
      <4>1. SUFFICES ASSUME h[s].page \in Clean PROVE disk[h[s].dest].there /\ disk[h[s].dest].has = 1..Chunks
        BY DEF Whole
      <4>2. /\ \A i \in 1..Chunks : i < h[s].idx => i \in disk[h[s].dest].has
            /\ disk[h[s].dest].there /\ h[s].idx \in disk[h[s].dest].has
        BY <1>1, <1>2, <4>1, ChunkThere DEF ShareIInv, Parts
      <4>3. disk[h[s].dest].has \subseteq 1..Chunks
        BY <1>1, <1>2, OfChunk
      <4>4. \A i \in 1..Chunks : i \in disk[h[s].dest].has
        BY <2>1, <4>2, CountsAssumption
      <4> QED BY <4>2, <4>3, <4>4
    <3>3. h[s].page \in Senders
      BY <1>1, OfChunk
    <3>4. \A t \in Report(s, {<<h[s].file, h[s].dest>>}) : t.whole \/ t.page \in spoiled \union SameNames
      BY <3>2, <3>3 DEF Report, Clean
    <3> QED BY <3>1, <3>4 DEF ShareIInv, Parts, WholeWhenTold
  <2>2. CASE h[s].idx # Chunks
    BY <2>2 DEF ChunkEnd, ShareIInv, Parts, WholeWhenTold
  <2> QED BY <2>1, <2>2
<1> QED BY <1>4, <1>5, <1>6, <1>8, <1>9 DEF ShareIInv, ShareTypeOK, Parts, ChunkEnd

\* What a form's request knows of itself.
LEMMA OfForm ==
  ASSUME ShareIInv, NEW s \in Slots, h[s].kind = "form"
  PROVE  /\ h[s].page \in Forms /\ h[s].page \in Senders /\ h[s].page \in Pages
         /\ h[s].file \in 1..(Files + 1) /\ h[s].file \in Nat /\ h[s].idx \in Nat
         /\ h[s].saved \in SUBSET ((1..Files) \X Names)
         /\ h[s].st \in {"create", "read"} =>
              h[s].file \in 1..Files /\ h[s].dest \in Own(h[s].page) /\ h[s].dest \in Names
         /\ \A f \in h[s].saved : f[2] \in Own(h[s].page) /\ f[2] \in Names
         /\ h[s].st = "read" => h[s].idx \in 1..(Chunks + 1)
         /\ disk \in [Names -> Contents] /\ rec \in Records
         /\ \A m \in Names : disk[m].has \subseteq 1..Chunks
         /\ h[s].page \in Clean =>
              /\ h[s].st = "read" => /\ ~h[s].dead /\ disk[h[s].dest].there
                                     /\ \A i \in 1..Chunks : i < h[s].idx => i \in disk[h[s].dest].has
              /\ \A f \in h[s].saved : disk[f[2]].there /\ disk[f[2]].has = 1..Chunks
              /\ h[s].st = "create" => \A f \in h[s].saved : f[2] # h[s].dest
         /\ Files \in Nat \ {0} /\ Chunks \in Nat \ {0}
<1>1. h[s].page \in Forms
  BY DEF ShareIInv, Parts, KindsAgree
<1>2. h[s].page \in Senders /\ h[s].page \in Pages
  BY <1>1 DEF Senders, Pages
<1>3. h[s] \in Handlers
  BY DEF ShareIInv, ShareTypeOK
<1>4. h[s].saved \in SUBSET ((1..Files) \X Names) /\ h[s].file \in Nat /\ h[s].idx \in Nat
  BY <1>3 DEF Handlers
<1>5. disk \in [Names -> Contents] /\ rec \in Records
  BY DEF ShareIInv, ShareTypeOK
<1>6. \A m \in Names : disk[m].has \subseteq 1..Chunks
  BY <1>5 DEF Contents
<1>7. Own(h[s].page) \subseteq Names
  BY <1>2, OwnNames
<1>8. /\ h[s].file \in 1..(Files + 1)
      /\ h[s].st \in {"create", "read"} => h[s].file \in 1..Files /\ h[s].dest \in Own(h[s].page)
      /\ \A f \in h[s].saved : f[2] \in Own(h[s].page)
      /\ h[s].st = "read" => h[s].idx \in 1..(Chunks + 1)
  BY DEF ShareIInv, Parts, FormsAgree
<1>9. h[s].page \in Clean =>
        /\ h[s].st = "read" => /\ ~h[s].dead /\ disk[h[s].dest].there
                               /\ \A i \in 1..Chunks : i < h[s].idx => i \in disk[h[s].dest].has
        /\ \A f \in h[s].saved : disk[f[2]].there /\ disk[f[2]].has = 1..Chunks
        /\ h[s].st = "create" => \A f \in h[s].saved : f[2] # h[s].dest
  BY DEF ShareIInv, Parts, FormsThere
<1> QED BY <1>1, <1>2, <1>4, <1>5, <1>6, <1>7, <1>8, <1>9, CountsAssumption

LEMMA FormAdmitStep ==
  ASSUME ShareIInv, NEW s \in Slots, FormAdmit(s)
  PROVE  ShareIInv'
<1>1. h[s].kind = "form" /\ h[s].st = "admit" /\ h[s] \in Handlers /\ h \in [Slots -> Handlers] /\ "part" \in Steps
  BY WhoServes DEF FormAdmit, Steps
<1>2. CASE h' = [h EXCEPT ![s].st = "part"] /\ UNCHANGED <<page, rec>>
  <2>1. Set(h, h', s, "part", h[s].file, h[s].idx, h[s].dest, h[s].saved, h[s].wait, h[s].dead)
    BY <1>1, <1>2, Set_st
  <2>2. h' \in [Slots -> Handlers] /\ h'[s].st = "part" /\ h'[s].file = h[s].file /\ h'[s].saved = h[s].saved
        /\ \A t \in Slots : h'[t].wait = h[t].wait
    BY <2>1 DEF Set
  <2>3. /\ page' = page /\ rec' = rec /\ disk' = disk /\ spoiled' = spoiled /\ reported' = reported
    BY <1>2 DEF FormAdmit
  <2>4. Proceeds(s)
    BY <2>1, <2>3, SetProceeds DEF Set
  <2>5. PICK n \in Names : n \in Own(h[s].page)
    BY <1>1, OfForm, NameOfType DEF Own
  <2>6. Parts'
    BY <1>1, <2>2, <2>3, <2>4, <2>5, OfForm, FormProceeds DEF ShareIInv
  <2> QED BY <2>2, <2>3, <2>6 DEF ShareIInv, ShareTypeOK, Held, PausesHeld, WaiterCanBeResumed
<1>3. CASE EndOnly(s) /\ Answer(s, "failed")
  BY <1>1, <1>3, OfForm, StopsStep DEF FormAdmit
<1> QED BY <1>2, <1>3 DEF FormAdmit

LEMMA FormPartStep ==
  ASSUME ShareIInv, NEW s \in Slots, FormPart(s)
  PROVE  ShareIInv'
<1>1. h[s].kind = "form" /\ h[s].st = "part" /\ h[s] \in Handlers /\ h \in [Slots -> Handlers] /\ "create" \in Steps
  BY WhoServes DEF FormPart, Steps
<1>2. ASSUME h[s].file <= Files, NEW n \in FreeNames(NameOf[h[s].page][h[s].file]),
             Register(s, "upload", n), h' = [h EXCEPT ![s].st = "create", ![s].dest = n],
             UNCHANGED <<page, reported>>
      PROVE  ShareIInv'
  <2>1. h[s].file \in 1..Files
    BY <1>1, <1>2, OfForm
  <2>2. n \in Own(h[s].page) /\ n \in Names /\ ~disk[n].there
    BY <1>1, <1>2, <2>1, OfForm, NameOfType DEF FreeNames, Own
  <2>3. n \in Names \union {None}
    BY <2>2
  <2>4. Set(h, h', s, "create", h[s].file, h[s].idx, n, h[s].saved, h[s].wait, h[s].dead)
    BY <1>1, <1>2, <2>3, Set_st_dest
  <2>5. h' \in [Slots -> Handlers] /\ h'[s].st = "create" /\ h'[s].file = h[s].file /\ h'[s].saved = h[s].saved
        /\ h'[s].dest = n /\ \A t \in Slots : h'[t].wait = h[t].wait
    BY <2>4 DEF Set
  <2>6. /\ page' = page /\ disk' = disk /\ spoiled' = spoiled /\ reported' = reported
    BY <1>2 DEF FormPart
  <2>7. Proceeds(s)
    BY <2>4, <2>6, SetProceeds DEF Set
  <2>8. rec' \in Records /\ rec'.dir = "upload" /\ "upload" # None
    BY <1>2, <2>2, NoneAssumption DEF Register, Records
  <2>9. h[s].page \in Clean => \A f \in h[s].saved : f[2] # n
    BY <1>1, <2>2, OfForm
  <2>10. Parts'
    BY <1>1, <2>1, <2>2, <2>5, <2>6, <2>7, <2>9, OfForm, FormProceeds DEF ShareIInv
  <2> QED BY <2>5, <2>6, <2>8, <2>10 DEF ShareIInv, ShareTypeOK, Held, PausesHeld, WaiterCanBeResumed
<1>3. CASE UnregisterAndEnd(s) /\ Answer(s, IF h[s].saved = {} THEN "failed" ELSE "done")
           /\ reported' = reported \union Report(s, h[s].saved)
  <2>1. \E x \in {"failed", "done"} : Answer(s, x)
    BY <1>3
  <2>2. h[s].page \in Pages /\ disk' = disk /\ spoiled' = spoiled
    BY <1>1, OfForm DEF FormPart
  <2>3. /\ ShareTypeOK' /\ Held'
        /\ KindsAgree' /\ PagesWait' /\ ChunksAgree' /\ PlacesAgree' /\ OneFormEach'
        /\ FormsAgree' /\ ChunksLate' /\ ChunksThere' /\ SentThere' /\ FormsThere'
    BY <1>3, <2>1, <2>2, RequestEnds
  <2>4. h[s].page \in Clean => \A f \in h[s].saved : Whole(f[2])
    BY <1>1, OfForm DEF Whole
  <2>5. \A t \in Report(s, h[s].saved) : t.whole \/ t.page \in spoiled \union SameNames
    BY <1>1, <2>4, OfForm DEF Report, Clean
  <2>6. WholeWhenTold'
    BY <1>3, <2>2, <2>5 DEF ShareIInv, Parts, WholeWhenTold
  <2> QED BY <2>3, <2>6 DEF ShareIInv, Parts
<1>4. CASE EndOnly(s) /\ Answer(s, "failed") /\ UNCHANGED reported
  BY <1>1, <1>4, OfForm, StopsStep DEF FormPart
<1> QED BY <1>2, <1>3, <1>4 DEF FormPart

LEMMA FormCreateStep ==
  ASSUME ShareIInv, NEW s \in Slots, FormCreate(s)
  PROVE  ShareIInv'
<1>1. h[s].kind = "form" /\ h[s].st = "create" /\ h[s] \in Handlers /\ h \in [Slots -> Handlers] /\ "read" \in Steps
  BY WhoServes DEF FormCreate, Steps
<1>2. /\ h[s].dest \in Own(h[s].page) /\ h[s].dest \in Names /\ h[s].file \in 1..Files
      /\ disk \in [Names -> Contents] /\ 1 \in Nat /\ 1 \in 1..(Chunks + 1)
  BY <1>1, OfForm
<1>3. h' \in [Slots -> Handlers] /\ h'[s].kind = h[s].kind /\ h'[s].page = h[s].page /\ h'[s].gone = h[s].gone
      /\ h'[s].st = "read" /\ h'[s].file = h[s].file /\ h'[s].idx = 1 /\ h'[s].dest = h[s].dest
      /\ h'[s].saved = h[s].saved /\ h'[s].wait = h[s].wait /\ ~h'[s].dead
      /\ \A t \in Slots \ {s} : h'[t] = h[t]
  <2>1. PICK b \in BOOLEAN : b = FALSE
    OBVIOUS
  <2>2. PICK i \in Nat : i = 1
    OBVIOUS
  <2>3. h' = [h EXCEPT ![s].st = "read", ![s].idx = i, ![s].dead = b]
    BY <2>1, <2>2 DEF FormCreate
  <2>4. Set(h, h', s, "read", h[s].file, i, h[s].dest, h[s].saved, h[s].wait, b)
    <3>1. PICK h1 : h1 = [h EXCEPT ![s].st = "read"]
      OBVIOUS
    <3>2. PICK h2 : h2 = [h1 EXCEPT ![s].idx = i]
      OBVIOUS
    <3>3. h' = [h2 EXCEPT ![s].dead = b]
      BY <2>3, <3>1, <3>2
    <3>4. Set(h, h1, s, "read", h[s].file, h[s].idx, h[s].dest, h[s].saved, h[s].wait, h[s].dead)
      BY <1>1, <3>1, Set_st
    <3>5. h1 \in [Slots -> Handlers]
      BY <3>4 DEF Set
    <3>6. Set(h1, h2, s, h1[s].st, h1[s].file, i, h1[s].dest, h1[s].saved, h1[s].wait, h1[s].dead)
      BY <3>2, <3>5, Set_idx
    <3>7. h2 \in [Slots -> Handlers]
      BY <3>6 DEF Set
    <3>8. Set(h2, h', s, h2[s].st, h2[s].file, h2[s].idx, h2[s].dest, h2[s].saved, h2[s].wait, b)
      BY <3>3, <3>7, Set_dead
    <3> QED BY <3>4, <3>6, <3>8 DEF Set
  <2> QED BY <2>1, <2>2, <2>4 DEF Set
<1>4. /\ rec' = rec /\ page' = page /\ reported' = reported /\ spoiled \subseteq spoiled'
      /\ disk[h[s].dest].there => UsersOf(h[s].dest) \ {h[s].page} \subseteq spoiled'
      /\ disk' = [disk EXCEPT ![h[s].dest] = [there |-> TRUE, has |-> {}]]
  BY DEF FormCreate
<1>5. /\ disk' \in [Names -> Contents] /\ \A m \in Names : m # h[s].dest => disk'[m] = disk[m]
  BY <1>2, <1>4 DEF Contents
<1>6. disk'[h[s].dest].there /\ disk'[h[s].dest].has \subseteq 1..Chunks
  BY <1>2, <1>4
<1>7. Proceeds(s)
  BY <1>3, <1>4, SetProceeds
<1>8. h[s].page \in Clean => \A f \in h[s].saved : disk'[f[2]].there /\ disk'[f[2]].has = 1..Chunks
  BY <1>1, <1>5, OfForm
<1>9. \A i \in 1..Chunks : ~(i < 1)
  OBVIOUS
<1>10. Parts'
  BY <1>1, <1>2, <1>3, <1>4, <1>5, <1>6, <1>7, <1>8, <1>9, OfForm, FormProceeds DEF ShareIInv
<1> QED BY <1>3, <1>4, <1>5, <1>10 DEF ShareIInv, ShareTypeOK, Held, PausesHeld, WaiterCanBeResumed

LEMMA FormReadStep ==
  ASSUME ShareIInv, NEW s \in Slots, FormRead(s)
  PROVE  ShareIInv'
<1>1. h[s].kind = "form" /\ h[s].st = "read" /\ h[s] \in Handlers /\ h \in [Slots -> Handlers] /\ "part" \in Steps
      /\ "read" \in Steps
  BY WhoServes DEF FormRead, Steps
<1>2. /\ h[s].dest \in Own(h[s].page) /\ h[s].dest \in Names /\ h[s].file \in 1..Files
      /\ disk \in [Names -> Contents] /\ h[s].idx \in 1..(Chunks + 1) /\ rec \in Records
      /\ Chunks \in Nat /\ h[s].file \in Nat /\ Files \in Nat
  BY <1>1, OfForm
<1>3. rec' = rec /\ page' = page /\ reported' = reported /\ spoiled' = spoiled
  BY DEF FormRead
<1>4. CASE h[s].idx <= Chunks
  <2>0. h[s].idx \in 1..Chunks /\ h[s].idx + 1 \in Nat /\ h[s].idx + 1 \in 1..(Chunks + 1)
        /\ Written(s) /\ h' = [h EXCEPT ![s].idx = h[s].idx + 1]
    BY <1>2, <1>4 DEF FormRead
  <2>1. Set(h, h', s, h[s].st, h[s].file, h[s].idx + 1, h[s].dest, h[s].saved, h[s].wait, h[s].dead)
    BY <1>1, <2>0, Set_idx
  <2>2. h' \in [Slots -> Handlers] /\ h'[s].st = "read" /\ h'[s].file = h[s].file /\ h'[s].saved = h[s].saved
        /\ h'[s].idx = h[s].idx + 1 /\ h'[s].dest = h[s].dest /\ h'[s].dead = h[s].dead
        /\ \A t \in Slots : h'[t].wait = h[t].wait
    BY <1>1, <2>1 DEF Set
  <2>3. Proceeds(s)
    BY <1>3, <2>1, SetProceeds DEF Set
  <2>4. /\ disk' \in [Names -> Contents]
        /\ \A m \in Names : m # h[s].dest => disk'[m] = disk[m]
        /\ \A m \in Names : (disk[m].there => disk'[m].there) /\ disk[m].has \subseteq disk'[m].has
        /\ \A m \in Names : disk'[m].has \subseteq 1..Chunks
        /\ ~h[s].dead => h[s].idx \in disk'[h[s].dest].has
    BY <1>2, <2>0, WrittenSame
  <2>5. h[s].page \in Clean =>
           /\ ~h'[s].dead /\ disk'[h'[s].dest].there
           /\ \A i \in 1..Chunks : i < h'[s].idx => i \in disk'[h'[s].dest].has
    <3> SUFFICES ASSUME h[s].page \in Clean
                 PROVE  /\ ~h'[s].dead /\ disk'[h'[s].dest].there
                        /\ \A i \in 1..Chunks : i < h'[s].idx => i \in disk'[h'[s].dest].has
      OBVIOUS
    <3>1. /\ ~h[s].dead /\ disk[h[s].dest].there
          /\ \A i \in 1..Chunks : i < h[s].idx => i \in disk[h[s].dest].has
      BY <1>1, OfForm
    <3>2. \A i \in 1..Chunks : i < h[s].idx + 1 => i < h[s].idx \/ i = h[s].idx
      BY <1>2
    <3> QED BY <1>2, <2>2, <2>4, <3>1, <3>2
  <2>6. h[s].page \in Clean => \A f \in h[s].saved : disk'[f[2]].there /\ disk'[f[2]].has = 1..Chunks
    <3>1. ASSUME h[s].page \in Clean, NEW f \in h[s].saved
          PROVE  disk'[f[2]].there /\ disk'[f[2]].has = 1..Chunks
      <4>1. f[2] \in Names /\ disk[f[2]].there /\ disk[f[2]].has = 1..Chunks
        BY <1>1, <3>1, OfForm
      <4> QED BY <2>4, <4>1
    <3> QED BY <3>1
  <2>7. Parts'
    BY <1>1, <1>2, <2>0, <2>2, <2>3, <2>4, <2>5, <2>6, OfForm, FormProceeds DEF ShareIInv
  <2> QED BY <1>2, <1>3, <2>2, <2>4, <2>7 DEF ShareIInv, ShareTypeOK, Held, PausesHeld, WaiterCanBeResumed
<1>5. CASE ~(h[s].idx <= Chunks)
  <2>0. /\ h' = [h EXCEPT ![s].st = "part", ![s].file = h[s].file + 1,
                          ![s].saved = h[s].saved \union {<<h[s].file, h[s].dest>>}]
        /\ disk' = disk
    BY <1>1, <1>5 DEF FormRead
  <2>1. h[s].saved \union {<<h[s].file, h[s].dest>>} \in SUBSET ((1..Files) \X Names) /\ h[s].file + 1 \in Nat
        /\ h[s].file + 1 \in 1..(Files + 1)
    BY <1>1, <1>2, OfForm
  <2>2. Set(h, h', s, "part", h[s].file + 1, h[s].idx, h[s].dest, h[s].saved \union {<<h[s].file, h[s].dest>>},
            h[s].wait, h[s].dead)
    BY <1>1, <2>0, <2>1, Set_st_file_saved
  <2>3. h' \in [Slots -> Handlers] /\ h'[s].st = "part" /\ h'[s].file = h[s].file + 1
        /\ h'[s].saved = h[s].saved \union {<<h[s].file, h[s].dest>>}
        /\ \A t \in Slots : h'[t].wait = h[t].wait
    BY <2>2 DEF Set
  <2>4. Proceeds(s)
    BY <1>3, <2>2, SetProceeds DEF Set
  <2>5. h[s].page \in Clean => disk[h[s].dest].there /\ disk[h[s].dest].has = 1..Chunks
    <3> SUFFICES ASSUME h[s].page \in Clean
                 PROVE  disk[h[s].dest].there /\ disk[h[s].dest].has = 1..Chunks
      OBVIOUS
    <3>1. /\ disk[h[s].dest].there
          /\ \A i \in 1..Chunks : i < h[s].idx => i \in disk[h[s].dest].has
      BY <1>1, OfForm
    <3>2. disk[h[s].dest].has \subseteq 1..Chunks
      BY <1>1, <1>2, OfForm
    <3>3. \A i \in 1..Chunks : i < h[s].idx
      BY <1>2, <1>5
    <3> QED BY <3>1, <3>2, <3>3
  <2>6. h[s].page \in Clean => \A f \in h'[s].saved : disk'[f[2]].there /\ disk'[f[2]].has = 1..Chunks
    BY <1>1, <2>0, <2>3, <2>5, OfForm
  <2>7. \A f \in h'[s].saved : f[2] \in Own(h[s].page)
    BY <1>1, <1>2, <2>3, OfForm
  <2>9. /\ ShareTypeOK /\ Parts
        /\ h[s].dest \in Names /\ h[s].dest \in Own(h[s].page)
        /\ \A m \in Names : disk[m].has \subseteq 1..Chunks
    BY <1>1, OfForm DEF ShareIInv
  <2>8. Parts'
    BY <1>1, <1>2, <2>0, <2>1, <2>3, <2>4, <2>6, <2>7, <2>9, FormProceeds
  <2> QED BY <1>2, <1>3, <2>0, <2>3, <2>8 DEF ShareIInv, ShareTypeOK, Held, PausesHeld, WaiterCanBeResumed
<1> QED BY <1>4, <1>5

LEMMA FormAbortsStep ==
  ASSUME ShareIInv, NEW s \in Slots, FormAborts(s)
  PROVE  ShareIInv'
<1>1. h[s].kind = "form" /\ h[s].st = "read" /\ h \in [Slots -> Handlers]
  BY WhoServes DEF FormAborts
<1>2. h[s].page \in Forms /\ h[s].page \in Pages /\ h[s].dest \in Names /\ disk \in [Names -> Contents]
  BY <1>1, OfForm
<1>3. /\ page' \in [Pages -> Scripts]
      /\ \A p \in Pages : page[p].on # s => page'[p] = page[p]
      /\ \A p \in Pages : page[p].on = s =>
           /\ page'[p].on = None /\ page'[p].st \in {"failed", "done"}
           /\ page'[p].file = page[p].file /\ page'[p].idx = page[p].idx
  <2>1. "failed" \in {"failed", "done"} /\ Answer(s, "failed")
    BY DEF FormAborts
  <2> QED BY <1>2, <2>1, AnswerSame
<1>4. PICK h0 : h0 = [h EXCEPT ![s] = Nobody]
  OBVIOUS
<1>5. h0 \in [Slots -> Handlers] /\ h0[s] = Nobody /\ \A t \in Slots \ {s} : h0[t] = h[t]
  BY <1>1, <1>4, NobodyType
<1>6. PICK hs : hs = Woken(h0)
  OBVIOUS
<1>7. hs \in [Slots -> Handlers] /\ \A t \in Slots :
              /\ hs[t].kind = h0[t].kind /\ hs[t].st = h0[t].st
              /\ hs[t].page = h0[t].page /\ hs[t].file = h0[t].file
              /\ hs[t].idx = h0[t].idx /\ hs[t].dest = h0[t].dest
              /\ hs[t].saved = h0[t].saved /\ hs[t].gone = h0[t].gone
              /\ hs[t].dead = h0[t].dead /\ ~hs[t].wait
  BY <1>5, <1>6, WokenSame
<1>8. Nobody.kind = None /\ Nobody.page = None /\ Nobody.st = "none" /\ Nobody.dest = None
  BY DEF Nobody
<1>9. h' = Unlinked(hs, h[s].dest)
  BY <1>4, <1>6 DEF FormAborts
<1>10. ASSUME NEW t \in Slots
       PROVE  /\ h'[t] \in Handlers
              /\ h'[t].kind = hs[t].kind /\ h'[t].st = hs[t].st /\ h'[t].page = hs[t].page
              /\ h'[t].file = hs[t].file /\ h'[t].idx = hs[t].idx /\ h'[t].dest = hs[t].dest
              /\ h'[t].saved = hs[t].saved /\ h'[t].gone = hs[t].gone /\ h'[t].wait = hs[t].wait
              /\ (hs[t].dest # h[s].dest => h'[t].dead = hs[t].dead)
  <2>1. CASE hs[t].dest = h[s].dest
    <3>1. h'[t] = [hs[t] EXCEPT !.dead = TRUE] /\ hs[t] \in Handlers
      BY <1>7, <1>9, <2>1 DEF Unlinked
    <3>2. h'[t] \in Handlers
      BY <3>1, Fields
    <3>3. /\ h'[t].kind = hs[t].kind /\ h'[t].st = hs[t].st /\ h'[t].page = hs[t].page
          /\ h'[t].file = hs[t].file /\ h'[t].idx = hs[t].idx /\ h'[t].dest = hs[t].dest
          /\ h'[t].saved = hs[t].saved /\ h'[t].gone = hs[t].gone /\ h'[t].wait = hs[t].wait
      BY <3>1, DeadSame
    <3> QED BY <2>1, <3>2, <3>3
  <2>2. CASE hs[t].dest # h[s].dest
    <3>1. h'[t] = hs[t] /\ hs[t] \in Handlers
      BY <1>7, <1>9, <2>2 DEF Unlinked
    <3> QED BY <3>1
  <2> QED BY <2>1, <2>2
<1>11. h' \in [Slots -> Handlers] /\ \A t \in Slots : ~h'[t].wait
  BY <1>7, <1>9, <1>10 DEF Unlinked
<1>12. /\ h'[s].kind = None /\ h'[s].page = None /\ h'[s].st = "none"
       /\ \A t \in Slots \ {s} : Same(t) /\ h'[t].gone = h[t].gone /\ (h[t].dest # h[s].dest => h'[t].dead = h[t].dead)
  BY <1>5, <1>7, <1>8, <1>10 DEF Same
<1>13. /\ disk' \in [Names -> Contents] /\ \A m \in Names : m # h[s].dest => disk'[m] = disk[m]
  BY <1>2 DEF FormAborts, Contents, NoFile
<1>14. /\ rec' = NoRecord /\ reported' = reported
       /\ spoiled' = spoiled \union (UsersOf(h[s].dest) \ {h[s].page})
  BY DEF FormAborts
<1>15. Removes(h[s].dest, {s})
  BY <1>2, <1>3, <1>12, <1>13, <1>14 DEF Removes
<1>16. Parts'
  BY <1>2, <1>15, RemovesStep DEF ShareIInv
<1>17. rec' \in Records /\ ~rec'.paused
  BY <1>14, NoRecordType DEF NoRecord
<1> QED BY <1>3, <1>11, <1>13, <1>16, <1>17 DEF ShareIInv, ShareTypeOK, Held, PausesHeld, WaiterCanBeResumed

LEMMA DownAdmitStep ==
  ASSUME ShareIInv, NEW s \in Slots, DownAdmit(s)
  PROVE  ShareIInv'
<1>1. h[s].kind = "down" /\ h[s] \in Handlers /\ h \in [Slots -> Handlers] /\ h[s].page \in Pages /\ "write" \in Steps
  BY WhoServes DEF DownAdmit, Steps
<1>2. CASE Register(s, "download", None) /\ h' = [h EXCEPT ![s].st = "write"] /\ UNCHANGED page
  <2>1. Set(h, h', s, "write", h[s].file, h[s].idx, h[s].dest, h[s].saved, h[s].wait, h[s].dead)
    BY <1>1, <1>2, Set_st
  <2>2. /\ disk' = disk /\ spoiled' = spoiled /\ reported' = reported /\ page' = page
    BY <1>2 DEF DownAdmit
  <2>3. \A t \in Slots \ {s} : Same(t) /\ h'[t].gone = h[t].gone /\ h'[t].dead = h[t].dead
    BY <2>1 DEF Set, Same
  <2>4. Parts'
    BY <1>1, <2>1, <2>2, <2>3, DownProceeds DEF Set, ShareIInv
  <2>5. rec' \in Records /\ rec'.dir = "download" /\ "download" # None
    BY <1>2, NoneAssumption DEF Register, Records
  <2> QED BY <2>1, <2>2, <2>4, <2>5 DEF ShareIInv, ShareTypeOK, Held, PausesHeld, WaiterCanBeResumed, Set
<1>3. CASE EndOnly(s) /\ Answer(s, "failed")
  BY <1>1, <1>3, StopsStep DEF DownAdmit
<1> QED BY <1>2, <1>3 DEF DownAdmit

LEMMA DownWriteStep ==
  ASSUME ShareIInv, NEW s \in Slots, DownWrite(s)
  PROVE  ShareIInv'
<1>1. h[s].kind = "down" /\ h[s].st = "write" /\ h[s] \in Handlers /\ h \in [Slots -> Handlers] /\ h[s].page \in Pages
      /\ h[s].idx \in Nat
  BY WhoServes DEF DownWrite, Handlers
<1>2. Set(h, h', s, h[s].st, h[s].file, h[s].idx + 1, h[s].dest, h[s].saved, h[s].wait, h[s].dead)
  <2>1. h' = [h EXCEPT ![s].idx = h[s].idx + 1] /\ h[s].idx + 1 \in Nat
    BY <1>1 DEF DownWrite
  <2> QED BY <1>1, <2>1, Set_idx
<1>3. /\ disk' = disk /\ spoiled' = spoiled /\ reported' = reported /\ rec' = rec
  BY DEF DownWrite
<1>4. \A t \in Slots \ {s} : Same(t) /\ h'[t].gone = h[t].gone /\ h'[t].dead = h[t].dead
  BY <1>2 DEF Set, Same
<1>5. /\ page' \in [Pages -> Scripts]
      /\ \A p \in Pages : p # h[s].page => page'[p] = page[p]
      /\ page'[h[s].page].st = page[h[s].page].st /\ page'[h[s].page].on = page[h[s].page].on
  <2>0. page \in [Pages -> Scripts]
    BY DEF ShareIInv, ShareTypeOK
  <2>1. CASE page[h[s].page].on = s
    <3>1. PICK r : r = [page[h[s].page] EXCEPT !.idx = @ + 1]
      OBVIOUS
    <3>2. page[h[s].page] \in Scripts
      BY <1>1, <2>0
    <3>3. r \in Scripts /\ r.st = page[h[s].page].st /\ r.on = page[h[s].page].on
      BY <3>1, <3>2 DEF Scripts
    <3>4. page' = [page EXCEPT ![h[s].page] = r]
      BY <2>1, <3>1 DEF DownWrite, Waits
    <3> QED BY <1>1, <2>0, <3>3, <3>4
  <2>2. CASE page[h[s].page].on # s
    BY <2>0, <2>2 DEF DownWrite, Waits
  <2> QED BY <2>1, <2>2
<1>6. Parts'
  BY <1>1, <1>2, <1>3, <1>4, <1>5, DownProceeds DEF Set, ShareIInv
<1> QED BY <1>2, <1>3, <1>5, <1>6 DEF ShareIInv, ShareTypeOK, Held, PausesHeld, WaiterCanBeResumed, Set

LEMMA DownEndsStep ==
  ASSUME ShareIInv, NEW s \in Slots, DownEnds(s)
  PROVE  ShareIInv'
<1>1. h[s].page \in Pages
  BY WhoServes DEF DownEnds
<1> QED BY <1>1, StopsStep DEF DownEnds

\* A write or an open that fails.
LEMMA ChunkFailsStep ==
  ASSUME ShareIInv, NEW s \in Slots, ChunkFails(s), disk' = disk, reported' = reported
  PROVE  ShareIInv'
<1>1. h[s].page \in Pages
  BY WhoServes DEF ChunkFails
<1> QED BY <1>1, StopsStep DEF ChunkFails

LEMMA FormNotMadeStep ==
  ASSUME ShareIInv, NEW s \in Slots, FormNotMade(s), disk' = disk, reported' = reported
  PROVE  ShareIInv'
<1>1. h[s].kind = "form" /\ h[s].st = "create" /\ h[s] \in Handlers /\ h \in [Slots -> Handlers] /\ "part" \in Steps
  BY WhoServes DEF FormNotMade, Steps
<1>2. /\ h[s].dest \in Own(h[s].page) /\ h[s].dest \in Names /\ h[s].file \in 1..Files
      /\ disk \in [Names -> Contents] /\ Files \in Nat /\ h[s].file + 1 \in Nat
      /\ h[s].file + 1 \in 1..(Files + 1)
      /\ \A m \in Names : disk[m].has \subseteq 1..Chunks
  BY <1>1, OfForm
<1>3. h' \in [Slots -> Handlers] /\ h'[s].kind = h[s].kind /\ h'[s].page = h[s].page /\ h'[s].gone = h[s].gone
      /\ h'[s].st = "part" /\ h'[s].file = h[s].file + 1
      /\ h'[s].saved = h[s].saved /\ h'[s].wait = h[s].wait
      /\ \A t \in Slots \ {s} : h'[t] = h[t]
  <2>1. PICK h1 : h1 = [h EXCEPT ![s].st = "part"]
    OBVIOUS
  <2>2. h' = [h1 EXCEPT ![s].file = h[s].file + 1]
    BY <1>1, <2>1 DEF FormNotMade
  <2>3. Set(h, h1, s, "part", h[s].file, h[s].idx, h[s].dest, h[s].saved, h[s].wait, h[s].dead)
    BY <1>1, <2>1, Set_st
  <2>4. h1 \in [Slots -> Handlers]
    BY <2>3 DEF Set
  <2>5. Set(h1, h', s, h1[s].st, h[s].file + 1, h1[s].idx, h1[s].dest, h1[s].saved, h1[s].wait, h1[s].dead)
    BY <1>2, <2>2, <2>4, Set_file
  <2> QED BY <2>3, <2>5 DEF Set
<1>4. /\ rec' = rec /\ page' = page /\ spoiled' = spoiled
  BY DEF FormNotMade
<1>5. Proceeds(s)
  BY <1>3, <1>4, SetProceeds
<1>6. /\ \A f \in h'[s].saved : f[2] \in Own(h[s].page)
      /\ h[s].page \in Clean => \A f \in h'[s].saved : disk'[f[2]].there /\ disk'[f[2]].has = 1..Chunks
  BY <1>1, <1>3, OfForm
<1>7. Parts'
  BY <1>1, <1>2, <1>3, <1>5, <1>6, FormProceeds DEF ShareIInv
<1> QED BY <1>3, <1>4, <1>7 DEF ShareIInv, ShareTypeOK, Held, PausesHeld, WaiterCanBeResumed

\* The failed write leaves its page among the spoiled.
LEMMA FormNotWrittenStep ==
  ASSUME ShareIInv, NEW s \in Slots, FormNotWritten(s), disk' = disk, reported' = reported
  PROVE  ShareIInv'
<1>1. h[s].kind = "form" /\ h[s].st = "read" /\ h[s] \in Handlers /\ h \in [Slots -> Handlers] /\ "read" \in Steps
  BY WhoServes DEF FormNotWritten, Steps
<1>2. /\ h[s].dest \in Own(h[s].page) /\ h[s].dest \in Names /\ h[s].file \in 1..Files
      /\ disk \in [Names -> Contents] /\ h[s].idx \in 1..Chunks /\ Chunks \in Nat
      /\ h[s].idx + 1 \in Nat /\ h[s].idx + 1 \in 1..(Chunks + 1)
      /\ \A m \in Names : disk[m].has \subseteq 1..Chunks
  BY <1>1, OfForm DEF FormNotWritten
<1>3. Set(h, h', s, h[s].st, h[s].file, h[s].idx + 1, h[s].dest, h[s].saved, h[s].wait, h[s].dead)
  BY <1>1, <1>2, Set_idx DEF FormNotWritten
<1>4. h' \in [Slots -> Handlers] /\ h'[s].st = "read" /\ h'[s].file = h[s].file /\ h'[s].saved = h[s].saved
      /\ h'[s].idx = h[s].idx + 1 /\ h'[s].dest = h[s].dest
      /\ \A t \in Slots : h'[t].wait = h[t].wait
  BY <1>1, <1>3 DEF Set
<1>5. /\ rec' = rec /\ page' = page /\ spoiled' = spoiled \union {h[s].page}
  BY DEF FormNotWritten
<1>6. Proceeds(s)
  BY <1>3, <1>5, SetProceeds DEF Set
<1>7. \A f \in h'[s].saved : f[2] \in Own(h[s].page)
  BY <1>1, <1>4, OfForm
<1>8. h[s].page \in spoiled'
  BY <1>5
<1>9. h'[s].kind = h[s].kind /\ h'[s].page = h[s].page
  BY <1>3 DEF Set
<1>10. /\ ShareTypeOK /\ Parts
       /\ h'[s].idx \in 1..(Chunks + 1) /\ h'[s].file \in 1..(Files + 1) /\ h'[s].file \in 1..Files
       /\ h'[s].dest \in Own(h[s].page) /\ h[s].dest \in Names /\ disk[h[s].dest].has \subseteq 1..Chunks
  BY <1>1, <1>2, <1>4, OfForm DEF ShareIInv
<1>11. Parts'
  BY ONLY <1>1, <1>2, <1>4, <1>6, <1>7, <1>8, <1>10, disk' = disk, FormProceeds
<1> QED BY <1>2, <1>4, <1>5, <1>11 DEF ShareIInv, ShareTypeOK, Held, PausesHeld, WaiterCanBeResumed

LEMMA DiskIsFullStep ==
  ASSUME ShareIInv, NEW s \in Slots, DiskIsFull(s)
  PROVE  ShareIInv'
BY ChunkFailsStep, FormNotMadeStep, FormNotWrittenStep DEF DiskIsFull

LEMMA ServeStep ==
  ASSUME ShareIInv, NEW s \in Slots, Serve(s)
  PROVE  ShareIInv'
BY WaitOnPauseStep, ChunkAdmitNext, ChunkRegisterStep, ChunkCheckStep, ChunkOpenStep, ChunkCopyStep, ChunkEndStep,
   FormAdmitStep, FormPartStep, FormCreateStep, FormReadStep, FormAbortsStep, DownAdmitStep, DownWriteStep, DownEndsStep
   DEF Serve

LEMMA ScriptStep ==
  ASSUME ShareIInv, NEW p \in Pages, Script(p)
  PROVE  ShareIInv'
<1>1. CASE \E s \in Slots : UploadNextChunk(p, s) \/ UploadForm(p, s) \/ StartOrResumeDownload(p, s)
  <2>1. PICK s \in Slots : UploadNextChunk(p, s) \/ UploadForm(p, s) \/ StartOrResumeDownload(p, s)
    BY <1>1
  <2>2. CASE UploadNextChunk(p, s)
    BY <2>2, RequestStep DEF UploadNextChunk
  <2>3. CASE UploadForm(p, s)
    BY <2>3, RequestStep DEF UploadForm
  <2>4. CASE StartOrResumeDownload(p, s)
    BY <2>4, RequestStep DEF StartOrResumeDownload
  <2> QED BY <2>1, <2>2, <2>3, <2>4
<1>2. CASE UploadDone(p)
  BY <1>2, TurnsAll DEF UploadDone
<1> QED BY <1>1, <1>2 DEF Script

LEMMA UsersStep ==
  ASSUME ShareIInv, Users
  PROVE  ShareIInv'
<1>0. rec \in Records /\ h \in [Slots -> Handlers] /\ (rec.paused => rec.dir # None)
  BY DEF ShareIInv, ShareTypeOK, Held, PausesHeld
<1>1. ASSUME NEW p \in Senders, RequestUpload(p)
      PROVE  ShareIInv'
  <2>1. p \in Pages
    BY DEF Pages
  <2>2. PICK x \in {"asking", "next"} : page' = [page EXCEPT ![p].st = x]
    BY <1>1 DEF RequestUpload
  <2> QED BY <1>1, <2>1, <2>2, TurnsAll DEF RequestUpload
<1>2. ASSUME NEW p \in Senders, HostAccepts(p) \/ HostRejects(p)
      PROVE  ShareIInv'
  BY <1>0, <1>2, StillAll DEF HostAccepts, HostRejects
<1>3. ASSUME NEW p \in Pages, DownloadWithProgress(p)
      PROVE  ShareIInv'
  BY <1>3, TurnsAll DEF DownloadWithProgress
<1>4. ASSUME NEW p \in Pages, TogglePause(p)
      PROVE  ShareIInv'
  BY <1>4, AbortsStep DEF TogglePause
<1>5. ASSUME NEW p \in Pages, ToggleResume(p)
      PROVE  ShareIInv'
  BY <1>5, TurnsAll DEF ToggleResume
<1>6. ASSUME NEW p \in Pages, StopTransfer(p) \/ Leave(p)
      PROVE  ShareIInv'
  BY <1>6, AbortsStep DEF StopTransfer, Leave
<1>7. CASE HostPauses
  <2>1. rec' \in Records /\ rec'.dir = rec.dir /\ (rec'.paused => rec.paused \/ rec.dir # None)
    BY <1>0, <1>7 DEF HostPauses, PauseTransfer, Records
  <2> QED BY <1>7, <2>1, StillAll DEF HostPauses
<1>8. CASE HostCancels
  BY <1>8, TransferCanceled DEF HostCancels
<1>9. CASE HostSets("auto") \/ HostSets("shared")
  BY <1>0, <1>9, StillAll DEF HostSets
<1> QED BY <1>1, <1>2, <1>3, <1>4, <1>5, <1>6, <1>7, <1>8, <1>9 DEF Users

LEMMA ResumeStep ==
  ASSUME ShareIInv, ResumeTransfer, page' = page, disk' = disk, spoiled' = spoiled, reported' = reported
  PROVE  ShareIInv'
<1>0. rec \in Records
  BY DEF ShareIInv, ShareTypeOK
<1>1. CASE rec.dir = None
  BY <1>0, <1>1, StillAll DEF ResumeTransfer
<1>2. CASE rec.dir # None
  <2>1. rec' \in Records /\ ~rec'.paused /\ h' = Woken(h)
    BY <1>0, <1>2 DEF ResumeTransfer, Records
  <2> QED BY <2>1, WokenAll
<1> QED BY <1>1, <1>2

LEMMA ArrivesStep ==
  ASSUME ShareIInv, NEW p \in Pages, NEW what \in {"pause", "resume", "cancel"}, Arrives(p, what)
  PROVE  ShareIInv'
<1>0. rec \in Records
  BY DEF ShareIInv, ShareTypeOK
<1>1. CASE PauseTransfer /\ UNCHANGED <<h, calls>>
  <2>1. rec' \in Records /\ rec'.dir = rec.dir /\ (rec'.paused => rec.paused \/ rec.dir # None)
    BY <1>0, <1>1 DEF PauseTransfer, Records
  <2> QED BY <1>1, <2>1, StillAll DEF Arrives
<1>2. CASE ResumeTransfer
  BY <1>2, ResumeStep DEF Arrives
<1>3. CASE CancelTransfer
  BY <1>3, TransferCanceled DEF Arrives
<1> QED BY <1>1, <1>2, <1>3 DEF Arrives

\* The calls a cancel has still to make are of requests and names.
LEMMA CallsStep ==
  ASSUME ShareIInv, CallsOK, [ShareNext]_shareVars
  PROVE  CallsOK'
<1>0. rec \in Records
  BY DEF ShareIInv, ShareTypeOK
<1>1. ASSUME Undoes
      PROVE  CallsOK'
  <2>1. rec.by \in Slots \union {None} /\ rec.dest \in Names \union {None}
    BY <1>0 DEF Records
  <2> QED BY <1>1, <2>1 DEF Undoes, CallsOK
<1>2. CASE calls' = calls
  BY <1>2 DEF CallsOK
<1>3. ASSUME NEW c \in calls, CancelsContext(c)
      PROVE  CallsOK'
  <2>1. c \in [req : Slots \union {None}, dest : Names \union {None}]
    BY DEF CallsOK
  <2>2. [c EXCEPT !.req = None] = [req |-> None, dest |-> c.dest]
    BY <2>1
  <2> QED BY <1>3, <2>1, <2>2 DEF CancelsContext, CallsOK
<1>4. ASSUME NEW c \in calls, RemovesFile(c)
      PROVE  CallsOK'
  BY <1>4 DEF RemovesFile, CallsOK
<1>5. ASSUME NEW s \in Slots, Serve(s)
      PROVE  calls' = calls
  BY <1>5 DEF Serve, WaitOnPause, ChunkAdmit, ChunkRegister, ChunkCheck, ChunkOpen, ChunkCopy, ChunkEnd,
     FormAdmit, FormPart, FormCreate, FormRead, FormAborts, DownAdmit, DownWrite, DownEnds
<1>6. ASSUME NEW p \in Pages, Script(p)
      PROVE  calls' = calls
  BY <1>6 DEF Script, UploadNextChunk, UploadForm, StartOrResumeDownload, Request, UploadDone
<1>7. ASSUME NEW p \in Senders, Decided(p) \/ AskTimesOut(p) \/ TicketExpires(p)
      PROVE  calls' = calls
  BY <1>7 DEF Decided, AskTimesOut, TicketExpires
<1>8. ASSUME NEW p \in Pages, NEW what \in {"pause", "resume", "cancel"}, Arrives(p, what)
      PROVE  calls' = calls \/ Undoes
  BY <1>8 DEF Arrives, CancelTransfer
<1>9. ASSUME NEW s \in Slots, DiskIsFull(s)
      PROVE  calls' = calls
  BY <1>9 DEF DiskIsFull
<1>10. HostResumes => calls' = calls
  BY DEF HostResumes
<1>11. Users => calls' = calls \/ Undoes
  BY DEF Users, RequestUpload, HostAccepts, HostRejects, DownloadWithProgress, TogglePause, ToggleResume,
     StopTransfer, Leave, HostPauses, HostCancels, HostSets, CancelTransfer
<1>12. UNCHANGED shareVars => calls' = calls
  BY DEF shareVars
<1> QED BY <1>1, <1>2, <1>3, <1>4, <1>5, <1>6, <1>7, <1>8, <1>9, <1>10, <1>11, <1>12 DEF ShareNext

LEMMA ShareStep ==
  ASSUME ShareIInv, CallsOK, [ShareNext]_shareVars
  PROVE  ShareIInv'
<1>0. rec \in Records /\ (rec.paused => rec.dir # None)
  BY DEF ShareIInv, ShareTypeOK, Held, PausesHeld
<1>1. ASSUME NEW p \in Senders, Decided(p)
      PROVE  ShareIInv'
  <2>1. (ticket[p].chan = "yes") \in BOOLEAN
    OBVIOUS
  <2> QED BY <1>1, <2>1, AnswerAskStep DEF Decided
<1>2. ASSUME NEW p \in Senders, AskTimesOut(p)
      PROVE  ShareIInv'
  BY <1>2, AnswerAskStep DEF AskTimesOut
<1>3. ASSUME NEW p \in Senders, TicketExpires(p)
      PROVE  ShareIInv'
  BY <1>0, <1>3, StillAll DEF TicketExpires
<1>4. CASE HostResumes
  BY <1>4, ResumeStep DEF HostResumes
<1>5. CASE UNCHANGED shareVars
  BY <1>0, <1>5, StillAll DEF shareVars
<1>6. ASSUME NEW c \in calls, CancelsContext(c) \/ RemovesFile(c)
      PROVE  ShareIInv'
  <2>1. RemovesFile(c) => c.dest \in Names
    BY DEF RemovesFile, CallsOK
  <2> QED BY <1>6, <2>1, CancelsContextStep, RemovesFileStep
<1> QED BY <1>1, <1>2, <1>3, <1>4, <1>5, <1>6, ServeStep, ScriptStep, ArrivesStep, UsersStep, DiskIsFullStep DEF ShareNext

LEMMA ShareStart ==
  ASSUME ShareInit
  PROVE  ShareIInv
<1>1. /\ page \in [Pages -> Scripts] /\ h \in [Slots -> Handlers] /\ rec \in Records /\ disk \in [Names -> Contents]
  BY NobodyType, NoRecordType DEF ShareInit, Scripts, Contents, HostFile, NoFile
<1>2. /\ \A s \in Slots : h[s].kind = None /\ h[s].page = None /\ h[s].st = "none" /\ ~h[s].wait
      /\ \A p \in Pages : page[p].st = "idle" /\ page[p].file = 1 /\ page[p].idx = 1 /\ page[p].on = None
      /\ ~rec.paused /\ reported = {}
  BY DEF ShareInit, Nobody, NoRecord
<1>3. /\ None \notin Slots /\ None \notin Pages /\ None \notin {"chunk", "form", "down"}
      /\ Uploads \subseteq Pages /\ Forms \subseteq Pages /\ Senders \subseteq Pages /\ None \notin Forms
      /\ Files \in Nat \ {0} /\ Chunks \in Nat \ {0}
  BY NoneAssumption, CountsAssumption DEF Pages, Senders
<1>4. KindsAgree /\ PagesWait /\ ChunksAgree /\ FormsAgree /\ ChunksLate /\ ChunksThere /\ FormsThere
  BY <1>2, <1>3 DEF KindsAgree, PagesWait, ChunksAgree, FormsAgree, ChunksLate, ChunksThere, FormsThere
<1>5. PlacesAgree /\ OneFormEach
  BY <1>2, <1>3 DEF PlacesAgree, OneFormEach
<1>6. SentThere
  BY <1>2, <1>3 DEF SentThere
<1>7. WholeWhenTold /\ PausesHeld /\ WaiterCanBeResumed
  BY <1>2 DEF WholeWhenTold, PausesHeld, WaiterCanBeResumed
<1> QED BY <1>1, <1>4, <1>5, <1>6, <1>7 DEF ShareIInv, ShareTypeOK, Parts, Held

(* In every state of the web share, for any number of pages, requests,     *)
(* files and chunks: the requests and the pages agree on how far each      *)
(* upload is, and what is before that is on the disk.                      *)
THEOREM ShareIInvHolds == ShareSpec => []ShareIInv
<1>1. ShareInit => ShareIInv /\ CallsOK
  BY ShareStart DEF ShareInit, CallsOK
<1>2. ShareIInv /\ CallsOK /\ [ShareNext]_shareVars => (ShareIInv /\ CallsOK)'
  BY ShareStep, CallsStep
<1> QED BY <1>1, <1>2, PTL DEF ShareSpec

(* What is reported complete (web_share_complete) is whole, unless its     *)
(* upload is one of those that WholeWhenTold names.                        *)
THEOREM WholeHolds == ShareSpec => []WholeWhenTold
<1>1. ShareIInv => WholeWhenTold
  BY DEF ShareIInv, Parts
<1> QED BY <1>1, ShareIInvHolds, PTL

(* While a request waits in CheckWebSharePause there is a record for       *)
(* resume to act on.                                                       *)
THEOREM WaiterHolds == ShareSpec => []WaiterCanBeResumed
<1>1. ShareIInv => WaiterCanBeResumed
  BY DEF ShareIInv, Held
<1> QED BY <1>1, ShareIInvHolds, PTL

-----------------------------------------------------------------------------
(* The one-shot port.                                                      *)

USE DevicesAssumption, PathsAssumption

States == {"handshake", "frame", "queued", "first", "typing", "confirms", "proved",
           "before", "accepted", "talks", "gone"}
Winning == {"before", "accepted", "talks"}

Connection ==
  [st : States, dev : Devices, path : {"secret", "hello", "pin", "wanted", "none"}, code : Nat, round : Nat,
   auth : BOOLEAN, counted : BOOLEAN, peer : BOOLEAN, place : BOOLEAN, running : BOOLEAN]

\* A place is held until the connection is authenticated or closed.
Sound(r) ==
  /\ r \in Connection
  /\ r.st = "handshake" => ~r.auth
  /\ r.running <=> r.st = "handshake"
  /\ r.place <=> r.st # "gone" /\ ~r.auth

Serves ==
  [round : Nat, at : {"between", "accepts", "outcome", "over"}, claimed : Nat, cause : {"none", "expired", "too many"}]
CodesType == [expired : BOOLEAN, used : BOOLEAN, pin : BOOLEAN, stopped : BOOLEAN]
Ports == [open : BOOLEAN, queue : Seq(Nat)]
Sends == [once : BOOLEAN, peer : Devices \cup {0}, answer : Answers, result : {"none", "paired", "failed"}]
Recvs == [Devices -> {"idle", "pin", "joins", "accepted", "declined", "pulls"}]
Gates == [active : Int, running : [Devices -> Int], recent : [Devices -> Int], known : SUBSET Devices]

TypeOK ==
  /\ ctx \in {"on", "ended"}
  /\ serve \in Serves
  /\ codes \in CodesType
  /\ port \in Ports
  /\ outcome \in {"none", "paired", "failed"}
  /\ send \in Sends
  /\ conn \in Seq(Connection)
  /\ recv \in Recvs
  /\ gate \in Gates
  /\ cut \in BOOLEAN

\* The connections in the queue wait there, each once.
Waiting ==
  /\ \A n \in 1 .. Len(port.queue) : port.queue[n] \in Live /\ At(port.queue[n], "queued")
  /\ \A m, n \in 1 .. Len(port.queue) : port.queue[m] = port.queue[n] => m = n

\* Nobody has claimed the pairing: nothing of it has happened.
Unclaimed ==
  /\ told = {} /\ ~send.once /\ send.peer = 0 /\ outcome = "none" /\ serve.at # "outcome"
  /\ \A c \in Live : conn[c].st \notin Winning

InRound(c) == conn[c].round = serve.round /\ serve.cause = "none" /\ serve.at \in {"accepts", "outcome"}

\* One has: it goes on in its time, or is over and gave its outcome.
Claimed(c) ==
  /\ c \in Live /\ serve.at # "between"
  /\ \A k \in Live : conn[k].st \in Winning => k = c
  /\ conn[c].st = "gone" <=> outcome # "none"
  /\ outcome = "none" => conn[c].st \in Winning /\ InRound(c)
  /\ conn[c].st = "before" => ~send.once /\ send.peer = 0
  /\ conn[c].st \in {"accepted", "talks"} \/ outcome = "paired" => send.peer = Dev(c)
  /\ told = IF conn[c].st = "talks" \/ outcome = "paired" THEN {c} ELSE {}

Winner ==
  /\ IF serve.claimed = 0 THEN Unclaimed ELSE Claimed(serve.claimed)
  /\ serve.at = "over" => IF serve.claimed = 0 THEN send.result = "failed"
                          ELSE outcome # "none" /\ send.result = outcome
  /\ \A d \in Devices : recv[d] \in {"accepted", "pulls"} => send.peer = d /\ told # {}
  /\ cut => ctx = "ended"

Places(d) == {c \in Live : conn[c].running /\ Dev(c) = d}
Counts ==
  /\ gate.active = Cardinality({c \in Live : conn[c].place})
  /\ \A d \in Devices : gate.running[d] = Cardinality(Places(d))

AllSound == \A c \in Live : Sound(conn[c])
IInv == TypeOK /\ AllSound /\ Waiting /\ Winner /\ Counts

-----------------------------------------------------------------------------
(* How the connections change.                                              *)

\* One of them does.
Moves(c, r) ==
  /\ c \in Live
  /\ conn' \in Seq(Connection) /\ Live' = Live
  /\ conn'[c] = r
  /\ \A k \in Live : k # c => conn'[k] = conn[k]

LEMMA FunIsSeq ==
  ASSUME NEW S, NEW n \in Nat, NEW f \in [1 .. n -> S]
  PROVE  f \in Seq(S) /\ Len(f) = n
<1>1. f \in Seq(S)
  BY SeqDef
<1>2. DOMAIN f = 1 .. Len(f) /\ Len(f) \in Nat
  BY <1>1, LenProperties
<1> QED
  BY <1>1, <1>2

LEMMA Moved ==
  ASSUME conn \in Seq(Connection), NEW c \in Live, NEW r \in Connection,
         conn' = [conn EXCEPT ![c] = r]
  PROVE  Moves(c, r)
<1>1. Len(conn) \in Nat /\ conn \in [1 .. Len(conn) -> Connection] /\ DOMAIN conn = 1 .. Len(conn)
  BY LenProperties
<1>2. conn' \in [1 .. Len(conn) -> Connection]
  BY <1>1 DEF Live
<1>3. conn' \in Seq(Connection) /\ Len(conn') = Len(conn)
  BY <1>1, <1>2, FunIsSeq
<1> QED
  BY <1>1, <1>3 DEF Live, Moves

\* What follows of the queue, and of the soundness of each.
LEMMA SoundMoved ==
  ASSUME AllSound, NEW c, NEW r, Moves(c, r), Sound(r)
  PROVE  AllSound'
BY DEF AllSound, Moves, Sound

LEMMA WaitingMoved ==
  ASSUME Waiting, TypeOK, NEW c, NEW r, Moves(c, r), conn[c].st = "queued" => r.st = "queued", port' = port
  PROVE  Waiting'
<1>1. ASSUME NEW k \in Live, At(k, "queued") PROVE k \in Live' /\ At(k, "queued")'
  BY <1>1 DEF Moves, At
<1> QED
  BY <1>1 DEF Waiting

\* ... and of the places: one more, or one less.
B(b) == IF b THEN 1 ELSE 0

LEMMA OneMoves ==
  ASSUME NEW S, NEW T, IsFiniteSet(S), NEW c, T \subseteq S \cup {c}, S \subseteq T \cup {c}
  PROVE  Cardinality(T) = Cardinality(S) + B(c \in T) - B(c \in S) /\ Cardinality(S) \in Int
<1>0. Cardinality(S) \in Nat
  BY FS_CardinalityType
<1>1. CASE c \in T /\ c \in S
  <2>1. T = S
    BY <1>1
  <2> QED
    BY <1>0, <1>1, <2>1 DEF B
<1>2. CASE c \in T /\ c \notin S
  <2>1. T = S \cup {c}
    BY <1>2
  <2>2. Cardinality(T) = Cardinality(S) + 1
    BY <1>2, <2>1, FS_AddElement
  <2> QED
    BY <1>0, <1>2, <2>2 DEF B
<1>3. CASE c \notin T /\ c \in S
  <2>1. T = S \ {c}
    BY <1>3
  <2>2. Cardinality(T) = Cardinality(S) - 1
    BY <1>3, <2>1, FS_RemoveElement
  <2> QED
    BY <1>0, <1>3, <2>2 DEF B
<1>4. CASE c \notin T /\ c \notin S
  <2>1. T = S
    BY <1>4
  <2> QED
    BY <1>0, <1>4, <2>1 DEF B
<1> QED
  BY <1>1, <1>2, <1>3, <1>4

LEMMA LiveFinite ==
  ASSUME conn \in Seq(Connection)
  PROVE  IsFiniteSet(Live) /\ Len(conn) \in Nat
<1>1. Len(conn) \in Nat
  BY LenProperties
<1>2. IsFiniteSet(1 .. Len(conn))
  BY <1>1, FS_Interval
<1> QED
  BY <1>1, <1>2 DEF Live

LEMMA CountsMoved ==
  ASSUME TypeOK, Counts, NEW c, NEW r, Moves(c, r), r.dev = Dev(c), gate.active \in Int,
         r.place \in BOOLEAN, r.running \in BOOLEAN, conn[c].place \in BOOLEAN, conn[c].running \in BOOLEAN,
         gate'.active = gate.active + B(r.place) - B(conn[c].place),
         \A d \in Devices : gate'.running[d] = gate.running[d] + (IF d = Dev(c) THEN B(r.running) - B(conn[c].running) ELSE 0)
  PROVE  Counts'
<1>0. IsFiniteSet(Live)
  BY LiveFinite DEF TypeOK
<1>1. gate'.active = Cardinality({k \in Live : conn[k].place}')
  <2> DEFINE S == {k \in Live : conn[k].place}  T == {k \in Live' : conn'[k].place}
  <2>1. IsFiniteSet(S)
    BY <1>0, FS_Subset
  <2>2. T \subseteq S \cup {c} /\ S \subseteq T \cup {c}
    BY DEF Moves
  <2>3. B(c \in T) = B(r.place) /\ B(c \in S) = B(conn[c].place)
    BY DEF Moves, B
  <2> HIDE DEF S, T
  <2>4. Cardinality(T) = Cardinality(S) + B(c \in T) - B(c \in S)
    BY <2>1, <2>2, OneMoves
  <2>5. gate.active = Cardinality(S)
    BY DEF Counts, S
  <2>6. gate'.active = Cardinality(T)
    BY <2>3, <2>4, <2>5
  <2> QED
    BY <2>6 DEF T
<1>2. ASSUME NEW d \in Devices PROVE gate'.running[d] = Cardinality(Places(d)')
  <2> DEFINE S == Places(d)  T == Places(d)'
  <2>1. IsFiniteSet(S)
    BY <1>0, FS_Subset DEF Places
  <2>2. T \subseteq S \cup {c} /\ S \subseteq T \cup {c}
    BY DEF Moves, Places, Dev
  <2>3. B(c \in T) - B(c \in S) = IF d = Dev(c) THEN B(r.running) - B(conn[c].running) ELSE 0
    BY DEF Moves, B, Places, Dev
  <2>4. gate.running[d] = Cardinality(S)
    BY DEF Counts
  <2> HIDE DEF S, T
  <2>5. Cardinality(T) = Cardinality(S) + B(c \in T) - B(c \in S) /\ Cardinality(S) \in Int
    BY <2>1, <2>2, OneMoves
  <2>7. B(c \in T) \in Int /\ B(c \in S) \in Int
    BY DEF B
  <2>6. gate'.running[d] = Cardinality(T)
    BY <2>3, <2>4, <2>5, <2>7
  <2> QED
    BY <2>6 DEF T
<1> QED
  BY <1>1, <1>2 DEF Counts

\* Release gives back what the connection holds.
LEMMA Released ==
  ASSUME NEW g \in Gates, NEW c \in Live, Sound(conn[c])
  PROVE  /\ Release(g, c) \in Gates
         /\ Release(g, c).active = g.active - B(conn[c].place)
         /\ \A d \in Devices : Release(g, c).running[d] = g.running[d] - (IF d = Dev(c) THEN B(conn[c].running) ELSE 0)
<1>1. conn[c].running => conn[c].place
  BY DEF Sound
<1>2. conn[c].place \in BOOLEAN /\ conn[c].running \in BOOLEAN /\ Dev(c) \in Devices
  BY DEF Sound, Connection, Dev
<1>6. g.active \in Int /\ \A d \in Devices : g.running[d] \in Int
  BY DEF Gates
<1>3. CASE ~conn[c].place
  <2>1. Release(g, c) = g /\ ~conn[c].running
    BY <1>1, <1>3 DEF Release
  <2> QED
    BY <1>2, <1>3, <1>6, <2>1 DEF B
<1>4. CASE conn[c].place /\ conn[c].running
  <2>1. Release(g, c) = [g EXCEPT !.active = @ - 1, !.running[Dev(c)] = @ - 1]
    BY <1>4 DEF Release
  <2>2. /\ Release(g, c).active = g.active - 1
        /\ Release(g, c).running = [g.running EXCEPT ![Dev(c)] = @ - 1]
        /\ Release(g, c).recent = g.recent /\ Release(g, c).known = g.known
    BY <2>1 DEF Gates
  <2>4. Release(g, c) = [active |-> g.active - 1, running |-> [g.running EXCEPT ![Dev(c)] = @ - 1],
                         recent |-> g.recent, known |-> g.known]
    BY <2>1 DEF Gates
  <2>3. Release(g, c) \in Gates
    <3>1. [g.running EXCEPT ![Dev(c)] = @ - 1] \in [Devices -> Int] /\ g.active - 1 \in Int
      BY <1>2, <1>6 DEF Gates
    <3>2. g.recent \in [Devices -> Int] /\ g.known \in SUBSET Devices
      BY DEF Gates
    <3> QED
      BY <2>4, <3>1, <3>2 DEF Gates
  <2> QED
    BY <1>2, <1>4, <1>6, <2>2, <2>3 DEF B, Gates
<1>5. CASE conn[c].place /\ ~conn[c].running
  <2>1. Release(g, c) = [g EXCEPT !.active = @ - 1, !.running[Dev(c)] = @]
    BY <1>5 DEF Release
  <2>2. Release(g, c).active = g.active - 1 /\ Release(g, c).running = g.running
    BY <1>2, <2>1 DEF Gates
  <2>4. Release(g, c) = [active |-> g.active - 1, running |-> g.running, recent |-> g.recent, known |-> g.known]
    <3>1. [g.running EXCEPT ![Dev(c)] = g.running[Dev(c)]] = g.running
      BY <1>2 DEF Gates
    <3>2. Release(g, c) = [g EXCEPT !.active = g.active - 1, !.running = g.running]
      BY <2>1, <3>1
    <3> QED
      BY <3>2 DEF Gates
  <2>3. Release(g, c) \in Gates
    BY <1>2, <1>6, <2>4 DEF Gates
  <2> QED
    BY <1>2, <1>5, <1>6, <2>2, <2>3 DEF B
<1> QED
  BY <1>2, <1>3, <1>4, <1>5

\* A connection closed holds nothing.
LEMMA ClosedSound ==
  ASSUME NEW r, Sound(r)
  PROVE  /\ Sound(Closed(r)) /\ Closed(r).st = "gone" /\ Closed(r).dev = r.dev
         /\ Closed(r).place = FALSE /\ Closed(r).running = FALSE
BY DEF Sound, Closed, Connection, States

-----------------------------------------------------------------------------
(* The winner, while others come and go: a connection that has not claimed, *)
(* or what it becomes, changes nothing of the pairing.                      *)
LEMMA WinnerAside ==
  ASSUME TypeOK, Winner, NEW c, NEW r, Moves(c, r), r.dev = Dev(c),
         \/ r.st = conn[c].st /\ r.round = conn[c].round
         \/ c # serve.claimed /\ r.st \notin Winning,
         UNCHANGED <<ctx, serve, outcome, send, told, cut>>,
         \A d \in Devices : recv'[d] \in {"accepted", "pulls"} => send.peer = d /\ told # {}
  PROVE  Winner'
<1>1. CASE serve.claimed = 0
  <2>1. \A k \in Live' : conn'[k].st \notin Winning
    BY <1>1 DEF Moves, Winner, Unclaimed
  <2>2. Unclaimed'
    BY <1>1, <2>1 DEF Winner, Unclaimed
  <2> QED
    BY <1>1, <2>2 DEF Winner
<1>2. CASE serve.claimed # 0
  <2> DEFINE w == serve.claimed
  <2>1. w \in Live /\ w \in Live' /\ Claimed(w)
    BY <1>2 DEF Winner, Claimed, Moves
  <2>2. conn'[w].st = conn[w].st /\ conn'[w].round = conn[w].round /\ conn'[w].dev = conn[w].dev
    BY <2>1 DEF Moves, Dev
  <2>3. \A k \in Live' : conn'[k].st \in Winning => k = w
    BY <2>1 DEF Moves, Claimed
  <2>4. InRound(w)' = InRound(w)
    BY <2>2 DEF InRound
  <2>5. Claimed(w)'
    BY <2>1, <2>2, <2>3, <2>4 DEF Claimed, Dev
  <2> QED
    BY <1>2, <2>5 DEF Winner
<1> QED
  BY <1>1, <1>2

\* One that has not claimed is not where the winner is.
LEMMA NotTheWinner ==
  ASSUME TypeOK, Winner, NEW c \in Live, conn[c].st \notin Winning, conn[c].st # "gone"
  PROVE  c # serve.claimed
<1>0. conn \in Seq(Connection)
  BY DEF TypeOK
<1>1. c \in Nat /\ c # 0
  BY <1>0, LiveFinite DEF Live
<1> QED
  BY <1>1 DEF Winner, Claimed

LEMMA Aside ==
  ASSUME IInv, NEW c \in Live, NEW r, Sound(r), conn' = [conn EXCEPT ![c] = r], r.dev = Dev(c),
         \/ r.st = conn[c].st /\ r.round = conn[c].round
         \/ c # serve.claimed /\ r.st \notin Winning,
         UNCHANGED <<ctx, serve, outcome, send, told, cut>>,
         codes' \in CodesType,
         recv' \in Recvs,
         \A d \in Devices : recv'[d] \in {"accepted", "pulls"} => recv'[d] = recv[d],
         port' \in Ports,
         Moves(c, r) => Waiting',
         gate' \in Gates,
         gate'.active = gate.active + B(r.place) - B(conn[c].place),
         \A d \in Devices : gate'.running[d] = gate.running[d] + (IF d = Dev(c) THEN B(r.running) - B(conn[c].running) ELSE 0)
  PROVE  IInv'
<1>1. r \in Connection /\ conn \in Seq(Connection)
  BY DEF Sound, IInv, TypeOK
<1>2. Moves(c, r)
  BY <1>1, Moved
<1>3. TypeOK'
  BY <1>2 DEF Moves, TypeOK, IInv, Gates
<1>4. AllSound'
  BY <1>2, SoundMoved DEF IInv
<1>5. Counts'
  <2>1. conn[c] \in Connection
    BY DEF IInv, AllSound, Sound
  <2>2. /\ r.place \in BOOLEAN /\ r.running \in BOOLEAN /\ conn[c].place \in BOOLEAN /\ conn[c].running \in BOOLEAN
        /\ gate.active \in Int
    BY <1>1, <2>1 DEF Connection, IInv, TypeOK, Gates
  <2> QED
    BY <1>2, <2>2, CountsMoved DEF IInv
<1>6. Winner'
  <2>1. \A d \in Devices : recv'[d] \in {"accepted", "pulls"} => send.peer = d /\ told # {}
    BY DEF IInv, Winner
  <2> QED
    BY <1>2, <2>1, WinnerAside DEF IInv
<1> QED
  BY <1>2, <1>3, <1>4, <1>5, <1>6 DEF IInv

-----------------------------------------------------------------------------
(* A connection on its way, none of which is the winner: it goes on, or is  *)
(* closed.                                                                  *)
Talking == {"frame", "first", "typing", "confirms"}

LEMMA HearsAside ==
  ASSUME TypeOK, NEW c \in Live, NEW what \in {"idle", "pin"}, Hears(c, what)
  PROVE  /\ recv' \in Recvs
         /\ \A d \in Devices : recv'[d] \in {"accepted", "pulls"} => recv'[d] = recv[d]
BY DEF Hears, TypeOK, Recvs

LEMMA ConnSound ==
  ASSUME IInv, NEW c \in Live
  PROVE  /\ Sound(conn[c]) /\ conn[c] \in Connection /\ Dev(c) \in Devices /\ c \in Nat /\ c # 0
         /\ conn[c].place \in BOOLEAN /\ conn[c].running \in BOOLEAN
         /\ gate \in Gates /\ gate.active \in Int /\ \A d \in Devices : gate.running[d] \in Int
<1>1. conn \in Seq(Connection)
  BY DEF IInv, TypeOK
<1>2. c \in Nat /\ c # 0
  BY <1>1, LiveFinite DEF Live
<1>3. Sound(conn[c]) /\ conn[c] \in Connection
  BY DEF IInv, AllSound, Sound
<1>4. gate \in Gates
  BY DEF IInv, TypeOK, Gates
<1> QED
  BY <1>2, <1>3, <1>4 DEF Connection, Dev, Gates

LEMMA ClosesAside ==
  ASSUME IInv, NEW c \in Live, c # serve.claimed, conn[c].st # "queued", Close(c),
         NEW what \in {"idle", "pin"}, Hears(c, what),
         UNCHANGED <<ctx, serve, outcome, send, told, cut, port>>, codes' \in CodesType
  PROVE  IInv'
<1> DEFINE r == Closed(conn[c])
<1>1. Sound(conn[c]) /\ gate \in Gates /\ conn[c].place \in BOOLEAN /\ conn[c].running \in BOOLEAN
      /\ gate.active \in Int /\ \A d \in Devices : gate.running[d] \in Int
  BY ConnSound
<1>2. Sound(r) /\ r.st = "gone" /\ r.dev = Dev(c) /\ r.place = FALSE /\ r.running = FALSE
  BY <1>1, ClosedSound DEF Dev
<1>3. gate' \in Gates /\ gate'.active = gate.active - B(conn[c].place)
      /\ \A d \in Devices : gate'.running[d] = gate.running[d] - (IF d = Dev(c) THEN B(conn[c].running) ELSE 0)
  BY <1>1, Released DEF Close
<1>4. recv' \in Recvs
      /\ \A d \in Devices : recv'[d] \in {"accepted", "pulls"} => recv'[d] = recv[d]
  BY HearsAside DEF IInv
<1>5. conn' = [conn EXCEPT ![c] = r]
  BY DEF Close
<1>6. port' \in Ports
  BY DEF IInv, TypeOK
<1>7. Moves(c, r) => Waiting'
  BY WaitingMoved DEF IInv
<1>8. r.st \notin Winning
  BY <1>2 DEF Winning
<1> HIDE DEF r
<1>9. /\ gate'.active = gate.active + B(r.place) - B(conn[c].place)
      /\ \A d \in Devices : gate'.running[d] = gate.running[d] + (IF d = Dev(c) THEN B(r.running) - B(conn[c].running) ELSE 0)
  <2>1. B(r.place) = 0 /\ B(r.running) = 0 /\ B(conn[c].place) \in Int /\ B(conn[c].running) \in Int
    BY <1>2 DEF B
  <2> QED
    BY <1>1, <1>3, <2>1
<1> QED
  BY <1>2, <1>3, <1>4, <1>5, <1>6, <1>7, <1>8, <1>9, Aside DEF CodesType

\* It holds what it held.
LEMMA GoesAside ==
  ASSUME IInv, NEW c \in Live, NEW r, Sound(r), conn' = [conn EXCEPT ![c] = r], r.dev = Dev(c),
         r.place = conn[c].place, r.running = conn[c].running,
         \/ r.st = conn[c].st /\ r.round = conn[c].round
         \/ conn[c].st \notin Winning \cup {"gone", "queued"} /\ r.st \notin Winning,
         recv' \in Recvs,
         \A d \in Devices : recv'[d] \in {"accepted", "pulls"} => recv'[d] = recv[d],
         UNCHANGED <<ctx, serve, outcome, send, told, cut, port, gate>>, codes' \in CodesType
  PROVE  IInv'
<1>1. gate \in Gates /\ conn[c].place \in BOOLEAN /\ conn[c].running \in BOOLEAN
      /\ gate.active \in Int /\ \A d \in Devices : gate.running[d] \in Int
  BY ConnSound
<1>2. \/ r.st = conn[c].st /\ r.round = conn[c].round
      \/ c # serve.claimed /\ r.st \notin Winning
  BY NotTheWinner DEF IInv
<1>3. port' \in Ports
  BY DEF IInv, TypeOK
<1>4. Moves(c, r) => Waiting'
  BY WaitingMoved DEF IInv
<1>5. /\ gate'.active = gate.active + B(r.place) - B(conn[c].place)
      /\ \A d \in Devices : gate'.running[d] = gate.running[d] + (IF d = Dev(c) THEN B(r.running) - B(conn[c].running) ELSE 0)
  <2>1. B(conn[c].place) \in Int /\ B(conn[c].running) \in Int
    BY DEF B
  <2> QED
    BY <1>1, <2>1
<1>6. gate' \in Gates
  BY <1>1
<1> QED
  BY <1>2, <1>3, <1>4, <1>5, <1>6, Aside DEF CodesType

LEMMA RejectsAside ==
  ASSUME IInv, NEW c \in Live, conn[c].st \in Talking, NEW heard \in {"idle", "pin"}, Over(c, "failed", heard),
         UNCHANGED <<ctx, serve, send, told, cut, port>>, codes' \in CodesType
  PROVE  IInv'
<1>1. c # serve.claimed
  BY NotTheWinner DEF IInv, Talking, Winning
<1>2. outcome' = outcome
  BY <1>1 DEF Over, Outcome
<1>3. Close(c) /\ Hears(c, heard)
  BY DEF Over
<1> QED
  BY <1>1, <1>2, <1>3, ClosesAside DEF Talking

LEMMA OnAside ==
  ASSUME IInv, NEW c \in Live, conn[c].st \in Talking, NEW st \in {"typing", "proved"}, GoesOn(c, st),
         UNCHANGED <<ctx, serve, send, told, cut, port>>, codes' \in CodesType
  PROVE  IInv'
<1> DEFINE r == [conn[c] EXCEPT !.st = st]
<1>1. Sound(conn[c])
  BY ConnSound
<1>2. Sound(r) /\ r.dev = Dev(c) /\ r.place = conn[c].place /\ r.running = conn[c].running /\ r.st = st
  BY <1>1 DEF Sound, Connection, States, Dev, Talking
<1>3. conn' = [conn EXCEPT ![c] = r]
  BY <1>1 DEF GoesOn, To
<1>4. conn[c].st \notin Winning \cup {"gone", "queued"} /\ st \notin Winning
  BY DEF Talking, Winning
<1>5. recv' \in Recvs
  BY DEF GoesOn, IInv, TypeOK
<1> HIDE DEF r
<1> QED
  BY <1>2, <1>3, <1>4, <1>5, GoesAside DEF GoesOn

-----------------------------------------------------------------------------
(* Each step of one that is not the winner.                                 *)
LEMMA GivesUpStep ==
  ASSUME IInv, NEW c \in Live, GivesUp(c)
  PROVE  IInv'
<1> DEFINE r == [conn[c] EXCEPT !.peer = FALSE]
<1>1. Sound(conn[c])
  BY ConnSound
<1>2. Sound(r) /\ r.dev = Dev(c) /\ r.place = conn[c].place /\ r.running = conn[c].running
      /\ r.st = conn[c].st /\ r.round = conn[c].round
  BY <1>1 DEF Sound, Connection, Dev
<1>3. conn' = [conn EXCEPT ![c] = r]
  BY <1>1 DEF GivesUp
<1>4. recv' \in Recvs
      /\ \A d \in Devices : recv'[d] \in {"accepted", "pulls"} => recv'[d] = recv[d]
  BY DEF GivesUp, IInv, TypeOK, Recvs
<1>5. UNCHANGED <<ctx, serve, outcome, send, told, cut, port, gate>> /\ codes' \in CodesType
  BY DEF GivesUp, Happens, serving, IInv, TypeOK, CodesType
<1> HIDE DEF r
<1> QED
  BY <1>2, <1>3, <1>4, <1>5, GoesAside

LEMMA HandshakeStep ==
  ASSUME IInv, NEW c \in Live, Handshake(c)
  PROVE  IInv'
<1>1. Sound(conn[c]) /\ gate \in Gates /\ conn[c] \in Connection /\ Dev(c) \in Devices
      /\ gate.active \in Int /\ \A d \in Devices : gate.running[d] \in Int
  BY ConnSound
<1>2. conn[c].st = "handshake" /\ conn[c].place = TRUE /\ conn[c].running = TRUE
  BY <1>1 DEF Handshake, At, Sound
<1>3. c # serve.claimed
  BY <1>2, NotTheWinner DEF IInv, Winning
<1>4. UNCHANGED <<ctx, serve, outcome, send, told, cut, port, recv>> /\ codes' \in CodesType
  BY DEF Handshake, ghosts, serving, IInv, TypeOK, CodesType
<1>5. /\ recv' \in Recvs
      /\ \A d \in Devices : recv'[d] \in {"accepted", "pulls"} => recv'[d] = recv[d]
      /\ port' \in Ports
  BY <1>4 DEF IInv, TypeOK
<1>6. CASE Dev(c) \in Trusted \cup {send.peer}
  <2> DEFINE r == [conn[c] EXCEPT !.st = "frame", !.auth = TRUE, !.place = FALSE, !.running = FALSE]
             g == [gate EXCEPT !.known = @ \cup {Dev(c)}]
  <2>1. Sound(r) /\ r.dev = Dev(c) /\ r.place = FALSE /\ r.running = FALSE /\ r.st = "frame"
    BY <1>1 DEF Sound, Connection, States, Dev
  <2>2. conn' = [conn EXCEPT ![c] = r]
    BY <1>6 DEF Handshake
  <2>3. g \in Gates /\ g.active = gate.active /\ g.running = gate.running
    BY <1>1 DEF Gates
  <2>4. gate' = Release(g, c)
    BY <1>6 DEF Handshake
  <2>5. Moves(c, r) => Waiting'
    BY <1>2, <1>4, WaitingMoved DEF IInv
  <2>8. r.st \notin Winning
    BY <2>1 DEF Winning
  <2> HIDE DEF r, g
  <2>6. gate' \in Gates /\ gate'.active = gate.active - B(conn[c].place)
        /\ \A d \in Devices : gate'.running[d] = gate.running[d] - (IF d = Dev(c) THEN B(conn[c].running) ELSE 0)
    BY <1>1, <2>3, <2>4, Released
  <2>7. /\ gate'.active = gate.active + B(r.place) - B(conn[c].place)
        /\ \A d \in Devices : gate'.running[d] = gate.running[d] + (IF d = Dev(c) THEN B(r.running) - B(conn[c].running) ELSE 0)
    BY <1>1, <1>2, <2>1, <2>6 DEF B
  <2> QED
    BY <1>3, <1>4, <1>5, <2>1, <2>2, <2>5, <2>6, <2>7, <2>8, Aside DEF CodesType
<1>7. CASE Dev(c) \notin Trusted \cup {send.peer}
  <2> DEFINE r == [conn[c] EXCEPT !.st = "frame", !.running = FALSE]
  <2>1. Sound(r) /\ r.dev = Dev(c) /\ r.place = TRUE /\ r.running = FALSE /\ r.st = "frame"
    BY <1>1, <1>2 DEF Sound, Connection, States, Dev
  <2>2. conn' = [conn EXCEPT ![c] = r]
    BY <1>7 DEF Handshake
  <2>4. gate' = Charge(c)
    BY <1>7 DEF Handshake
  <2>5. Moves(c, r) => Waiting'
    BY <1>2, <1>4, WaitingMoved DEF IInv
  <2>8. r.st \notin Winning
    BY <2>1 DEF Winning
  <2> HIDE DEF r
  <2>6. gate' = [active |-> gate.active, running |-> [gate.running EXCEPT ![Dev(c)] = @ - 1],
                 recent |-> [gate.recent EXCEPT ![Dev(c)] = @ + 1], known |-> gate.known]
    BY <1>1, <2>4 DEF Charge, Gates
  <2>7. gate' \in Gates
    BY <1>1, <2>6 DEF Gates
  <2>9. /\ gate'.active = gate.active + B(r.place) - B(conn[c].place)
        /\ \A d \in Devices : gate'.running[d] = gate.running[d] + (IF d = Dev(c) THEN B(r.running) - B(conn[c].running) ELSE 0)
    BY <1>1, <1>2, <2>1, <2>6 DEF B, Gates
  <2> QED
    BY <1>3, <1>4, <1>5, <2>1, <2>2, <2>5, <2>7, <2>8, <2>9, Aside DEF CodesType
<1> QED
  BY <1>6, <1>7

LEMMA HandshakeFailsStep ==
  ASSUME IInv, NEW c \in Live, HandshakeFails(c)
  PROVE  IInv'
<1> DEFINE r == Closed(conn[c])
<1>1. Sound(conn[c]) /\ gate \in Gates /\ Dev(c) \in Devices
      /\ gate.active \in Int /\ \A d \in Devices : gate.running[d] \in Int
  BY ConnSound
<1>2. conn[c].st = "handshake" /\ conn[c].place = TRUE /\ conn[c].running = TRUE
  BY <1>1 DEF HandshakeFails, At, Sound
<1>3. c # serve.claimed
  BY <1>2, NotTheWinner DEF IInv, Winning
<1>4. UNCHANGED <<ctx, serve, outcome, send, told, cut, port, recv>> /\ codes' \in CodesType
  BY DEF HandshakeFails, ghosts, serving, IInv, TypeOK, CodesType
<1>5. /\ recv' \in Recvs
      /\ \A d \in Devices : recv'[d] \in {"accepted", "pulls"} => recv'[d] = recv[d]
      /\ port' \in Ports
  BY <1>4 DEF IInv, TypeOK
<1>6. Sound(r) /\ r.dev = Dev(c) /\ r.place = FALSE /\ r.running = FALSE /\ r.st = "gone"
  BY <1>1, ClosedSound DEF Dev
<1>7. conn' = [conn EXCEPT ![c] = r]
  BY DEF HandshakeFails
<1>8. Moves(c, r) => Waiting'
  BY <1>2, <1>4, WaitingMoved DEF IInv
<1>9. r.st \notin Winning
  BY <1>6 DEF Winning
<1> HIDE DEF r
<1>10. gate' = [active |-> gate.active - 1, running |-> [gate.running EXCEPT ![Dev(c)] = @ - 1],
                recent |-> [gate.recent EXCEPT ![Dev(c)] = @ + 1], known |-> gate.known]
  BY <1>1 DEF HandshakeFails, Charge, Gates
<1>11. gate' \in Gates
  BY <1>1, <1>10 DEF Gates
<1>12. /\ gate'.active = gate.active + B(r.place) - B(conn[c].place)
       /\ \A d \in Devices : gate'.running[d] = gate.running[d] + (IF d = Dev(c) THEN B(r.running) - B(conn[c].running) ELSE 0)
  BY <1>1, <1>2, <1>6, <1>10 DEF B, Gates
<1> QED
  BY <1>3, <1>4, <1>5, <1>6, <1>7, <1>8, <1>9, <1>11, <1>12, Aside DEF CodesType

\* It waits behind those that do: it was not one of them.
LEMMA DeliversStep ==
  ASSUME IInv, NEW c \in Live, Delivers(c)
  PROVE  IInv'
<1>1. Sound(conn[c]) /\ gate \in Gates /\ gate.active \in Int /\ conn[c].place \in BOOLEAN /\ conn[c].running \in BOOLEAN
      /\ (\A d \in Devices : gate.running[d] \in Int) /\ c \in Nat
  BY ConnSound
<1>2. conn[c].st = "frame"
  BY DEF Delivers, At
<1>3. c # serve.claimed
  BY <1>2, NotTheWinner DEF IInv, Winning
<1>4. UNCHANGED <<ctx, serve, outcome, send, told, cut>> /\ codes' \in CodesType
  BY DEF Delivers, ghosts, IInv, TypeOK, CodesType
<1>5. CASE port.open /\ Len(port.queue) < Room
  <2> DEFINE r == [conn[c] EXCEPT !.st = "queued"]
  <2>1. Sound(r) /\ r.dev = Dev(c) /\ r.place = conn[c].place /\ r.running = conn[c].running /\ r.st = "queued"
    BY <1>1, <1>2 DEF Sound, Connection, States, Dev
  <2>2. conn' = [conn EXCEPT ![c] = r]
    BY <1>1, <1>5 DEF Delivers, To
  <2>3. UNCHANGED <<gate, recv>> /\ port' = [port EXCEPT !.queue = Append(@, c)]
    BY <1>5 DEF Delivers
  <2>4. port.queue \in Seq(Nat)
    BY DEF IInv, TypeOK, Ports
  <2> DEFINE q == port.queue  p == Append(q, c)
  <2>5. p \in Seq(Nat) /\ Len(p) = Len(q) + 1 /\ Len(q) \in Nat
        /\ p[Len(q) + 1] = c /\ \A n \in 1 .. Len(q) : p[n] = q[n]
    BY <1>1, <2>4, AppendProperties, LenProperties
  <2>6. port' \in Ports /\ port'.queue = p
    BY <2>3, <2>5 DEF IInv, TypeOK, Ports
  <2> HIDE DEF r, p
  <2>7. ASSUME Moves(c, r) PROVE Waiting'
    <3>1. \A n \in 1 .. Len(q) : q[n] \in Live' /\ conn'[q[n]].st = "queued" /\ q[n] # c
      BY <1>2, <2>1, <2>7 DEF IInv, Waiting, Moves, At
    <3>2. c \in Live' /\ conn'[c].st = "queued"
      BY <2>1, <2>7 DEF Moves, At
    <3>3. \A n \in 1 .. Len(p) : n \in 1 .. Len(q) \/ n = Len(q) + 1
      BY <2>5
    <3>4. \A n \in 1 .. Len(p) : p[n] \in Live' /\ conn'[p[n]].st = "queued"
      BY <2>5, <3>1, <3>2, <3>3
    <3>5. \A m, n \in 1 .. Len(p) : p[m] = p[n] => m = n
      BY <2>5, <3>1, <3>3 DEF IInv, Waiting
    <3> QED
      BY <2>6, <3>4, <3>5 DEF Waiting, At
  <2>8. /\ recv' \in Recvs
        /\ \A d \in Devices : recv'[d] \in {"accepted", "pulls"} => recv'[d] = recv[d]
        /\ gate' \in Gates
    BY <1>1, <2>3 DEF IInv, TypeOK
  <2>9. /\ gate'.active = gate.active + B(r.place) - B(conn[c].place)
        /\ \A d \in Devices : gate'.running[d] = gate.running[d] + (IF d = Dev(c) THEN B(r.running) - B(conn[c].running) ELSE 0)
    <3>1. B(conn[c].place) \in Int /\ B(conn[c].running) \in Int
      BY DEF B
    <3> QED
      BY <1>1, <2>1, <2>3, <3>1
  <2>10. r.st \notin Winning
    BY <2>1 DEF Winning
  <2> HIDE DEF q
  <2> QED
    BY <1>3, <1>4, <2>1, <2>2, <2>6, <2>7, <2>8, <2>9, <2>10, Aside DEF CodesType
<1>6. CASE ~(port.open /\ Len(port.queue) < Room)
  <2>1. Close(c) /\ Hears(c, "idle") /\ UNCHANGED port
    BY <1>6 DEF Delivers
  <2> QED
    BY <1>2, <1>3, <1>4, <2>1, ClosesAside
<1> QED
  BY <1>5, <1>6

\* The first of those that wait waits no more.
LEMMA AcceptsStep ==
  ASSUME IInv, Accepts
  PROVE  IInv'
<1> DEFINE q == port.queue  p == Tail(q)  c == Head(q)
<1>1. q \in Seq(Nat) /\ q # <<>>
  BY DEF IInv, TypeOK, Accepts, Ports
<1>2. p \in Seq(Nat) /\ Len(p) = Len(q) - 1 /\ Len(q) \in Nat \ {0} /\ c = q[1]
      /\ \A n \in 1 .. Len(p) : n + 1 \in 1 .. Len(q) /\ p[n] = q[n + 1]
  BY <1>1, HeadTailProperties, LenProperties, EmptySeq
<1>3. c \in Live /\ conn[c].st = "queued" /\ serve.round \in Nat
  <2>1. 1 \in 1 .. Len(port.queue)
    BY <1>2
  <2>2. port.queue[1] \in Live /\ conn[port.queue[1]].st = "queued"
    BY <2>1 DEF IInv, Waiting, At
  <2>3. c = port.queue[1]
    BY <1>2
  <2>4. serve.round \in Nat
    BY DEF IInv, TypeOK, Serves
  <2> HIDE DEF c
  <2> QED
    BY <2>2, <2>3, <2>4
<1>4. port' = [port EXCEPT !.queue = p] /\ port'.queue = p /\ port' \in Ports
  BY <1>2 DEF Accepts, IInv, TypeOK, Ports
<1> DEFINE r == [conn[c] EXCEPT !.st = "first", !.round = serve.round]
<1>12. conn' = [conn EXCEPT ![c].st = "first", ![c].round = serve.round]
  BY DEF Accepts
<1>13. UNCHANGED <<ctx, codes, outcome, send, recv, gate, serve, told, cut>>
  BY DEF Accepts, ghosts
<1>5. conn' = [conn EXCEPT ![c] = r]
  BY <1>3, <1>12
<1> HIDE DEF c
<1>6. Sound(conn[c]) /\ gate \in Gates /\ gate.active \in Int /\ conn[c].place \in BOOLEAN /\ conn[c].running \in BOOLEAN
      /\ \A d \in Devices : gate.running[d] \in Int
  BY <1>3, ConnSound
<1>7. Sound(r) /\ r.dev = Dev(c) /\ r.place = conn[c].place /\ r.running = conn[c].running /\ r.st = "first"
  BY <1>3, <1>6 DEF Sound, Connection, States, Dev
<1>8. c # serve.claimed /\ r.st \notin Winning
  BY <1>3, <1>7, NotTheWinner DEF IInv, Winning
<1> HIDE DEF r, p
<1>9. ASSUME Moves(c, r) PROVE Waiting'
  <2>0. /\ \A n \in 1 .. Len(q) : q[n] \in Live /\ conn[q[n]].st = "queued"
        /\ \A m, n \in 1 .. Len(q) : q[m] = q[n] => m = n
        /\ 1 \in 1 .. Len(q)
    BY <1>2 DEF IInv, Waiting, At
  <2> HIDE DEF q
  <2>1. \A n \in 1 .. Len(q) : n # 1 => q[n] \in Live' /\ conn'[q[n]].st = "queued"
    BY <1>2, <1>9, <2>0 DEF Moves
  <2>2. ASSUME NEW n \in 1 .. Len(p) PROVE p[n] \in Live' /\ conn'[p[n]].st = "queued"
    <3>1. n + 1 \in 1 .. Len(q) /\ p[n] = q[n + 1] /\ n + 1 # 1
      BY <1>2
    <3> QED
      BY <2>1, <3>1
  <2>3. ASSUME NEW m \in 1 .. Len(p), NEW n \in 1 .. Len(p), p[m] = p[n] PROVE m = n
    <3>1. n + 1 \in 1 .. Len(q) /\ p[n] = q[n + 1] /\ m + 1 \in 1 .. Len(q) /\ p[m] = q[m + 1]
      BY <1>2
    <3>2. m + 1 = n + 1
      BY <2>0, <2>3, <3>1
    <3> QED
      BY <3>2
  <2> QED
    BY <1>4, <2>2, <2>3 DEF Waiting, At
<1>10. /\ recv' \in Recvs
       /\ \A d \in Devices : recv'[d] \in {"accepted", "pulls"} => recv'[d] = recv[d]
       /\ gate' \in Gates /\ codes' \in CodesType
  BY <1>6, <1>13 DEF IInv, TypeOK, CodesType
<1>11. /\ gate'.active = gate.active + B(r.place) - B(conn[c].place)
       /\ \A d \in Devices : gate'.running[d] = gate.running[d] + (IF d = Dev(c) THEN B(r.running) - B(conn[c].running) ELSE 0)
  <2>1. B(conn[c].place) \in Int /\ B(conn[c].running) \in Int
    BY DEF B
  <2> QED
    BY <1>6, <1>7, <1>13, <2>1
<1> QED
  BY <1>3, <1>4, <1>5, <1>7, <1>8, <1>9, <1>10, <1>11, <1>13, Aside DEF CodesType

LEMMA PresentsStep ==
  ASSUME IInv, NEW c \in Live, Presents(c)
  PROVE  IInv'
<1>1. conn[c].st \in Talking
  BY DEF Presents, At, Talking
<1>2. UNCHANGED <<ctx, serve, send, told, cut, port>>
  BY DEF Presents, ghosts
<1>3. codes' \in CodesType
  BY DEF Presents, CodesType, IInv, TypeOK
<1>4. GoesOn(c, "proved") \/ \E heard \in {"idle", "pin"} : Over(c, "failed", heard)
  BY DEF Presents, Rejects
<1> QED
  BY <1>1, <1>2, <1>3, <1>4, OnAside, RejectsAside

LEMMA AsksPINStep ==
  ASSUME IInv, NEW c \in Live, AsksPIN(c)
  PROVE  IInv'
<1>1. conn[c].st \in Talking
  BY DEF AsksPIN, At, Talking
<1>2. UNCHANGED <<ctx, serve, send, told, cut, port>> /\ codes' \in CodesType
  BY DEF AsksPIN, ghosts, CodesType, IInv, TypeOK
<1>3. GoesOn(c, "typing") \/ \E heard \in {"idle", "pin"} : Over(c, "failed", heard)
  BY DEF AsksPIN, Rejects
<1> QED
  BY <1>1, <1>2, <1>3, OnAside, RejectsAside

LEMMA ConfirmsStep ==
  ASSUME IInv, NEW c \in Live, Confirms(c)
  PROVE  IInv'
<1>1. conn[c].st \in Talking
  BY DEF Confirms, At, Talking
<1>2. UNCHANGED <<ctx, serve, send, told, cut, port>>
  BY DEF Confirms, ghosts
<1>3. codes' \in CodesType
  BY DEF Confirms, CodesType, IInv, TypeOK
<1>4. GoesOn(c, "proved") \/ \E heard \in {"idle", "pin"} : Over(c, "failed", heard)
  BY DEF Confirms, Rejects
<1> QED
  BY <1>1, <1>2, <1>3, <1>4, OnAside, RejectsAside

LEMMA TimesOutStep ==
  ASSUME IInv, NEW c \in Live, TimesOut(c)
  PROVE  IInv'
<1>1. conn[c].st \in Talking /\ Over(c, "failed", "idle")
  BY DEF TimesOut, Talking
<1>2. UNCHANGED <<ctx, serve, send, told, cut, port>> /\ codes' \in CodesType
  BY DEF TimesOut, ghosts, CodesType, IInv, TypeOK
<1> QED
  BY <1>1, <1>2, RejectsAside

LEMMA TriesStep ==
  ASSUME IInv, NEW c \in Live, Tries(c)
  PROVE  IInv'
<1> DEFINE r == [conn[c] EXCEPT !.st = "confirms", !.counted = PINThere(c)]
<1>1. Sound(conn[c]) /\ conn[c] \in Connection
  BY ConnSound
<1>2. PINThere(c) \in BOOLEAN /\ conn[c].st \in Talking
  BY DEF PINThere, IInv, TypeOK, Tries, At, Talking
<1>3. Sound(r) /\ r.dev = Dev(c) /\ r.place = conn[c].place /\ r.running = conn[c].running /\ r.st = "confirms"
  BY <1>1, <1>2 DEF Sound, Connection, States, Dev, Talking
<1>4. conn' = [conn EXCEPT ![c] = r]
  BY <1>1 DEF Tries
<1>5. UNCHANGED <<ctx, serve, outcome, send, told, cut, port, gate, recv>> /\ codes' \in CodesType
  BY DEF Tries, ghosts, serving, IInv, TypeOK, CodesType
<1>6. recv' \in Recvs
      /\ \A d \in Devices : recv'[d] \in {"accepted", "pulls"} => recv'[d] = recv[d]
  BY <1>5 DEF IInv, TypeOK
<1>7. conn[c].st \notin Winning \cup {"gone", "queued"} /\ r.st \notin Winning
  BY <1>2, <1>3 DEF Talking, Winning
<1> HIDE DEF r
<1> QED
  BY <1>3, <1>4, <1>5, <1>6, <1>7, GoesAside

-----------------------------------------------------------------------------
(* The winner's own steps: what they leave of the rest, then of Winner.     *)
LEMMA Rest ==
  ASSUME IInv, NEW c \in Live, NEW r, Sound(r), conn' = [conn EXCEPT ![c] = r], r.dev = Dev(c),
         conn[c].st # "queued",
         UNCHANGED <<ctx, port>>, codes' \in CodesType, cut' \in BOOLEAN,
         serve' \in Serves,
         outcome' \in {"none", "paired", "failed"},
         send' \in Sends,
         recv' \in Recvs,
         gate' \in Gates,
         gate'.active = gate.active + B(r.place) - B(conn[c].place),
         \A d \in Devices : gate'.running[d] = gate.running[d] + (IF d = Dev(c) THEN B(r.running) - B(conn[c].running) ELSE 0)
  PROVE  Moves(c, r) /\ TypeOK' /\ AllSound' /\ Waiting' /\ Counts'
<1>1. r \in Connection /\ conn \in Seq(Connection)
  BY DEF Sound, IInv, TypeOK
<1>2. Moves(c, r)
  BY <1>1, Moved
<1>3. TypeOK'
  BY <1>2 DEF Moves, TypeOK, IInv, Gates, CodesType
<1>4. AllSound'
  BY <1>2, SoundMoved DEF IInv
<1>5. Counts'
  <2>1. /\ r.place \in BOOLEAN /\ r.running \in BOOLEAN /\ conn[c].place \in BOOLEAN /\ conn[c].running \in BOOLEAN
        /\ gate.active \in Int
    BY <1>1, ConnSound DEF Connection
  <2> QED
    BY <1>2, <2>1, CountsMoved DEF IInv
<1>6. Waiting'
  BY <1>2, WaitingMoved DEF IInv
<1> QED
  BY <1>2, <1>3, <1>4, <1>5, <1>6

LEMMA RestClosed ==
  ASSUME IInv, NEW c \in Live, Close(c), conn[c].st # "queued",
         NEW what \in {"idle", "pin", "accepted"}, Hears(c, what),
         UNCHANGED <<ctx, port, serve>>, codes' \in CodesType, cut' \in BOOLEAN,
         outcome' \in {"none", "paired", "failed"},
         send' \in Sends
  PROVE  Moves(c, Closed(conn[c])) /\ TypeOK' /\ AllSound' /\ Waiting' /\ Counts'
<1> DEFINE r == Closed(conn[c])
<1>1. Sound(conn[c]) /\ gate \in Gates /\ conn[c].place \in BOOLEAN /\ conn[c].running \in BOOLEAN
      /\ gate.active \in Int /\ \A d \in Devices : gate.running[d] \in Int
  BY ConnSound
<1>2. Sound(r) /\ r.dev = Dev(c) /\ r.place = FALSE /\ r.running = FALSE
  BY <1>1, ClosedSound DEF Dev
<1>3. gate' \in Gates /\ gate'.active = gate.active - B(conn[c].place)
      /\ \A d \in Devices : gate'.running[d] = gate.running[d] - (IF d = Dev(c) THEN B(conn[c].running) ELSE 0)
  BY <1>1, Released DEF Close
<1>4. recv' \in Recvs
  BY DEF Hears, IInv, TypeOK, Recvs
<1>5. conn' = [conn EXCEPT ![c] = r]
  BY DEF Close
<1>6. serve' \in Serves
  BY DEF IInv, TypeOK
<1> HIDE DEF r
<1>7. /\ gate'.active = gate.active + B(r.place) - B(conn[c].place)
      /\ \A d \in Devices : gate'.running[d] = gate.running[d] + (IF d = Dev(c) THEN B(r.running) - B(conn[c].running) ELSE 0)
  <2>1. B(r.place) = 0 /\ B(r.running) = 0 /\ B(conn[c].place) \in Int /\ B(conn[c].running) \in Int
    BY <1>2 DEF B
  <2> QED
    BY <1>1, <1>3, <2>1
<1>8. Moves(c, r) /\ TypeOK' /\ AllSound' /\ Waiting' /\ Counts'
  BY <1>2, <1>3, <1>4, <1>5, <1>6, <1>7, Rest
<1> QED
  BY <1>8 DEF r

LEMMA RestGoesOn ==
  ASSUME IInv, NEW c \in Live, conn[c].st \in {"before", "accepted"}, NEW st \in Winning, GoesOn(c, st),
         UNCHANGED <<ctx, port, serve, codes, cut>>,
         send' \in Sends
  PROVE  Moves(c, [conn[c] EXCEPT !.st = st]) /\ TypeOK' /\ AllSound' /\ Waiting' /\ Counts'
<1> DEFINE r == [conn[c] EXCEPT !.st = st]
<1>1. Sound(conn[c]) /\ gate \in Gates /\ conn[c].place \in BOOLEAN /\ conn[c].running \in BOOLEAN
      /\ gate.active \in Int /\ \A d \in Devices : gate.running[d] \in Int
  BY ConnSound
<1>2. Sound(r) /\ r.dev = Dev(c) /\ r.place = conn[c].place /\ r.running = conn[c].running
  BY <1>1 DEF Sound, Connection, States, Dev, Winning
<1>3. conn' = [conn EXCEPT ![c] = r]
  BY <1>1 DEF GoesOn, To
<1>4. UNCHANGED <<gate, outcome, recv>>
  BY DEF GoesOn
<1>5. /\ serve' \in Serves
      /\ outcome' \in {"none", "paired", "failed"} /\ codes' \in CodesType /\ cut' \in BOOLEAN
      /\ recv' \in Recvs
  BY <1>4 DEF IInv, TypeOK, CodesType
<1> HIDE DEF r
<1>6. /\ gate'.active = gate.active + B(r.place) - B(conn[c].place)
      /\ \A d \in Devices : gate'.running[d] = gate.running[d] + (IF d = Dev(c) THEN B(r.running) - B(conn[c].running) ELSE 0)
  <2>1. B(conn[c].place) \in Int /\ B(conn[c].running) \in Int
    BY DEF B
  <2> QED
    BY <1>1, <1>2, <1>4, <2>1
<1>7. gate' \in Gates
  BY <1>1, <1>4
<1>8. Moves(c, r) /\ TypeOK' /\ AllSound' /\ Waiting' /\ Counts'
  BY <1>2, <1>3, <1>5, <1>6, <1>7, Rest
<1> QED
  BY <1>8 DEF r

LEMMA TheWinner ==
  ASSUME IInv, NEW c \in Live, conn[c].st \in Winning
  PROVE  /\ serve.claimed = c /\ c # 0 /\ Claimed(c) /\ outcome = "none" /\ InRound(c)
         /\ serve.at # "over" /\ serve.at # "between"
         /\ \A d \in Devices : recv[d] \in {"accepted", "pulls"} => send.peer = d /\ told # {}
<1>1. c # 0
  BY ConnSound
<1>2. serve.claimed # 0
  BY DEF IInv, Winner, Unclaimed
<1>3. Claimed(serve.claimed)
  BY <1>2 DEF IInv, Winner
<1>4. serve.claimed = c
  BY <1>3 DEF Claimed
<1>5. conn[c].st # "gone"
  BY DEF Winning
<1>6. outcome = "none" /\ InRound(c)
  BY <1>3, <1>4, <1>5 DEF Claimed
<1> QED
  BY <1>1, <1>2, <1>3, <1>4, <1>6 DEF IInv, Winner, InRound

\* The claimed one is what it should be: so is Winner.
LEMMA WinnerIs ==
  ASSUME serve'.claimed # 0, Claimed(serve.claimed)', serve'.at # "over",
         \A d \in Devices : recv'[d] \in {"accepted", "pulls"} => send'.peer = d /\ told' # {},
         cut' => ctx' = "ended"
  PROVE  Winner'
BY DEF Winner

LEMMA ClaimsStep ==
  ASSUME IInv, NEW c \in Live, Claims(c)
  PROVE  IInv'
<1> DEFINE g0 == IF conn[c].auth THEN gate ELSE [gate EXCEPT !.known = @ \cup {Dev(c)}]
           r == [conn[c] EXCEPT !.auth = TRUE, !.place = FALSE, !.running = FALSE]
           s == [r EXCEPT !.st = "before"]
<1>1. Sound(conn[c]) /\ gate \in Gates /\ Dev(c) \in Devices /\ conn[c].place \in BOOLEAN /\ conn[c].running \in BOOLEAN
      /\ gate.active \in Int /\ (\A d \in Devices : gate.running[d] \in Int) /\ c \in Nat /\ c # 0
  BY ConnSound
<1>2. conn[c].st = "proved" /\ gate' = Release(g0, c)
  BY DEF Claims, At
<1>3. g0 \in Gates /\ g0.active = gate.active /\ g0.running = gate.running
  BY <1>1 DEF Gates
<1>4. Sound(r) /\ r.dev = Dev(c) /\ r.place = FALSE /\ r.running = FALSE
  BY <1>1, <1>2 DEF Sound, Connection, Dev
<1>5. Sound(s) /\ s.dev = Dev(c) /\ s.place = FALSE /\ s.running = FALSE /\ s.st = "before" /\ s.round = conn[c].round
  BY <1>1, <1>2 DEF Sound, Connection, States, Dev
<1>6. Sound(Closed(r)) /\ Closed(r).st = "gone" /\ Closed(r).dev = Dev(c)
      /\ Closed(r).place = FALSE /\ Closed(r).running = FALSE
  BY <1>4, ClosedSound
<1>7. UNCHANGED <<ctx, codes, port, outcome, send, told, cut>>
  BY DEF Claims, ghosts
<1>8. \/ MayClaim(c) /\ serve' = [serve EXCEPT !.claimed = c] /\ conn' = [conn EXCEPT ![c] = s] /\ UNCHANGED recv
      \/ conn' = [conn EXCEPT ![c] = Closed(r)] /\ Hears(c, "idle") /\ UNCHANGED serve
  BY DEF Claims
<1> DEFINE k == Closed(r)
<1> HIDE DEF g0, r, s, k
<1>9. gate' \in Gates /\ gate'.active = gate.active - B(conn[c].place)
      /\ \A d \in Devices : gate'.running[d] = gate.running[d] - (IF d = Dev(c) THEN B(conn[c].running) ELSE 0)
  BY <1>1, <1>2, <1>3, Released
<1>10. \A x \in {s, k} :
         /\ gate'.active = gate.active + B(x.place) - B(conn[c].place)
         /\ \A d \in Devices : gate'.running[d] = gate.running[d] + (IF d = Dev(c) THEN B(x.running) - B(conn[c].running) ELSE 0)
  <2>1. B(conn[c].place) \in Int /\ B(conn[c].running) \in Int /\ B(FALSE) = 0
    BY DEF B
  <2>2. \A x \in {s, k} : B(x.place) = 0 /\ B(x.running) = 0
    BY <1>5, <1>6, <2>1 DEF k
  <2> QED
    BY <1>1, <1>9, <2>1, <2>2
<1>11. codes' \in CodesType /\ cut' \in BOOLEAN /\ outcome' \in {"none", "paired", "failed"}
       /\ send' \in Sends
       /\ port' \in Ports
  BY <1>7 DEF IInv, TypeOK, CodesType
<1>12. CASE MayClaim(c) /\ serve' = [serve EXCEPT !.claimed = c] /\ conn' = [conn EXCEPT ![c] = s] /\ UNCHANGED recv
  <2>1. recv' \in Recvs
    BY <1>12 DEF IInv, TypeOK
  <2>2. serve' \in Serves
    BY <1>1, <1>12 DEF IInv, TypeOK, Serves
  <2>3. Moves(c, s) /\ TypeOK' /\ AllSound' /\ Waiting' /\ Counts'
    BY <1>2, <1>5, <1>7, <1>9, <1>10, <1>11, <1>12, <2>1, <2>2, Rest
  <2>4. serve'.claimed = c /\ serve'.at = serve.at /\ serve'.round = serve.round /\ serve'.cause = serve.cause
    BY <1>12 DEF IInv, TypeOK
  <2>5. Unclaimed /\ RoundOn(c)
    BY <1>12 DEF MayClaim, IInv, Winner
  <2>6. serve.at = "accepts" /\ InRound(c)
    BY <2>5 DEF Unclaimed, RoundOn, InRound
  <2>7. conn'[c].st = "before" /\ conn'[c].round = conn[c].round /\ conn'[c].dev = Dev(c) /\ c \in Live'
    BY <1>5, <2>3 DEF Moves
  <2>8. \A i \in Live' : conn'[i].st \in Winning => i = c
    BY <2>3, <2>5 DEF Moves, Unclaimed
  <2>9. conn'[c].round = serve'.round /\ serve'.cause = "none" /\ serve'.at = "accepts"
    BY <2>4, <2>6, <2>7 DEF InRound
  <2>10. told' = {} /\ ~send'.once /\ send'.peer = 0 /\ outcome' = "none"
    BY <1>7, <2>5 DEF Unclaimed
  <2>11. Claimed(serve.claimed)'
    BY <2>4, <2>7, <2>8, <2>9, <2>10 DEF Claimed, InRound, Winning
  <2>12. Winner'
    BY <1>1, <1>7, <1>12, <2>4, <2>5, <2>9, <2>11, WinnerIs DEF IInv, Winner, Unclaimed
  <2> QED
    BY <2>3, <2>12 DEF IInv
<1>13. CASE conn' = [conn EXCEPT ![c] = k] /\ Hears(c, "idle") /\ UNCHANGED serve
  <2>1. c # serve.claimed
    BY <1>2, NotTheWinner DEF IInv, Winning
  <2>2. recv' \in Recvs
        /\ \A d \in Devices : recv'[d] \in {"accepted", "pulls"} => recv'[d] = recv[d]
    BY <1>13, HearsAside DEF IInv
  <2>3. Moves(c, k) => Waiting'
    BY <1>2, <1>7, WaitingMoved DEF IInv
  <2>4. Sound(k) /\ k.dev = Dev(c) /\ k.st \notin Winning
    BY <1>6 DEF k, Winning
  <2> QED
    BY <1>7, <1>9, <1>10, <1>11, <1>13, <2>1, <2>2, <2>3, <2>4, Aside DEF CodesType
<1> QED
  BY <1>8, <1>12, <1>13 DEF k

\* The outcome is given by the one that claimed, when it is closed.
LEMMA WinnerOver ==
  ASSUME IInv, NEW c \in Live, conn[c].st \in Winning, Moves(c, Closed(conn[c])), UNCHANGED <<ctx, serve>>,
         NEW what \in {"failed", "paired"}, outcome' = what,
         what = "paired" => send'.peer = Dev(c), told' = IF what = "paired" THEN {c} ELSE {},
         \A d \in Devices : recv'[d] \in {"accepted", "pulls"} => send'.peer = d /\ told' # {},
         cut' => ctx' = "ended"
  PROVE  Winner'
<1>1. serve.claimed = c /\ c # 0 /\ Claimed(c) /\ serve.at # "over" /\ serve.at # "between"
  BY TheWinner
<1>2. conn'[c].st = "gone" /\ conn'[c].dev = Dev(c) /\ c \in Live'
  <2>1. Sound(conn[c])
    BY ConnSound
  <2>2. Closed(conn[c]).st = "gone" /\ Closed(conn[c]).dev = conn[c].dev
    BY <2>1, ClosedSound
  <2> QED
    BY <2>2 DEF Moves, Dev
<1>3. \A i \in Live' : conn'[i].st \in Winning => i = c
  BY <1>1 DEF Moves, Claimed
<1>4. Claimed(serve.claimed)'
  BY <1>1, <1>2, <1>3 DEF Claimed, Winning, Dev
<1> QED
  BY <1>1, <1>4, WinnerIs

LEMMA RegistersStep ==
  ASSUME IInv, NEW c \in Live, Registers(c)
  PROVE  IInv'
<1>1. conn[c].st = "before" /\ conn[c].st \in Winning
  BY DEF Registers, At, Winning
<1>2. /\ serve.claimed = c /\ c # 0 /\ Claimed(c) /\ outcome = "none" /\ InRound(c)
      /\ serve.at # "over" /\ serve.at # "between"
      /\ \A d \in Devices : recv[d] \in {"accepted", "pulls"} => send.peer = d /\ told # {}
  BY <1>1, TheWinner
<1>3. ~send.once /\ send.peer = 0 /\ told = {}
  BY <1>1, <1>2 DEF Claimed
<1>4. UNCHANGED <<ctx, serve, codes, port, told, cut>> /\ Dev(c) \in Devices
  BY ConnSound DEF Registers, ghosts
<1>5. PICK answer \in Answers :
        /\ send' = [send EXCEPT !.once = TRUE, !.answer = answer, !.peer = IF Allowed(answer) THEN Dev(c) ELSE 0]
        /\ IF Allowed(answer) THEN GoesOn(c, "accepted") ELSE Rejects(c)
  BY <1>3 DEF Registers
<1>6. send' \in Sends
      /\ send'.peer = IF Allowed(answer) THEN Dev(c) ELSE 0
  BY <1>4, <1>5 DEF IInv, TypeOK, Sends
<1>7. codes' \in CodesType /\ cut' \in BOOLEAN /\ (cut' => ctx' = "ended")
  BY <1>4 DEF IInv, TypeOK, CodesType, Winner
<1>8. CASE Allowed(answer)
  <2> DEFINE r == [conn[c] EXCEPT !.st = "accepted"]
  <2>1. GoesOn(c, "accepted")
    BY <1>5, <1>8
  <2>2. Moves(c, r) /\ TypeOK' /\ AllSound' /\ Waiting' /\ Counts'
    BY <1>1, <1>4, <1>6, <2>1, RestGoesOn DEF Winning
  <2>3. UNCHANGED <<outcome, recv>>
    BY <2>1 DEF GoesOn
  <2>4. r.st = "accepted" /\ r.dev = Dev(c) /\ r.round = conn[c].round
    BY ConnSound DEF Connection, Dev
  <2> HIDE DEF r
  <2>5. conn'[c].st = "accepted" /\ conn'[c].dev = Dev(c) /\ c \in Live' /\ conn'[c].round = conn[c].round
    BY <2>2, <2>4 DEF Moves
  <2>6. \A i \in Live' : conn'[i].st \in Winning => i = c
    BY <1>2, <2>2 DEF Moves, Claimed
  <2>7. InRound(c)'
    BY <1>2, <1>4, <2>5 DEF InRound
  <2>8. send'.peer = Dev(c)
    BY <1>6, <1>8
  <2>9. Claimed(serve.claimed)'
    BY <1>2, <1>3, <1>4, <2>3, <2>5, <2>6, <2>7, <2>8 DEF Claimed, Winning, Dev
  <2>10. \A d \in Devices : recv'[d] \in {"accepted", "pulls"} => send'.peer = d /\ told' # {}
    BY <1>2, <1>3, <2>3
  <2>11. Winner'
    BY <1>2, <1>4, <1>7, <2>9, <2>10, WinnerIs
  <2> QED
    BY <2>2, <2>11 DEF IInv
<1>9. CASE ~Allowed(answer)
  <2>1. Over(c, "failed", "idle")
    BY <1>1, <1>5, <1>9 DEF Rejects, At
  <2>2. Close(c) /\ Hears(c, "idle") /\ outcome' = "failed"
    BY <1>2, <2>1 DEF Over, Outcome
  <2>3. Moves(c, Closed(conn[c])) /\ TypeOK' /\ AllSound' /\ Waiting' /\ Counts'
    BY <1>1, <1>4, <1>6, <1>7, <2>2, RestClosed
  <2>4. \A d \in Devices : recv'[d] \notin {"accepted", "pulls"}
    BY <1>2, <1>3, <2>2, HearsAside DEF IInv
  <2>5. Winner'
    BY <1>1, <1>3, <1>4, <1>7, <2>2, <2>3, <2>4, WinnerOver
  <2> QED
    BY <2>3, <2>5 DEF IInv
<1> QED
  BY <1>8, <1>9

LEMMA SendsAcceptStep ==
  ASSUME IInv, NEW c \in Live, SendsAccept(c)
  PROVE  IInv'
<1>1. conn[c].st = "accepted" /\ conn[c].st \in Winning
  BY DEF SendsAccept, At, Winning
<1>2. /\ serve.claimed = c /\ c # 0 /\ Claimed(c) /\ outcome = "none" /\ InRound(c)
      /\ serve.at # "over" /\ serve.at # "between"
      /\ \A d \in Devices : recv[d] \in {"accepted", "pulls"} => send.peer = d /\ told # {}
  BY <1>1, TheWinner
<1>3. send.peer = Dev(c) /\ told = {}
  BY <1>1, <1>2 DEF Claimed
<1>4. UNCHANGED <<ctx, serve, codes, port, send, cut>>
  BY DEF SendsAccept
<1>6. send' \in Sends
  BY <1>4 DEF IInv, TypeOK
<1>7. codes' \in CodesType /\ cut' \in BOOLEAN /\ (cut' => ctx' = "ended")
  BY <1>4 DEF IInv, TypeOK, CodesType, Winner
<1>8. CASE GoesOn(c, "talks") /\ told' = told \cup {c}
  <2> DEFINE r == [conn[c] EXCEPT !.st = "talks"]
  <2>2. Moves(c, r) /\ TypeOK' /\ AllSound' /\ Waiting' /\ Counts'
    BY <1>1, <1>4, <1>6, <1>8, RestGoesOn DEF Winning
  <2>3. UNCHANGED <<outcome, recv>>
    BY <1>8 DEF GoesOn
  <2>4. r.st = "talks" /\ r.dev = Dev(c) /\ r.round = conn[c].round
    BY ConnSound DEF Connection, Dev
  <2> HIDE DEF r
  <2>5. conn'[c].st = "talks" /\ conn'[c].dev = Dev(c) /\ c \in Live' /\ conn'[c].round = conn[c].round
    BY <2>2, <2>4 DEF Moves
  <2>6. \A i \in Live' : conn'[i].st \in Winning => i = c
    BY <1>2, <2>2 DEF Moves, Claimed
  <2>7. InRound(c)'
    BY <1>2, <1>4, <2>5 DEF InRound
  <2>8. told' = {c}
    BY <1>3, <1>8
  <2>9. Claimed(serve.claimed)'
    BY <1>2, <1>3, <1>4, <2>3, <2>5, <2>6, <2>7, <2>8 DEF Claimed, Winning, Dev
  <2>10. \A d \in Devices : recv'[d] \in {"accepted", "pulls"} => send'.peer = d /\ told' # {}
    BY <1>2, <1>3, <2>3
  <2>11. Winner'
    BY <1>2, <1>4, <1>7, <2>9, <2>10, WinnerIs
  <2> QED
    BY <2>2, <2>11 DEF IInv
<1>9. CASE Over(c, "failed", "idle") /\ UNCHANGED told
  <2>2. Close(c) /\ Hears(c, "idle") /\ outcome' = "failed"
    BY <1>2, <1>9 DEF Over, Outcome
  <2>3. Moves(c, Closed(conn[c])) /\ TypeOK' /\ AllSound' /\ Waiting' /\ Counts'
    BY <1>1, <1>4, <1>6, <1>7, <2>2, RestClosed
  <2>4. \A d \in Devices : recv'[d] \notin {"accepted", "pulls"}
    BY <1>2, <1>3, <2>2, HearsAside DEF IInv
  <2>5. Winner'
    BY <1>1, <1>3, <1>4, <1>7, <1>9, <2>2, <2>3, <2>4, WinnerOver
  <2> QED
    BY <2>3, <2>5 DEF IInv
<1> QED
  BY <1>8, <1>9 DEF SendsAccept

LEMMA TalkedStep ==
  ASSUME IInv, NEW c \in Live, Talked(c)
  PROVE  IInv'
<1>1. conn[c].st = "talks" /\ conn[c].st \in Winning
  BY DEF Talked, At, Winning
<1>2. /\ serve.claimed = c /\ c # 0 /\ Claimed(c) /\ outcome = "none" /\ InRound(c)
      /\ serve.at # "over" /\ serve.at # "between"
      /\ \A d \in Devices : recv[d] \in {"accepted", "pulls"} => send.peer = d /\ told # {}
  BY <1>1, TheWinner
<1>3. send.peer = Dev(c) /\ told = {c}
  BY <1>1, <1>2 DEF Claimed
<1>4. UNCHANGED <<ctx, serve, codes, port, send, told>>
  BY DEF Talked
<1>6. send' \in Sends
      /\ codes' \in CodesType
  BY <1>4 DEF IInv, TypeOK, CodesType
<1>7. cut' \in BOOLEAN /\ (cut' => ctx' = "ended")
  <2>1. ctx # "on" => ctx = "ended"
    BY DEF IInv, TypeOK
  <2>2. cut' = cut \/ (~RoundOn(c) /\ cut' = TRUE)
    BY DEF Talked
  <2>3. ~RoundOn(c) => ctx # "on"
    BY <1>2 DEF RoundOn, InRound
  <2>4. cut \in BOOLEAN /\ (cut => ctx = "ended") /\ ctx' = ctx
    BY <1>4 DEF IInv, TypeOK, Winner
  <2>5. CASE cut' = cut
    BY <2>4, <2>5
  <2>6. CASE ~RoundOn(c) /\ cut' = TRUE
    BY <2>1, <2>3, <2>4, <2>6
  <2> QED
    BY <2>2, <2>5, <2>6
<1>8. Close(c) /\ Hears(c, "accepted") /\ outcome' = "paired"
  BY <1>2 DEF Talked, Over, Outcome
<1>9. Moves(c, Closed(conn[c])) /\ TypeOK' /\ AllSound' /\ Waiting' /\ Counts'
  BY <1>1, <1>4, <1>6, <1>7, <1>8, RestClosed
<1>10. \A d \in Devices : recv'[d] \in {"accepted", "pulls"} => send'.peer = d /\ told' # {}
  <2>1. \A d \in Devices : recv'[d] = recv[d] \/ d = Dev(c)
    BY <1>8 DEF Hears, IInv, TypeOK
  <2> QED
    BY <1>2, <1>3, <1>4, <2>1
<1>11. Winner'
  BY <1>1, <1>3, <1>4, <1>7, <1>8, <1>9, <1>10, WinnerOver
<1> QED
  BY <1>9, <1>11 DEF IInv

-----------------------------------------------------------------------------
(* Steps that leave the connections alone.                                  *)
LEMMA Quiet ==
  ASSUME IInv, UNCHANGED conn, TypeOK', Winner',
         port'.queue = port.queue \/ port'.queue = <<>>,
         gate'.active = gate.active, gate'.running = gate.running
  PROVE  IInv'
<1>1. AllSound'
  BY DEF IInv, AllSound, Live
<1>2. Counts'
  BY DEF IInv, Counts, Places, Live, Dev
<1>3. Waiting'
  <2>1. CASE port'.queue = port.queue
    BY <2>1 DEF IInv, Waiting, Live, At
  <2>2. CASE port'.queue = <<>>
    <3>1. 1 .. Len(port'.queue) = {}
      BY <2>2, EmptySeq
    <3> QED
      BY <3>1 DEF Waiting
  <2> QED
    BY <2>1, <2>2
<1> QED
  BY <1>1, <1>2, <1>3 DEF IInv

LEMMA WinnerSame ==
  ASSUME Winner, UNCHANGED <<conn, serve, outcome, send, told, cut>>, ctx = "ended" => ctx' = "ended",
         \A d \in Devices : recv'[d] \in {"accepted", "pulls"} => send.peer = d /\ told # {}
  PROVE  Winner'
<1>1. Unclaimed => Unclaimed'
  BY DEF Unclaimed, Live
<1>2. Claimed(serve.claimed) => Claimed(serve.claimed)'
  BY DEF Claimed, Live, InRound, Dev
<1> QED
  BY <1>1, <1>2 DEF Winner

LEMMA ForgetsStep ==
  ASSUME IInv, NEW d \in Devices, Forgets(d)
  PROVE  IInv'
<1>1. UNCHANGED <<serving, conn, recv, told, cut>>
  BY DEF Forgets, Happens
<1>2. gate \in Gates
  BY DEF IInv, TypeOK, Gates
<1>3. gate' \in Gates /\ gate'.active = gate.active /\ gate'.running = gate.running
  <2>1. CASE gate' = [gate EXCEPT !.recent[d] = @ - 1]
    <3>1. gate' = [active |-> gate.active, running |-> gate.running, recent |-> [gate.recent EXCEPT ![d] = @ - 1],
                   known |-> gate.known]
      BY <1>2, <2>1 DEF Gates
    <3> QED
      BY <1>2, <3>1 DEF Gates
  <2>2. CASE gate' = [gate EXCEPT !.known = @ \ {d}]
    BY <1>2, <2>2 DEF Gates
  <2> QED
    BY <2>1, <2>2 DEF Forgets
<1>4. TypeOK'
  BY <1>1, <1>3 DEF IInv, TypeOK, serving, Gates
<1>5. Winner'
  BY <1>1, WinnerSame DEF IInv, serving, Winner
<1> QED
  BY <1>1, <1>3, <1>4, <1>5, Quiet DEF serving

LEMMA DecidesStep ==
  ASSUME IInv, NEW d \in Devices, Decides(d)
  PROVE  IInv'
<1>1. UNCHANGED <<serving, conn, gate, told, cut>>
  BY DEF Decides, ghosts
<1>2. recv' \in Recvs
      /\ \A e \in Devices : recv'[e] \in {"accepted", "pulls"} => recv[e] \in {"accepted", "pulls"}
  BY DEF Decides, IInv, TypeOK, Recvs
<1>4. TypeOK'
  BY <1>1, <1>2 DEF IInv, TypeOK, serving
<1>5. Winner'
  BY <1>1, <1>2, WinnerSame DEF IInv, serving, Winner
<1> QED
  BY <1>1, <1>4, <1>5, Quiet DEF serving

LEMMA AcceptedStep ==
  ASSUME IInv, NEW c \in Live, Accepted(c)
  PROVE  IInv'
<1>1. UNCHANGED <<serving, conn, gate, told, cut>>
  BY DEF Accepted, ghosts
<1>2. recv' \in Recvs
      /\ \A d \in Devices : recv'[d] \in {"accepted", "pulls"} => recv[d] \in {"accepted", "pulls"} \/ d = Dev(c)
  BY DEF Accepted, IInv, TypeOK, Recvs
<1>3. send.peer = Dev(c) /\ told # {}
  <2>1. c \in told
    BY DEF Accepted
  <2>2. Claimed(serve.claimed)
    BY <2>1 DEF IInv, Winner, Unclaimed
  <2>3. (conn[serve.claimed].st = "talks" \/ outcome = "paired") /\ c = serve.claimed
    BY <2>1, <2>2 DEF Claimed
  <2> QED
    BY <2>1, <2>2, <2>3 DEF Claimed
<1>4. TypeOK'
  BY <1>1, <1>2 DEF IInv, TypeOK, serving
<1>5. Winner'
  BY <1>1, <1>2, <1>3, WinnerSame DEF IInv, serving, Winner
<1> QED
  BY <1>1, <1>4, <1>5, Quiet DEF serving

LEMMA LateStep ==
  ASSUME IInv, Late
  PROVE  IInv'
<1>1. UNCHANGED <<ctx, serve, port, outcome, send, conn, recv, gate, told, cut>>
  BY DEF Late, Happens
<1>2. codes' \in CodesType
  BY DEF Late, IInv, TypeOK, CodesType
<1>4. TypeOK'
  BY <1>1, <1>2 DEF IInv, TypeOK
<1>5. Winner'
  BY <1>1, WinnerSame DEF IInv, Winner
<1> QED
  BY <1>1, <1>4, <1>5, Quiet

LEMMA CancelStep ==
  ASSUME IInv, Cancel
  PROVE  IInv'
<1>1. UNCHANGED <<serve, codes, port, outcome, send, conn, recv, gate, told, cut>> /\ ctx' = "ended"
  BY DEF Cancel, Happens
<1>4. TypeOK'
  BY <1>1 DEF IInv, TypeOK
<1>5. Winner'
  BY <1>1, WinnerSame DEF IInv, Winner
<1> QED
  BY <1>1, <1>4, <1>5, Quiet

LEMMA BeginsStep ==
  ASSUME IInv, Begins
  PROVE  IInv'
<1>1. UNCHANGED <<ctx, outcome, send, conn, recv, gate, told, cut>>
  BY DEF Begins, ghosts
<1>2. serve.at = "between" /\ port' = [open |-> TRUE, queue |-> <<>>]
      /\ serve' = [serve EXCEPT !.at = "accepts", !.round = @ + 1, !.cause = "none"]
  BY DEF Begins
<1>3. serve.claimed = 0 /\ Unclaimed
  BY <1>2 DEF IInv, Winner, Claimed
<1>4. TypeOK'
  <2>1. codes' \in CodesType
    BY DEF Begins, CodesType
  <2>2. serve' \in Serves
    <3>1. serve \in Serves
      BY DEF IInv, TypeOK
    <3>2. serve' = [round |-> serve.round + 1, at |-> "accepts", claimed |-> serve.claimed, cause |-> "none"]
      BY <1>2, <3>1 DEF Serves
    <3>4. serve.round \in Nat /\ serve.claimed \in Nat
      BY <3>1 DEF Serves
    <3>3. serve.round + 1 \in Nat /\ serve.claimed \in Nat
      BY <3>4
    <3> QED
      BY <3>2, <3>3 DEF Serves
  <2>3. port' \in Ports
    BY <1>2, EmptySeq DEF Ports
  <2> QED
    BY <1>1, <2>1, <2>2, <2>3 DEF IInv, TypeOK, CodesType
<1>5. serve'.claimed = 0 /\ serve'.at = "accepts"
  BY <1>2, <1>3 DEF IInv, TypeOK
<1>6. Unclaimed'
  BY <1>1, <1>3, <1>5 DEF Unclaimed, Live
<1>7. Winner'
  BY <1>1, <1>5, <1>6 DEF IInv, Winner
<1> QED
  BY <1>1, <1>2, <1>4, <1>7, Quiet

LEMMA ExpiredStep ==
  ASSUME IInv, Expired
  PROVE  IInv'
<1>1. UNCHANGED <<ctx, codes, port, outcome, send, conn, recv, gate, told, cut>> /\ serve.at = "accepts"
  BY DEF Expired, ghosts
<1>2. PICK cause \in {"expired", "too many"} : Ends(cause)
  BY DEF Expired
<1>3. TypeOK' /\ serve'.at = serve.at /\ serve'.claimed = serve.claimed /\ (serve.claimed # 0 => serve' = serve)
  BY <1>1, <1>2 DEF IInv, TypeOK, Ends, Serves
<1>4. CASE serve.claimed = 0
  <2>1. Unclaimed'
    BY <1>1, <1>3, <1>4 DEF IInv, Winner, Unclaimed, Live
  <2>2. Winner'
    BY <1>1, <1>3, <1>4, <2>1 DEF IInv, Winner
  <2> QED
    BY <1>1, <1>3, <2>2, Quiet
<1>5. CASE serve.claimed # 0
  <2>1. Winner'
    BY <1>1, <1>3, <1>5, WinnerSame DEF IInv, Winner
  <2> QED
    BY <1>1, <1>3, <2>1, Quiet
<1> QED
  BY <1>4, <1>5

LEMMA AcceptFailsStep ==
  ASSUME IInv, AcceptFails
  PROVE  IInv'
<1>1. UNCHANGED <<ctx, port, outcome, conn, recv, gate, told, cut>> /\ serve.at = "accepts"
  BY DEF AcceptFails, ghosts
<1>2. serve \in Serves /\ send \in Sends /\ codes \in CodesType
  BY DEF IInv, TypeOK
<1>3. codes' \in CodesType
  BY <1>2 DEF AcceptFails, CodesType
<1>4. CASE serve.claimed # 0
  <2>1. serve' = [serve EXCEPT !.at = "outcome"] /\ UNCHANGED send
    BY <1>4 DEF AcceptFails
  <2>2. serve' \in Serves /\ serve'.at = "outcome" /\ serve'.round = serve.round /\ serve'.claimed = serve.claimed
        /\ serve'.cause = serve.cause
    BY <1>2, <2>1 DEF Serves
  <2>3. TypeOK'
    BY <1>1, <1>2, <1>3, <2>1, <2>2 DEF IInv, TypeOK
  <2>4. Claimed(serve.claimed)'
    BY <1>1, <1>4, <2>1, <2>2 DEF IInv, Winner, Claimed, InRound, Live, Dev
  <2>5. Winner'
    BY <1>1, <1>4, <2>1, <2>2, <2>4 DEF IInv, Winner
  <2> QED
    BY <1>1, <2>3, <2>5, Quiet
<1>5. CASE serve.claimed = 0
  <2>1. \/ serve' = [serve EXCEPT !.at = "between"] /\ UNCHANGED send
        \/ serve' = [serve EXCEPT !.at = "over"] /\ send' = [send EXCEPT !.result = "failed"]
    BY <1>5 DEF AcceptFails
  <2>2. serve' \in Serves /\ serve'.at # "outcome" /\ serve'.claimed = 0
    BY <1>2, <1>5, <2>1 DEF Serves
  <2>3. send' \in Sends /\ send'.once = send.once /\ send'.peer = send.peer /\ (serve'.at = "over" => send'.result = "failed")
    BY <1>2, <2>1 DEF Sends, Serves
  <2>4. TypeOK'
    BY <1>1, <1>3, <2>2, <2>3 DEF IInv, TypeOK
  <2>5. Unclaimed'
    BY <1>1, <1>5, <2>2, <2>3 DEF IInv, Winner, Unclaimed, Live
  <2>6. Winner'
    BY <1>1, <2>2, <2>3, <2>5 DEF IInv, Winner
  <2> QED
    BY <1>1, <2>4, <2>6, Quiet
<1> QED
  BY <1>4, <1>5

LEMMA ReturnsStep ==
  ASSUME IInv, Returns
  PROVE  IInv'
<1>1. UNCHANGED <<ctx, port, outcome, conn, recv, gate, told, cut>> /\ serve.at = "outcome" /\ outcome # "none"
  BY DEF Returns, ghosts
<1>2. serve \in Serves /\ send \in Sends /\ codes \in CodesType /\ outcome \in {"none", "paired", "failed"}
  BY DEF IInv, TypeOK
<1>3. codes' \in CodesType
  BY <1>2 DEF Returns, CodesType
<1>4. serve' = [serve EXCEPT !.at = "over"] /\ send' = [send EXCEPT !.result = outcome]
  BY DEF Returns
<1>5. serve' \in Serves /\ serve'.at = "over" /\ serve'.claimed = serve.claimed
  BY <1>2, <1>4 DEF Serves
<1>6. send' \in Sends /\ send'.once = send.once /\ send'.peer = send.peer /\ send'.result = outcome
  BY <1>2, <1>4 DEF Sends
<1>7. serve.claimed # 0 /\ Claimed(serve.claimed)
  BY <1>1 DEF IInv, Winner, Unclaimed
<1>8. TypeOK'
  BY <1>1, <1>3, <1>5, <1>6 DEF IInv, TypeOK
<1>9. Claimed(serve.claimed)'
  BY <1>1, <1>5, <1>6, <1>7 DEF Claimed, Live, Dev
<1>10. Winner'
  BY <1>1, <1>5, <1>6, <1>7, <1>9 DEF IInv, Winner
<1> QED
  BY <1>1, <1>8, <1>10, Quiet

-----------------------------------------------------------------------------
(* A connection more, whose place is counted.                               *)
LEMMA DialsStep ==
  ASSUME IInv, NEW d \in Devices, NEW path \in Paths[d], NEW code \in 0 .. serve.round, Dials(d, path, code)
  PROVE  IInv'
<1>1. UNCHANGED <<serving, told, cut>>
  BY DEF Dials, ghosts
<1>2. recv \in Recvs /\ gate \in Gates /\ serve.round \in Nat /\ conn \in Seq(Connection)
  BY DEF IInv, TypeOK, Serves
<1>3. recv' \in Recvs /\ \A e \in Devices : recv'[e] \in {"accepted", "pulls"} => recv'[e] = recv[e]
  BY <1>2 DEF Dials, Recvs
<1>4. \A e \in Devices : recv'[e] \in {"accepted", "pulls"} => send.peer = e /\ told # {}
  BY <1>3 DEF IInv, Winner
<1>5. CASE ~Admits(d)
  <2>1. UNCHANGED <<conn, gate>>
    BY <1>5 DEF Dials
  <2>2. TypeOK'
    BY <1>1, <1>3, <2>1 DEF IInv, TypeOK, serving
  <2>3. Winner'
    BY <1>1, <1>4, <2>1, WinnerSame DEF IInv, serving
  <2> QED
    BY <1>1, <2>1, <2>2, <2>3, Quiet DEF serving
<1>6. CASE Admits(d)
  <2> DEFINE r == NewConn(d, path, code)  n == Len(conn) + 1
  <2>1. conn' = Append(conn, r) /\ gate' = Admitted(d)
    BY <1>6 DEF Dials
  <2>2. path \in {"secret", "hello", "pin", "wanted", "none"} /\ code \in Nat
    BY <1>2, PathsAssumption
  <2>3. Sound(r) /\ r.st = "handshake" /\ r.dev = d /\ r.place = TRUE /\ r.running = TRUE
    BY <2>2 DEF Sound, NewConn, Connection, States
  <2>4. r \in Connection
    BY <2>3 DEF Sound
  <2> HIDE DEF r
  <2>5. /\ conn' \in Seq(Connection) /\ Len(conn') = n /\ Len(conn) \in Nat
        /\ conn'[n] = r /\ \A k \in 1 .. Len(conn) : conn'[k] = conn[k]
    BY <1>2, <2>1, <2>4, AppendProperties, LenProperties
  <2>6. Live' = Live \cup {n} /\ n \notin Live /\ \A k \in Live : conn'[k] = conn[k]
    BY <2>5 DEF Live
  <2>16. n \in Nat /\ n # 0 /\ conn'[n] = r
    BY <2>5
  <2> HIDE DEF n
  <2>7. gate' = [active |-> gate.active + 1, running |-> [gate.running EXCEPT ![d] = @ + 1], recent |-> gate.recent,
                 known |-> gate.known]
    BY <1>2, <2>1 DEF Admitted, Gates
  <2>8. gate' \in Gates
    BY <1>2, <2>7 DEF Gates
  <2>9. TypeOK'
    BY <1>1, <1>3, <2>5, <2>8 DEF IInv, TypeOK, serving
  <2>10. AllSound'
    BY <2>3, <2>6, <2>16 DEF IInv, AllSound, Sound
  <2>11. Waiting'
    BY <1>1, <2>6 DEF IInv, Waiting, serving, At
  <2>12. Counts'
    <3>1. IsFiniteSet(Live) /\ gate.active \in Int /\ \A e \in Devices : gate.running[e] \in Int
      BY <1>2, LiveFinite DEF Gates
    <3>2. gate'.active = Cardinality({k \in Live : conn[k].place}')
      <4> DEFINE S == {k \in Live : conn[k].place}
      <4>1. {k \in Live : conn[k].place}' = S \cup {n} /\ n \notin S
        BY <2>3, <2>6, <2>16
      <4>2. Cardinality(S \cup {n}) = Cardinality(S) + 1
        BY <3>1, <4>1, FS_Subset, FS_AddElement
      <4> QED
        BY <2>7, <4>1, <4>2 DEF IInv, Counts
    <3>3. ASSUME NEW e \in Devices PROVE gate'.running[e] = Cardinality(Places(e)')
      <4>1. Places(e)' = IF e = d THEN Places(e) \cup {n} ELSE Places(e)
        BY <2>3, <2>6, <2>16 DEF Places, Dev
      <4>2. n \notin Places(e) /\ IsFiniteSet(Places(e))
        BY <2>6, <3>1, FS_Subset DEF Places
      <4>3. Cardinality(Places(e) \cup {n}) = Cardinality(Places(e)) + 1
        BY <4>2, FS_AddElement
      <4>4. gate'.running[e] = IF e = d THEN gate.running[e] + 1 ELSE gate.running[e]
        BY <1>2, <2>7 DEF Gates
      <4> QED
        BY <4>1, <4>3, <4>4 DEF IInv, Counts
    <3> QED
      BY <3>2, <3>3 DEF Counts
  <2>13. Winner'
    <3>1. UNCHANGED <<ctx, serve, outcome, send, told, cut>>
      BY <1>1 DEF serving
    <3>2. CASE serve.claimed = 0
      <4>1. Unclaimed'
        BY <2>3, <2>6, <2>16, <3>1, <3>2 DEF IInv, Winner, Unclaimed, Winning
      <4> QED
        BY <1>4, <3>1, <3>2, <4>1 DEF IInv, Winner
    <3>3. CASE serve.claimed # 0
      <4>1. Claimed(serve.claimed) /\ serve.claimed \in Live
        BY <3>3 DEF IInv, Winner, Claimed
      <4>2. Claimed(serve.claimed)'
        BY <2>3, <2>6, <2>16, <3>1, <4>1 DEF Claimed, InRound, Dev, Winning
      <4> QED
        BY <1>4, <3>1, <3>3, <4>2 DEF IInv, Winner
    <3> QED
      BY <3>2, <3>3
  <2> QED
    BY <2>9, <2>10, <2>11, <2>12, <2>13 DEF IInv
<1> QED
  BY <1>5, <1>6

-----------------------------------------------------------------------------
(* The queue is closed: all that wait are, each with its place.             *)
LEMMA StopsAcceptingStep ==
  ASSUME IInv, StopsAccepting
  PROVE  IInv'
<1>1. UNCHANGED <<ctx, serve, codes, outcome, send, told, cut>>
  BY DEF StopsAccepting, ghosts
<1>2. recv \in Recvs /\ gate \in Gates /\ conn \in Seq(Connection) /\ IsFiniteSet(Live) /\ Len(conn) \in Nat
  BY LiveFinite DEF IInv, TypeOK
<1>3. Queued \subseteq Live /\ \A c \in Queued : conn[c].st = "queued"
  BY DEF Queued, IInv, Waiting, At
<1>4. recv' \in Recvs /\ \A e \in Devices : recv'[e] \in {"accepted", "pulls"} => recv'[e] = recv[e]
  BY <1>2 DEF StopsAccepting, Recvs
<1>5. conn' = [c \in Live |-> IF c \in Queued THEN Closed(conn[c]) ELSE conn[c]]
  BY DEF StopsAccepting
<1>6. \A c \in Live : Sound(conn[c]) /\ Sound(Closed(conn[c])) /\ Closed(conn[c]).st = "gone" /\ ~Closed(conn[c]).place
                      /\ ~Closed(conn[c]).running
  BY ClosedSound DEF IInv, AllSound
<1>7. conn' \in Seq(Connection) /\ Live' = Live
  <2>1. conn' \in [1 .. Len(conn) -> Connection]
    BY <1>5, <1>6 DEF Live, Sound
  <2>2. conn' \in Seq(Connection) /\ Len(conn') = Len(conn)
    BY <1>2, <2>1, FunIsSeq
  <2> QED
    BY <2>2 DEF Live
<1>8. \A c \in Live : IF c \in Queued THEN conn'[c] = Closed(conn[c]) ELSE conn'[c] = conn[c]
  BY <1>5
<1>9. gate' = [active |-> gate.active - Cardinality({c \in Queued : conn[c].place}), running |-> gate.running,
               recent |-> gate.recent, known |-> gate.known]
  BY <1>2 DEF StopsAccepting, Gates
<1>10. IsFiniteSet({c \in Queued : conn[c].place}) /\ Cardinality({c \in Queued : conn[c].place}) \in Nat
  <2>1. {c \in Queued : conn[c].place} \in SUBSET Live
    BY <1>3
  <2> QED
    BY <1>2, <2>1, FS_Subset, FS_CardinalityType
<1>11. port' \in Ports /\ port'.queue = <<>>
  BY EmptySeq DEF StopsAccepting, Ports
<1>12. TypeOK'
  <2>1. gate' \in Gates
    BY <1>2, <1>9, <1>10 DEF Gates
  <2> QED
    BY <1>1, <1>4, <1>7, <1>11, <2>1 DEF IInv, TypeOK
<1>13. AllSound'
  BY <1>6, <1>7, <1>8 DEF AllSound, Sound
<1>14. Waiting'
  <2>1. 1 .. Len(port'.queue) = {}
    BY <1>11, EmptySeq
  <2> QED
    BY <2>1 DEF Waiting
<1>15. Counts'
  <2> DEFINE S == {c \in Live : conn[c].place}  Q == {c \in Queued : conn[c].place}
  <2>1. {c \in Live : conn[c].place}' = S \ Q /\ S \cap Q = Q
    BY <1>3, <1>6, <1>7, <1>8
  <2>2. IsFiniteSet(S)
    BY <1>2, FS_Subset
  <2>3. Cardinality(S \ Q) = Cardinality(S) - Cardinality(Q)
    <3> HIDE DEF S, Q
    <3> QED
      BY <2>1, <2>2, FS_Difference
  <2>4. gate'.active = Cardinality({c \in Live : conn[c].place}')
    BY <1>9, <2>1, <2>3 DEF IInv, Counts
  <2>5. ASSUME NEW d \in Devices PROVE gate'.running[d] = Cardinality(Places(d)')
    <3>1. \A c \in Queued : ~conn[c].running
      BY <1>3, <1>6 DEF Sound
    <3>2. Places(d)' = Places(d)
      BY <1>3, <1>6, <1>7, <1>8, <3>1 DEF Places, Dev
    <3> QED
      BY <1>9, <3>2 DEF IInv, Counts
  <2> QED
    BY <2>4, <2>5 DEF Counts
<1>16. \A c \in Live : conn'[c].st \in Winning => conn'[c] = conn[c]
  BY <1>6, <1>8 DEF Winning
<1>17. Winner'
  <2>1. \A e \in Devices : recv'[e] \in {"accepted", "pulls"} => send.peer = e /\ told # {}
    BY <1>4 DEF IInv, Winner
  <2>2. CASE serve.claimed = 0
    <3>1. Unclaimed'
      BY <1>1, <1>7, <1>16, <2>2 DEF IInv, Winner, Unclaimed
    <3> QED
      BY <1>1, <2>1, <2>2, <3>1 DEF IInv, Winner
  <2>3. CASE serve.claimed # 0
    <3>1. Claimed(serve.claimed) /\ serve.claimed \in Live
      BY <2>3 DEF IInv, Winner, Claimed
    <3>2. serve.claimed \notin Queued
      BY <1>3, <3>1 DEF Claimed, Winning
    <3>3. conn'[serve.claimed] = conn[serve.claimed]
      BY <1>8, <3>1, <3>2
    <3>4. Claimed(serve.claimed)'
      BY <1>1, <1>7, <1>16, <3>1, <3>3 DEF Claimed, InRound, Dev
    <3> QED
      BY <1>1, <2>1, <2>3, <3>4 DEF IInv, Winner
  <2> QED
    BY <2>2, <2>3
<1> QED
  BY <1>12, <1>13, <1>14, <1>15, <1>17 DEF IInv

-----------------------------------------------------------------------------
LEMMA Initial ==
  ASSUME Init
  PROVE  IInv
<1>1. Live = {} /\ conn \in Seq(Connection) /\ Len(conn) = 0
  BY EmptySeq DEF Init, Live
<1>2. TypeOK
  <2>1. port \in Ports /\ serve \in Serves /\ codes \in CodesType
    BY EmptySeq DEF Init, Ports, Serves, CodesType
  <2>2. send \in Sends /\ recv \in Recvs /\ gate \in Gates
    BY DEF Init, Sends, Answers, Recvs, Gates
  <2> QED
    BY <1>1, <2>1, <2>2 DEF Init, TypeOK
<1>3. AllSound /\ Waiting
  <2>1. 1 .. Len(port.queue) = {}
    BY EmptySeq DEF Init
  <2> QED
    BY <1>1, <2>1 DEF AllSound, Waiting
<1>4. Winner
  BY <1>1 DEF Init, Winner, Unclaimed
<1>5. Counts
  <2>1. {c \in Live : conn[c].place} = {} /\ \A d \in Devices : Places(d) = {}
    BY <1>1 DEF Places
  <2> QED
    BY <2>1, FS_EmptySet DEF Init, Counts
<1> QED
  BY <1>2, <1>3, <1>4, <1>5 DEF IInv

LEMMA Step ==
  ASSUME IInv, [Next]_vars
  PROVE  IInv'
<1>1. CASE UNCHANGED vars
  <2>1. TypeOK'
    BY <1>1 DEF vars, IInv, TypeOK
  <2>2. Winner'
    BY <1>1, WinnerSame DEF vars, IInv, Winner
  <2> QED
    BY <1>1, <2>1, <2>2, Quiet DEF vars
<1>2. CASE Serving
  BY <1>2, BeginsStep, AcceptsStep, ExpiredStep, StopsAcceptingStep, AcceptFailsStep, ReturnsStep DEF Serving
<1>3. ASSUME NEW c \in Live, ServeOne(c) PROVE IInv'
  BY <1>3, HandshakeStep, HandshakeFailsStep, DeliversStep, PresentsStep, AsksPINStep, TriesStep, ConfirmsStep,
     TimesOutStep, ClaimsStep, RegistersStep, SendsAcceptStep, TalkedStep DEF ServeOne
<1>4. ASSUME NEW d \in Devices, Forgets(d) \/ Decides(d) PROVE IInv'
  BY <1>4, ForgetsStep, DecidesStep
<1>5. ASSUME NEW d \in Devices, NEW path \in Paths[d], NEW code \in 0 .. serve.round, Dials(d, path, code) PROVE IInv'
  BY <1>5, DialsStep
<1>6. ASSUME NEW c \in Live, GivesUp(c) \/ Accepted(c) PROVE IInv'
  BY <1>6, GivesUpStep, AcceptedStep
<1> QED
  BY <1>1, <1>2, <1>3, <1>4, <1>5, <1>6, LateStep, CancelStep DEF Next, Sender

\* The invariant holds: whatever the devices try, their number and the sender's.
THEOREM IInvHolds == Spec => []IInv
<1>1. Init => IInv
  BY Initial
<1>2. IInv /\ [Next]_vars => IInv'
  BY Step
<1> QED
  BY <1>1, <1>2, PTL DEF Spec

(* What each part is: serve, its codes and queue, what it registered, the   *)
(* connections, the receivers and the Gate.                                 *)
THEOREM TypeCorrect == Spec => []TypeOK
<1>1. IInv => TypeOK
  BY DEF IInv
<1> QED
  BY <1>1, IInvHolds, PTL

(* One receiver, of all those that proved a code: claim, BeforeAccept and   *)
(* serve's outcome agree on it (pairing.Serve, oneShotSend).                *)
THEOREM OneReceiverHolds == Spec => []OneReceiver
<1>1. ASSUME IInv PROVE OneReceiver
  <2>1. \A d \in Devices : recv[d] \in {"accepted", "pulls"} => send.peer = d
    BY <1>1 DEF IInv, Winner
  <2>2. CASE serve.claimed = 0
    BY <1>1, <2>1, <2>2, FS_EmptySet DEF IInv, Winner, Unclaimed, OneReceiver
  <2>3. CASE serve.claimed # 0
    <3>1. Claimed(serve.claimed) /\ outcome \in {"none", "paired", "failed"}
      BY <1>1, <2>3 DEF IInv, Winner, TypeOK
    <3>2. Cardinality(told) <= 1
      <4>1. told = {} \/ told = {serve.claimed}
        BY <3>1 DEF Claimed
      <4>2. Cardinality({serve.claimed}) = 1 /\ Cardinality({}) = 0
        BY FS_EmptySet, FS_Singleton
      <4> QED
        BY <4>1, <4>2
    <3>3. \A c \in told : send.peer = Dev(c) /\ serve.claimed = c
      BY <3>1 DEF Claimed
    <3>4. serve.at = "over" => (send.result = "paired" <=> told # {})
      BY <1>1, <2>3, <3>1 DEF IInv, Winner, Claimed
    <3> QED
      BY <2>1, <3>2, <3>3, <3>4 DEF OneReceiver
  <2> QED
    BY <2>2, <2>3
<1> QED
  BY <1>1, IInvHolds, PTL

(* A talk of trust is not cut by codes that expire, or by a PIN stopped:    *)
(* only by the end of the program's own context (claim, end).               *)
THEOREM TalkHolds == Spec => []TalkKeepsItsTime
<1>1. IInv => TalkKeepsItsTime
  BY DEF IInv, Winner, TalkKeepsItsTime
<1> QED
  BY <1>1, IInvHolds, PTL

(* The Gate counts each connection once: none keeps a place it does not     *)
(* need, and none is counted that has none (Admit, Charge, Release).        *)
THEOREM PlacesHold == Spec => []PlacesAreHeld
<1>1. ASSUME IInv PROVE PlacesAreHeld
  <2>1. \A c \in Live : /\ conn[c].place <=> conn[c].st # "gone" /\ ~conn[c].auth
                        /\ conn[c].running <=> conn[c].st = "handshake"
    BY <1>1 DEF IInv, AllSound, Sound
  <2>2. {c \in Live : ~At(c, "gone") /\ ~conn[c].auth} = {c \in Live : conn[c].place}
    BY <2>1 DEF At
  <2>3. \A d \in Devices : {c \in Live : At(c, "handshake") /\ Dev(c) = d} = Places(d)
    BY <2>1 DEF At, Places
  <2> QED
    BY <1>1, <2>2, <2>3 DEF IInv, Counts, PlacesAreHeld
<1> QED
  BY <1>1, IInvHolds, PTL
=============================================================================
