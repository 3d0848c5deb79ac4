------------------------- MODULE ReceiverRunProofs -------------------------
(***************************************************************************)
(* What one Run of the Receiver gives, on a disk that does not fill up:    *)
(* what it names is the sender's file, no item is forgotten, its DONE says *)
(* what happened, and what a later Run can resume is kept; for any offer,  *)
(* any number of workers, any faults and acts of the user, as often as     *)
(* they come.                                                              *)
(*                                                                         *)
(* The argument is about tokens.  Each chunk of an item, and its digest,   *)
(* is at one place at most: to be asked for, in flight, read and not       *)
(* written, or in the hands of a thread.  The count of an item is that of  *)
(* the chunks that are at no place, and its digest is asked for once that  *)
(* is all of them.  After a full disk the threads of the attempt before    *)
(* are still under way, and this does not hold.                            *)
(***************************************************************************)
EXTENDS ReceiverRun, FiniteSetTheorems, SequenceTheorems, WellFoundedInduction, TLAPS

\* No disk fills up.
NoFullDisk == \A p \in Plans : "full" \notin p.faults

-----------------------------------------------------------------------------
(* The types.                                                              *)

Outcomes == {"done", "failed", "skipped"}
States == {"pending"} \cup Outcomes
Moves == {"prepare", "write", "writeMade", "create", "count"}
Closing == {"complete", "arm", "finish", "startOver", "discard", "askAgain"}
Ending == {"end", "mark", "flush", "force", "names"}
Ops == {"idle", "read"} \cup Moves \cup Closing \cup Ending

Counts == UNION {[s -> Nat] : s \in SUBSET Nat}
Task == [item : Nat, index : Nat, gen : {0}]
Read == [task : Task, good : BOOLEAN]
Item == [state : States, next : Nat, retries : SUBSET Nat, bad : Counts, opened : BOOLEAN, closed : BOOLEAN,
         file : {"none", "open", "sealed"}, processed : Nat, fresh : SUBSET Nat, local : {"none", "same", "other"},
         digest : BOOLEAN, restarted : BOOLEAN, gen : {0}]
Disk == [has : SUBSET Nat, kept : SUBSET Nat, old : SUBSET Nat, named : {"no", "earlier", "good", "other"}]
Thread == [op : Ops, task : Task, ends : SUBSET (Nat \X Outcomes), taken : SUBSET Nat, full : BOOLEAN]

\* Types; without a full disk no item gets another generation.
TypeOK ==
  /\ plan \in Plans
  /\ item \in [Items -> Item] /\ disk \in [Items -> Disk]
  /\ at \in [Threads -> Thread]
  /\ conn \in [Workers -> {"none", "up", "left"}]
  /\ inflight \in [Workers -> Seq(Task)] /\ writes \in [Workers -> Seq(Read)]
  /\ batched \subseteq Items
  /\ paused \in BOOLEAN /\ pausedItems \subseteq Items /\ cancelled \in BOOLEAN
  /\ marked \in {"no", "ok"} /\ phase \in {"runs", "flushes", "returned"}
  /\ doneSent \in {"none", "complete", "partial"}
  /\ room = TRUE /\ faults \in Nat /\ acts \in Nat

-----------------------------------------------------------------------------
(* The places of a token.                                                  *)

Asks(i) == 0 .. (Target(i) - 1)
Index(i) == Asks(i) \cup {DigestIndex}

\* In the hands of a thread: a chunk on its way, or the item whose digest is looked at.
Carries(x, i, c) ==
  /\ x.task.item = i
  /\ IF c = DigestIndex THEN x.op \in Closing ELSE x.op \in Moves /\ x.task.index = c
\* Among the requests in flight, and among the chunks read.
Requested(q, i, c) == \E n \in 1 .. Len(q) : q[n].item = i /\ q[n].index = c
Waits(q, i, c) == \E n \in 1 .. Len(q) : q[n].task.item = i /\ q[n].task.index = c
\* To be asked for.
Ahead(s, c) ==
  IF c = DigestIndex THEN s.digest \/ DigestIndex \in s.retries
  ELSE c \in s.retries \/ s.next <= c

InItem == <<"item">>
InHands(t) == <<"thread", t>>
InFlightOf(w) == <<"inflight", w>>
InWrites(w) == <<"writes", w>>
Where(i, c) ==
  (IF Ahead(item[i], c) THEN {InItem} ELSE {})
  \cup {InHands(t) : t \in {u \in Threads : Carries(at[u], i, c)}}
  \cup {InFlightOf(w) : w \in {v \in Workers : Requested(inflight[v], i, c)}}
  \cup {InWrites(w) : w \in {v \in Workers : Waits(writes[v], i, c)}}

\* A token is at one place at most, and there once.
Single(s) == \A p, q \in s : p = q
QueuedOnce ==
  \A w \in Workers :
    /\ \A m, n \in 1 .. Len(inflight[w]) :
         inflight[w][m].item = inflight[w][n].item /\ inflight[w][m].index = inflight[w][n].index => m = n
    /\ \A m, n \in 1 .. Len(writes[w]) :
         writes[w][m].task.item = writes[w][n].task.item /\ writes[w][m].task.index = writes[w][n].task.index => m = n
AskedOnce(i) ==
  /\ item[i].next <= Target(i) /\ item[i].retries \subseteq Index(i)
  /\ \A c \in item[i].retries : c # DigestIndex => c < item[i].next
  /\ ~(item[i].digest /\ DigestIndex \in item[i].retries)
TokensOK(i) == AskedOnce(i) /\ \A c \in Index(i) : Single(Where(i, c))

-----------------------------------------------------------------------------
(* An item.                                                                *)

Good == {"good", "earlier"}
Handled(i) == {c \in Asks(i) : Where(i, c) = {}}
Is(i, ops) == \E t \in Threads : at[t].op \in ops /\ at[t].task.item = i

\* The count is of the chunks at no place, unless a call has given up the item; the
\* digest has a place once it is full, or the item is asked again.
Counted(i) ==
  /\ item[i].processed <= Cardinality(Handled(i))
  /\ ~item[i].closed /\ ~Is(i, {"end", "askAgain"}) => item[i].processed = Cardinality(Handled(i))
  /\ Is(i, {"askAgain"}) => item[i].processed = 0
  /\ Where(i, DigestIndex) # {} =>
       /\ Handled(i) = Asks(i)
       /\ item[i].processed = Target(i) \/ Is(i, {"askAgain"})
  /\ ~item[i].closed /\ ~Is(i, {"end"}) /\ item[i].processed = Target(i) => Where(i, DigestIndex) # {}

\* The file is open from the first chunk on, with what the journal keeps.
FileOf(i, s, d) ==
  /\ s.processed > 0 => s.opened
  /\ ~s.opened => s.file = "none"
  /\ s.file = "sealed" => s.closed
  /\ d.old \subseteq d.kept /\ d.kept \subseteq Chunks(i) /\ d.has \subseteq Chunks(i)
  /\ ~s.closed => /\ s.processed > 0 => s.file = "open"
                  /\ s.file = "open" => d.kept \subseteq d.has
                  /\ s.file = "none" /\ s.opened => d.old = {}
FileOK(i) == FileOf(i, item[i], disk[i])

\* What has no place any more is on disk.
Stored(i) ==
  ~item[i].closed /\ ~Is(i, {"discard", "askAgain", "end"}) =>
    \A c \in Chunks(i) : Where(i, c) # {} \/ (item[i].file # "none" /\ c \in disk[i].has)

\* What a digest was found to be, and what was received here, is not of another version.
VerifiedOf(s, d) ==
  /\ d.named # "other"
  /\ s.state = "done" => d.named \in Good
  /\ s.local = "same" => d.old = {}
  /\ s.fresh \cap d.old = {}
Verified(i) == VerifiedOf(item[i], disk[i])

\* A closed item that is not marked yet will be.
Cared(x, i) == i \in x.taken \/ \E e \in x.ends : e[1] = i
Told(i) ==
  /\ ~Pending(i) => item[i].closed
  /\ item[i].closed /\ Pending(i) /\ phase # "returned" => i \in batched \/ \E t \in Threads : Cared(at[t], i)

ItemOK(i) == Counted(i) /\ FileOK(i) /\ Stored(i) /\ Verified(i) /\ Told(i)

-----------------------------------------------------------------------------
(* The threads and the queues.                                             *)

\* A chunk that was asked for is not one the disk has of another version.
CarriedOf(k, s, d) == s.opened /\ (~s.closed => k.index \notin d.old)
Carried(k) == CarriedOf(k, item[k.item], disk[k.item])

InQueue(k) == k.item \in Items /\ k.index \in Index(k.item) /\ item[k.item].opened
              /\ (k.index # DigestIndex => Carried(k))
Queues ==
  \A w \in Workers :
    /\ Len(inflight[w]) <= 2
    /\ at[Reader(w)].op = "read" => inflight[w] # <<>>
    /\ at[Reader(w)].op = "prepare" => Len(inflight[w]) < 2
    /\ \A n \in 1 .. Len(inflight[w]) : InQueue(inflight[w][n])
    /\ \A n \in 1 .. Len(writes[w]) : InQueue(writes[w][n].task) /\ writes[w][n].task.index # DigestIndex

BatchedOK(i) == item[i].closed /\ disk[i].old = {}
EndOK(x, e) == e[1] \in Items /\ (e[2] = "done" => disk[e[1]].named \in Good) /\ (x.op # "end" => item[e[1]].closed)

\* What a call says of its item s and of the files d.
TaskOf(x, s, d) ==
  LET k == x.task IN
  /\ x.op \in Moves => k.item \in Items /\ k.index \in Asks(k.item)
  /\ x.op \in Closing => k.item \in Items
  /\ x.op \in {"write", "writeMade", "create"} => CarriedOf(k, s, d)
  /\ x.op = "count" => /\ s.opened
                       /\ ~s.closed => s.file = "open" /\ (k.index \in Chunks(k.item) => k.index \in d.has)
  /\ x.op = "writeMade" /\ ~s.closed => s.file = "open"
  /\ x.op = "finish" /\ ~s.closed => d.old = {}
  /\ x.op = "discard" => s.restarted
ThreadOK(x) ==
  /\ TaskOf(x, item[x.task.item], disk[x.task.item])
  /\ x.op = "end" => x.task.item \in Items /\ \E st \in {"failed", "skipped"} : x.ends = {<<x.task.item, st>>}
  /\ x.op \notin Ending => x.ends = {}
  /\ x.op # "names" => x.taken = {}
  /\ \A e \in x.ends : EndOK(x, e)
  /\ \A i \in x.taken : i \in Items /\ BatchedOK(i)

ThreadsOK == (\A t \in Threads : ThreadOK(at[t])) /\ (phase = "runs" => at[Main] = Idle)
BatchOK == \A i \in batched : BatchedOK(i)

DoneOK ==
  /\ doneSent # "none" => AllEnded
  /\ doneSent = "complete" => \A i \in Items : item[i].state = "done"

IInv == /\ TypeOK /\ QueuedOnce /\ Queues /\ ThreadsOK /\ BatchOK /\ DoneOK
        /\ \A i \in Items : TokensOK(i) /\ ItemOK(i)

-----------------------------------------------------------------------------
(* The offer.                                                              *)

LEMMA Offer ==
  ASSUME TypeOK
  PROVE  /\ Items \subseteq Nat /\ DigestIndex \in Nat
         /\ \A i \in Items :
              /\ Total(i) \in Nat /\ Target(i) \in Nat \ {0} /\ Target(i) <= DigestIndex
              /\ Chunks(i) = {c \in Nat : c < Total(i)}
              /\ Asks(i) = {c \in Nat : c < Target(i)}
              /\ Chunks(i) \subseteq Asks(i) /\ DigestIndex \notin Asks(i)
              /\ IsFiniteSet(Asks(i)) /\ Cardinality(Asks(i)) = Target(i)
<1>1. plan.total \in Seq(Nat) /\ DigestIndex \in Nat
  BY PlansAssumption, RunBoundsAssumption DEF TypeOK
<1>2. Items \subseteq Nat
  BY <1>1 DEF Items
<1>3. ASSUME NEW i \in Items
      PROVE  /\ Total(i) \in Nat /\ Target(i) \in Nat \ {0} /\ Target(i) <= DigestIndex
             /\ Chunks(i) = {c \in Nat : c < Total(i)}
             /\ Asks(i) = {c \in Nat : c < Target(i)}
             /\ Chunks(i) \subseteq Asks(i) /\ DigestIndex \notin Asks(i)
             /\ IsFiniteSet(Asks(i)) /\ Cardinality(Asks(i)) = Target(i)
  <2>1. Total(i) \in Nat /\ Total(i) < DigestIndex
    BY PlansAssumption DEF TypeOK, Items, Total
  <2>2. Target(i) \in Nat \ {0} /\ Target(i) <= DigestIndex /\ Total(i) <= Target(i)
    BY <1>1, <2>1 DEF Target
  <2>3. Chunks(i) = {c \in Nat : c < Total(i)}
    BY <2>1 DEF Chunks
  <2>4. Asks(i) = {c \in Nat : c < Target(i)}
    BY <2>2 DEF Asks
  <2>5. IsFiniteSet(Asks(i)) /\ Cardinality(Asks(i)) = Target(i)
    <3>1. PICK n \in Nat \ {0} : n = Target(i)
      BY <2>2
    <3>2. IsFiniteSet(0 .. (n - 1)) /\ Cardinality(0 .. (n - 1)) = IF 0 > n - 1 THEN 0 ELSE (n - 1) - 0 + 1
      BY FS_Interval
    <3>3. (IF 0 > n - 1 THEN 0 ELSE (n - 1) - 0 + 1) = n
      OBVIOUS
    <3> QED
      BY <3>1, <3>2, <3>3 DEF Asks
  <2> QED
    BY <1>1, <2>1, <2>2, <2>3, <2>4, <2>5
<1> QED
  BY <1>1, <1>2, <1>3

\* The offer stays the same.
LEMMA SameOffer ==
  ASSUME UNCHANGED plan
  PROVE  /\ Items' = Items /\ Workers' = Workers /\ Threads' = Threads
         /\ \A i : Total(i)' = Total(i) /\ Target(i)' = Target(i) /\ Chunks(i)' = Chunks(i)
                  /\ Asks(i)' = Asks(i) /\ Index(i)' = Index(i)
<1>1. Items' = Items /\ Workers' = Workers /\ \A i : Total(i)' = Total(i)
  BY DEF Items, Workers, Total
<1>2. \A i : Target(i)' = Target(i) /\ Chunks(i)' = Chunks(i)
  BY <1>1 DEF Target, Chunks
<1>3. \A i : Asks(i)' = Asks(i) /\ Index(i)' = Index(i)
  BY <1>2 DEF Asks, Index
<1> QED
  BY <1>1, <1>2, <1>3 DEF Threads

-----------------------------------------------------------------------------
(* The places.                                                             *)

\* The places are different ones.
LEMMA PlacesApart ==
  /\ \A t : InHands(t) # InItem /\ \A u : (InHands(t) = InHands(u) <=> t = u)
  /\ \A v : InFlightOf(v) # InItem /\ \A w : (InFlightOf(v) = InFlightOf(w) <=> v = w)
  /\ \A v : InWrites(v) # InItem /\ \A w : (InWrites(v) = InWrites(w) <=> v = w)
  /\ \A v, w : InFlightOf(v) # InWrites(w)
  /\ \A t, v : InHands(t) # InFlightOf(v) /\ InHands(t) # InWrites(v)
  BY DEF InItem, InHands, InFlightOf, InWrites

\* What it means that a token is at a place.
Located(i, c) ==
  /\ InItem \in Where(i, c) <=> Ahead(item[i], c)
  /\ \A t \in Threads : InHands(t) \in Where(i, c) <=> Carries(at[t], i, c)
  /\ \A w \in Workers : InFlightOf(w) \in Where(i, c) <=> Requested(inflight[w], i, c)
  /\ \A w \in Workers : InWrites(w) \in Where(i, c) <=> Waits(writes[w], i, c)
  /\ \A p \in Where(i, c) : \/ p = InItem
                            \/ \E t \in Threads : p = InHands(t)
                            \/ \E w \in Workers : p = InFlightOf(w) \/ p = InWrites(w)
LEMMA WhereIs ==
  ASSUME NEW i, NEW c
  PROVE  Located(i, c)
<1>1. \A p : p \in Where(i, c) <=> \/ p = InItem /\ Ahead(item[i], c)
                                   \/ \E t \in Threads : p = InHands(t) /\ Carries(at[t], i, c)
                                   \/ \E w \in Workers : p = InFlightOf(w) /\ Requested(inflight[w], i, c)
                                   \/ \E w \in Workers : p = InWrites(w) /\ Waits(writes[w], i, c)
  BY DEF Where
<1>2. InItem \in Where(i, c) <=> Ahead(item[i], c)
  BY <1>1, PlacesApart
<1>3. ASSUME NEW t \in Threads PROVE InHands(t) \in Where(i, c) <=> Carries(at[t], i, c)
  <2>1. \A u, w : InHands(t) # InItem /\ InHands(t) # InFlightOf(w) /\ InHands(t) # InWrites(w)
                  /\ (InHands(t) = InHands(u) <=> t = u)
    BY PlacesApart
  <2>2. InHands(t) \in Where(i, c) <=> \E u \in Threads : InHands(t) = InHands(u) /\ Carries(at[u], i, c)
    BY <1>1, <2>1
  <2> QED
    BY <2>1, <2>2
<1>4. \A w \in Workers : InFlightOf(w) \in Where(i, c) <=> Requested(inflight[w], i, c)
  BY <1>1, PlacesApart
<1>5. \A w \in Workers : InWrites(w) \in Where(i, c) <=> Waits(writes[w], i, c)
  BY <1>1, PlacesApart
<1>6. \A p \in Where(i, c) : \/ p = InItem
                             \/ \E t \in Threads : p = InHands(t)
                             \/ \E w \in Workers : p = InFlightOf(w) \/ p = InWrites(w)
  BY <1>1
<1> QED
  BY <1>2, <1>3, <1>4, <1>5, <1>6 DEF Located

LEMMA WhereWillBe ==
  ASSUME NEW i, NEW c
  PROVE  Located(i, c)'
<1>1. Located(i, c)
  BY WhereIs
<1> QED
  BY <1>1, PTL

\* A step of thread t.
StepOf(t, x) == UNCHANGED plan /\ at' = [at EXCEPT ![t] = x]

LEMMA ThreadsAre ==
  ASSUME TypeOK, NEW t \in Threads, NEW x, StepOf(t, x)
  PROVE  /\ Threads' = Threads /\ at'[t] = x /\ \A u \in Threads : u # t => at'[u] = at[u]
         /\ \A i, ops : Is(i, ops)' <=> \/ x.op \in ops /\ x.task.item = i
                                        \/ \E u \in Threads : u # t /\ at[u].op \in ops /\ at[u].task.item = i
<1>1. Threads' = Threads /\ at'[t] = x /\ \A u \in Threads : u # t => at'[u] = at[u]
  BY SameOffer DEF StepOf, TypeOK
<1> QED
  BY <1>1 DEF Is

\* Where a token is after a step of thread t that leaves the queues alone.
LEMMA WhereThread ==
  ASSUME TypeOK, NEW t \in Threads, NEW x, StepOf(t, x), UNCHANGED <<inflight, writes>>,
         NEW i, NEW c, Ahead(item'[i], c) <=> Ahead(item[i], c)
  PROVE  /\ \A p : p # InHands(t) => (p \in Where(i, c)' <=> p \in Where(i, c))
         /\ InHands(t) \in Where(i, c)' <=> Carries(x, i, c)
<1>1. Located(i, c)
  BY WhereIs
<1>2. Located(i, c)'
  BY WhereWillBe
<1>3. Threads' = Threads /\ Workers' = Workers /\ at'[t] = x /\ \A u \in Threads : u # t => at'[u] = at[u]
  BY ThreadsAre, SameOffer DEF StepOf
<1>4. InHands(t) \in Where(i, c)' <=> Carries(x, i, c)
  BY <1>2, <1>3 DEF Located
<1>5. ASSUME NEW p, p # InHands(t) PROVE p \in Where(i, c)' <=> p \in Where(i, c)
  <2>1. CASE p = InItem
    BY <1>1, <1>2, <2>1 DEF Located
  <2>2. CASE \E u \in Threads : p = InHands(u)
    <3>1. PICK u \in Threads : p = InHands(u) /\ u # t
      BY <1>5, <2>2
    <3> QED
      BY <1>1, <1>2, <1>3, <3>1 DEF Located
  <2>3. CASE \E w \in Workers : p = InFlightOf(w) \/ p = InWrites(w)
    BY <1>1, <1>2, <1>3, <2>3 DEF Located
  <2> QED
    BY <1>1, <1>2, <1>3, <2>1, <2>2, <2>3 DEF Located
<1> QED
  BY <1>4, <1>5

\* Where it is after any step of a worker.
LEMMA WhereWorker ==
  ASSUME TypeOK, NEW t \in Threads, NEW x, StepOf(t, x), NEW w \in Workers, NEW q, NEW r,
         inflight' = [inflight EXCEPT ![w] = q], writes' = [writes EXCEPT ![w] = r], NEW i, NEW c
  PROVE  /\ \A p : p \notin {InItem, InHands(t), InFlightOf(w), InWrites(w)} =>
                     (p \in Where(i, c)' <=> p \in Where(i, c))
         /\ InItem \in Where(i, c)' <=> Ahead(item'[i], c)
         /\ InHands(t) \in Where(i, c)' <=> Carries(x, i, c)
         /\ InFlightOf(w) \in Where(i, c)' <=> Requested(q, i, c)
         /\ InWrites(w) \in Where(i, c)' <=> Waits(r, i, c)
<1>1. Located(i, c)
  BY WhereIs
<1>2. Located(i, c)'
  BY WhereWillBe
<1>3. Threads' = Threads /\ Workers' = Workers /\ at'[t] = x /\ \A u \in Threads : u # t => at'[u] = at[u]
  BY ThreadsAre, SameOffer DEF StepOf
<1>4. /\ inflight'[w] = q /\ \A v \in Workers : v # w => inflight'[v] = inflight[v]
      /\ writes'[w] = r /\ \A v \in Workers : v # w => writes'[v] = writes[v]
  BY DEF TypeOK
<1>5. /\ InItem \in Where(i, c)' <=> Ahead(item'[i], c)
      /\ InHands(t) \in Where(i, c)' <=> Carries(x, i, c)
      /\ InFlightOf(w) \in Where(i, c)' <=> Requested(q, i, c)
      /\ InWrites(w) \in Where(i, c)' <=> Waits(r, i, c)
  BY <1>2, <1>3, <1>4 DEF Located
<1>6. ASSUME NEW p, p \notin {InItem, InHands(t), InFlightOf(w), InWrites(w)}
      PROVE  p \in Where(i, c)' <=> p \in Where(i, c)
  <2>1. CASE \E u \in Threads : p = InHands(u)
    <3>1. PICK u \in Threads : p = InHands(u) /\ u # t
      BY <1>6, <2>1
    <3> QED
      BY <1>1, <1>2, <1>3, <3>1 DEF Located
  <2>2. CASE \E v \in Workers : p = InFlightOf(v)
    <3>1. PICK v \in Workers : p = InFlightOf(v) /\ v # w
      BY <1>6, <2>2
    <3> QED
      BY <1>1, <1>2, <1>3, <1>4, <3>1 DEF Located
  <2>3. CASE \E v \in Workers : p = InWrites(v)
    <3>1. PICK v \in Workers : p = InWrites(v) /\ v # w
      BY <1>6, <2>3
    <3> QED
      BY <1>1, <1>2, <1>3, <1>4, <3>1 DEF Located
  <2> QED
    BY <1>1, <1>2, <1>3, <1>6, <2>1, <2>2, <2>3 DEF Located
<1> QED
  BY <1>5, <1>6

\* The token of a thread that keeps it, or lets it go.
LEMMA ThreadKeeps ==
  ASSUME TypeOK, NEW t \in Threads, NEW x, StepOf(t, x), UNCHANGED <<inflight, writes>>,
         NEW i, NEW c, Ahead(item'[i], c) <=> Ahead(item[i], c), Carries(x, i, c) <=> Carries(at[t], i, c)
  PROVE  Where(i, c)' = Where(i, c)
<1>1. Located(i, c)
  BY WhereIs
<1>2. InHands(t) \in Where(i, c) <=> Carries(at[t], i, c)
  BY <1>1 DEF Located
<1>3. /\ \A p : p # InHands(t) => (p \in Where(i, c)' <=> p \in Where(i, c))
      /\ InHands(t) \in Where(i, c)' <=> Carries(x, i, c)
  BY WhereThread
<1>4. \A p : p \in Where(i, c)' <=> p \in Where(i, c)
  BY <1>2, <1>3
<1>5. Where(i, c)' \subseteq Where(i, c) /\ Where(i, c) \subseteq Where(i, c)'
  BY <1>4
<1> QED
  BY <1>5

LEMMA ThreadDrops ==
  ASSUME TypeOK, NEW t \in Threads, NEW x, StepOf(t, x), UNCHANGED <<inflight, writes>>,
         NEW i, NEW c, Ahead(item'[i], c) <=> Ahead(item[i], c), Single(Where(i, c)),
         Carries(at[t], i, c), ~Carries(x, i, c)
  PROVE  Where(i, c)' = {} /\ Where(i, c) # {}
<1>1. Located(i, c)
  BY WhereIs
<1>2. InHands(t) \in Where(i, c)
  BY <1>1 DEF Located
<1>3. /\ \A p : p # InHands(t) => (p \in Where(i, c)' <=> p \in Where(i, c))
      /\ InHands(t) \notin Where(i, c)'
  BY WhereThread
<1>4. \A p : p \notin Where(i, c)'
  BY <1>2, <1>3 DEF Single
<1> QED
  BY <1>2, <1>4

-----------------------------------------------------------------------------
(* What a step keeps for the others.                                       *)

\* Item i only goes on: what a thread or a queue was told of it stays true.
Grows(i) ==
  /\ item[i].opened => item'[i].opened
  /\ item[i].closed => item'[i].closed
  /\ item[i].restarted => item'[i].restarted
  /\ ~Pending(i) => item'[i].state = item[i].state
  /\ disk'[i].old \subseteq disk[i].old
  /\ disk[i].named \in Good => disk'[i].named \in Good
  /\ Is(i, {"count", "writeMade"}) /\ item[i].file = "open" /\ ~item'[i].closed =>
       item'[i].file = "open" /\ disk[i].has \subseteq disk'[i].has

LEMMA Stands ==
  ASSUME NEW i, item'[i] = item[i], disk'[i] = disk[i]
  PROVE  Grows(i)
  BY DEF Grows, Pending

LEMMA OthersOK ==
  ASSUME IInv, NEW t \in Threads, NEW x, StepOf(t, x), \A i \in Items : Grows(i), NEW u \in Threads, u # t
  PROVE  ThreadOK(at[u])'
<1>1. /\ Items' = Items /\ at'[u] = at[u] /\ \A i : Asks(i)' = Asks(i) /\ Chunks(i)' = Chunks(i)
  BY SameOffer, ThreadsAre DEF StepOf, IInv
<1>2. ThreadOK(at[u])
  BY DEF IInv, ThreadsOK
<1> DEFINE y == at[u]  k == y.task  i == k.item
<1>3. /\ y.op \in Moves => i \in Items /\ k.index \in Asks(i)
      /\ y.op \in Closing => i \in Items
      /\ y.op = "end" => i \in Items /\ \E st \in {"failed", "skipped"} : y.ends = {<<i, st>>}
      /\ y.op \notin Ending => y.ends = {}
      /\ y.op # "names" => y.taken = {}
  BY <1>2 DEF ThreadOK, TaskOf
<1>4. y.op \in {"write", "writeMade", "create"} => Carried(k)'
  <2>1. HAVE y.op \in {"write", "writeMade", "create"}
  <2>2. i \in Items /\ Carried(k)
    BY <1>2, <2>1 DEF ThreadOK, TaskOf, Moves, Carried
  <2>3. Grows(i)
    BY <2>2
  <2> QED
    BY <1>1, <2>2, <2>3 DEF Carried, CarriedOf, Grows
<1>5. y.op = "count" => /\ item'[i].opened
                        /\ ~item'[i].closed => item'[i].file = "open"
                                               /\ (k.index \in Chunks(i) => k.index \in disk'[i].has)
  <2>1. HAVE y.op = "count"
  <2>2. i \in Items /\ Is(i, {"count", "writeMade"})
    BY <1>3, <2>1 DEF Is, Moves
  <2>3. Grows(i)
    BY <2>2
  <2> QED
    BY <1>2, <2>1, <2>2, <2>3 DEF ThreadOK, TaskOf, Grows
<1>10. y.op = "writeMade" /\ ~item'[i].closed => item'[i].file = "open"
  <2>1. HAVE y.op = "writeMade" /\ ~item'[i].closed
  <2>2. i \in Items /\ Is(i, {"count", "writeMade"})
    BY <1>3, <2>1 DEF Is, Moves
  <2>3. Grows(i)
    BY <2>2
  <2> QED
    BY <1>2, <2>1, <2>2, <2>3 DEF ThreadOK, TaskOf, Grows
<1>6. y.op = "finish" /\ ~item'[i].closed => disk'[i].old = {}
  <2>1. HAVE y.op = "finish" /\ ~item'[i].closed
  <2>2. Grows(i)
    BY <1>3, <2>1 DEF Closing
  <2> QED
    BY <1>2, <2>1, <2>2 DEF ThreadOK, TaskOf, Grows
<1>7. y.op = "discard" => item'[i].restarted
  <2>1. HAVE y.op = "discard"
  <2>2. Grows(i)
    BY <1>3, <2>1 DEF Closing
  <2> QED
    BY <1>2, <2>1, <2>2 DEF ThreadOK, TaskOf, Grows
<1>8. ASSUME NEW e \in y.ends PROVE EndOK(y, e)'
  <2>1. EndOK(y, e) /\ e[1] \in Items
    BY <1>2 DEF ThreadOK, TaskOf, EndOK
  <2>2. Grows(e[1])
    BY <2>1
  <2> QED
    BY <1>1, <2>1, <2>2 DEF EndOK, Grows
<1>9. ASSUME NEW j \in y.taken PROVE j \in Items /\ BatchedOK(j)'
  <2>1. BatchedOK(j) /\ j \in Items
    BY <1>2 DEF ThreadOK, TaskOf
  <2>2. Grows(j)
    BY <2>1
  <2> QED
    BY <2>1, <2>2 DEF BatchedOK, Grows
<1> QED
  BY <1>1, <1>3, <1>4, <1>5, <1>6, <1>7, <1>8, <1>9, <1>10 DEF ThreadOK, TaskOf, Carried, CarriedOf

LEMMA InQueueStays ==
  ASSUME UNCHANGED plan, \A i \in Items : Grows(i)
  PROVE  \A k : InQueue(k) => /\ k.item \in Items' /\ k.index \in Index(k.item)' /\ item'[k.item].opened
                              /\ k.index # DigestIndex =>
                                   (~item'[k.item].closed => k.index \notin disk'[k.item].old)
<1>1. SUFFICES ASSUME NEW k, InQueue(k)
               PROVE  /\ k.item \in Items' /\ k.index \in Index(k.item)' /\ item'[k.item].opened
                      /\ k.index # DigestIndex => (~item'[k.item].closed => k.index \notin disk'[k.item].old)
  OBVIOUS
<1>2. k.item \in Items /\ Grows(k.item)
  BY <1>1 DEF InQueue
<1> QED
  BY <1>1, <1>2, SameOffer DEF InQueue, Carried, CarriedOf, Grows

QueueOK(w) ==
  /\ Len(inflight[w]) <= 2
  /\ \A n \in 1 .. Len(inflight[w]) : InQueue(inflight[w][n])
  /\ \A n \in 1 .. Len(writes[w]) : InQueue(writes[w][n].task) /\ writes[w][n].task.index # DigestIndex

LEMMA QueueStays ==
  ASSUME UNCHANGED plan, \A i \in Items : Grows(i), NEW w \in Workers, QueueOK(w),
         inflight'[w] = inflight[w], writes'[w] = writes[w]
  PROVE  QueueOK(w)'
<1>1. \A k : InQueue(k) => /\ k.item \in Items' /\ k.index \in Index(k.item)' /\ item'[k.item].opened
                           /\ k.index # DigestIndex =>
                                (~item'[k.item].closed => k.index \notin disk'[k.item].old)
  BY InQueueStays
<1> QED
  BY <1>1 DEF QueueOK, InQueue, Carried, CarriedOf

\* A call of thread t leaves the queues as they are.
LEMMA QueuesStay ==
  ASSUME IInv, NEW t \in Threads, NEW x, StepOf(t, x), x.op \notin {"read", "prepare"}, UNCHANGED <<inflight, writes>>,
         \A i \in Items : Grows(i)
  PROVE  QueuedOnce' /\ Queues'
<1>1. Workers' = Workers /\ Threads' = Threads /\ at'[t] = x /\ \A u \in Threads : u # t => at'[u] = at[u]
  BY SameOffer, ThreadsAre DEF StepOf, IInv
<1>2. ASSUME NEW w \in Workers PROVE QueueOK(w)'
  <2>1. QueueOK(w)
    BY DEF IInv, Queues, QueueOK
  <2> QED
    BY <2>1, QueueStays DEF StepOf
<1>3. QueuedOnce'
  BY <1>1 DEF IInv, QueuedOnce
<1>4. ASSUME NEW w \in Workers PROVE (at'[Reader(w)].op = "read" => inflight'[w] # <<>>)
                                     /\ (at'[Reader(w)].op = "prepare" => Len(inflight'[w]) < 2)
  <2>1. Reader(w) \in Threads
    BY DEF Threads
  <2> QED
    BY <1>1, <2>1 DEF IInv, Queues
<1> QED
  BY <1>1, <1>2, <1>3, <1>4 DEF Queues, QueueOK

LEMMA BatchStays ==
  ASSUME UNCHANGED plan, BatchOK, batched \subseteq Items, \A i \in Items : Grows(i),
         \A i \in batched' : i \in batched \/ BatchedOK(i)'
  PROVE  BatchOK'
<1>1. ASSUME NEW i \in batched' PROVE BatchedOK(i)'
  <2>1. CASE i \in batched
    <3>1. BatchedOK(i) /\ Grows(i)
      BY <2>1 DEF BatchOK
    <3> QED
      BY <3>1 DEF BatchedOK, Grows
  <2> QED
    BY <1>1, <2>1
<1> QED
  BY <1>1 DEF BatchOK

LEMMA DoneStays ==
  ASSUME UNCHANGED plan, DoneOK, \A i \in Items : Grows(i), UNCHANGED doneSent
  PROVE  DoneOK'
<1>1. Items' = Items
  BY SameOffer
<1>2. \A i \in Items : ~Pending(i) => item'[i].state = item[i].state
  BY DEF Grows
<1> QED
  BY <1>1, <1>2 DEF DoneOK, AllEnded, Pending

-----------------------------------------------------------------------------
(* What a step leaves of the items.                                        *)

\* Whether thread record x has given up item i, or asks it again.
Marked(x, i) == x.op \in {"discard", "askAgain", "end"} /\ x.task.item = i

LEMMA AskedStays ==
  ASSUME UNCHANGED plan, NEW i \in Items, item'[i].next = item[i].next, item'[i].retries = item[i].retries,
         item'[i].digest = item[i].digest, AskedOnce(i)
  PROVE  AskedOnce(i)' /\ \A c : Ahead(item'[i], c) <=> Ahead(item[i], c)
  BY SameOffer DEF AskedOnce, Ahead

LEMMA HandledStays ==
  ASSUME UNCHANGED plan, NEW i \in Items, \A c \in Index(i) : Where(i, c)' = Where(i, c)
  PROVE  Handled(i)' = Handled(i) /\ Where(i, DigestIndex)' = Where(i, DigestIndex)
         /\ \A c \in Asks(i) : Where(i, c)' = Where(i, c)
<1>1. Asks(i)' = Asks(i)
  BY SameOffer
<1>2. Where(i, DigestIndex)' = Where(i, DigestIndex) /\ \A c \in Asks(i) : Where(i, c)' = Where(i, c)
  BY DEF Index
<1> QED
  BY <1>1, <1>2 DEF Handled

LEMMA FilesOK ==
  ASSUME UNCHANGED plan, NEW i, FileOf(i, item'[i], disk'[i]), VerifiedOf(item'[i], disk'[i])
  PROVE  FileOK(i)' /\ Verified(i)'
<1>1. Chunks(i)' = Chunks(i)
  BY SameOffer
<1> QED
  BY <1>1 DEF FileOK, Verified, FileOf, VerifiedOf

\* What the step does not touch.
LEMMA ItemApart ==
  ASSUME IInv, NEW t \in Threads, NEW x, StepOf(t, x), NEW i \in Items, item'[i] = item[i], disk'[i] = disk[i],
         \A c \in Index(i) : Where(i, c)' = Where(i, c),
         Marked(x, i) <=> Marked(at[t], i), Marked(x, i) => x.op = at[t].op,
         i \in batched \/ Cared(at[t], i) => i \in batched' \/ Cared(x, i),
         phase' # "returned" => phase # "returned"
  PROVE  TokensOK(i)' /\ ItemOK(i)'
<1>1. TokensOK(i) /\ ItemOK(i)
  BY DEF IInv
<1>2. TokensOK(i)'
  <2>1. AskedOnce(i)'
    BY <1>1, AskedStays DEF TokensOK, StepOf
  <2>2. Index(i)' = Index(i)
    BY SameOffer DEF StepOf
  <2> QED
    BY <1>1, <2>1, <2>2 DEF TokensOK
<1>3. /\ Threads' = Threads /\ at'[t] = x /\ \A u \in Threads : u # t => at'[u] = at[u]
      /\ \A j, ops : Is(j, ops)' <=> \/ x.op \in ops /\ x.task.item = j
                                     \/ \E u \in Threads : u # t /\ at[u].op \in ops /\ at[u].task.item = j
  BY ThreadsAre DEF IInv
<1>4. /\ Is(i, {"end"})' <=> Is(i, {"end"})
      /\ Is(i, {"askAgain"})' <=> Is(i, {"askAgain"})
      /\ Is(i, {"end", "askAgain"})' <=> Is(i, {"end", "askAgain"})
      /\ Is(i, {"discard", "askAgain", "end"})' <=> Is(i, {"discard", "askAgain", "end"})
  BY <1>3 DEF Is, Marked
<1>5. /\ Handled(i)' = Handled(i) /\ Where(i, DigestIndex)' = Where(i, DigestIndex)
      /\ \A c \in Asks(i) : Where(i, c)' = Where(i, c)
      /\ Asks(i)' = Asks(i) /\ Chunks(i)' = Chunks(i) /\ Target(i)' = Target(i) /\ Chunks(i) \subseteq Asks(i)
  BY HandledStays, SameOffer, Offer DEF StepOf, IInv
<1>6. Counted(i)'
  BY <1>1, <1>4, <1>5 DEF ItemOK, Counted
<1>7. FileOK(i)' /\ Verified(i)'
  BY <1>1, FilesOK DEF ItemOK, FileOK, Verified, StepOf
<1>8. Stored(i)'
  BY <1>1, <1>4, <1>5 DEF ItemOK, Stored
<1>9. Told(i)'
  <2>1. (\E u \in Threads : Cared(at[u], i)) => i \in batched' \/ \E u \in Threads : Cared(at'[u], i)
    BY <1>3
  <2>2. i \in batched => i \in batched' \/ \E u \in Threads : Cared(at'[u], i)
    BY <1>3
  <2> QED
    BY <1>1, <1>3, <2>1, <2>2 DEF ItemOK, Told, Pending, Cared
<1> QED
  BY <1>2, <1>6, <1>7, <1>8, <1>9 DEF ItemOK

-----------------------------------------------------------------------------
(* A call of a thread, about one item.                                     *)

\* Thread t goes on with x, item i with s and, on disk, d.
CallOf(t, x, i, s, d) ==
  /\ StepOf(t, x) /\ item' = [item EXCEPT ![i] = s] /\ disk' = [disk EXCEPT ![i] = d]
  /\ UNCHANGED <<inflight, writes, conn, control, phase, doneSent, room, acts>>
  /\ x \in Thread /\ s \in Item /\ d \in Disk
  /\ batched' \subseteq Items /\ marked' \in {"no", "ok"} /\ faults' \in Nat
  /\ at[t].op # "idle" /\ x.op \notin {"read", "prepare"}

\* What x does about an item is about i.
Own(x, i) == x.op \in Moves \cup Closing \cup {"end"} => x.task.item = i

LEMMA CallTypes ==
  ASSUME TypeOK, NEW t \in Threads, NEW x, NEW i \in Items, NEW s, NEW d, CallOf(t, x, i, s, d)
  PROVE  /\ TypeOK'
         /\ item'[i] = s /\ disk'[i] = d /\ at'[t] = x
         /\ \A j \in Items : j # i => item'[j] = item[j] /\ disk'[j] = disk[j]
<1>1. Items' = Items /\ Workers' = Workers /\ Threads' = Threads
  BY SameOffer DEF CallOf, StepOf
<1>2. item' \in [Items -> Item] /\ disk' \in [Items -> Disk] /\ at' \in [Threads -> Thread]
  BY DEF CallOf, StepOf, TypeOK
<1>3. item'[i] = s /\ disk'[i] = d /\ at'[t] = x /\ \A j \in Items : j # i => item'[j] = item[j] /\ disk'[j] = disk[j]
  BY DEF CallOf, StepOf, TypeOK
<1>4. TypeOK'
  BY <1>1, <1>2 DEF CallOf, StepOf, TypeOK, control
<1> QED
  BY <1>3, <1>4

\* What is left to show of one: that it does right by its own item.
LEMMA CallKeeps ==
  ASSUME IInv, NEW t \in Threads, NEW x, NEW i \in Items, NEW s, NEW d, CallOf(t, x, i, s, d),
         Own(at[t], i), Own(x, i),
         \A j \in Items : j # i /\ (j \in batched \/ Cared(at[t], j)) => j \in batched' \/ Cared(x, j),
         \A j \in batched' : j \in batched \/ BatchedOK(j)',
         Grows(i), ThreadOK(at[t])', TokensOK(i)', ItemOK(i)'
  PROVE  IInv'
<1>1. /\ TypeOK' /\ item'[i] = s /\ disk'[i] = d /\ at'[t] = x
      /\ \A j \in Items : j # i => item'[j] = item[j] /\ disk'[j] = disk[j]
  BY CallTypes DEF IInv
<1>2. Items' = Items /\ Threads' = Threads
  BY SameOffer DEF CallOf, StepOf
<1>3. \A j \in Items : Grows(j)
  BY <1>1, Stands
<1>4. QueuedOnce' /\ Queues'
  BY <1>3, QueuesStay DEF CallOf
<1>5. ThreadsOK'
  <2>1. \A u \in Threads : u # t => ThreadOK(at[u])'
    BY <1>3, OthersOK DEF CallOf
  <2>2. phase' = "runs" => at'[Main] = Idle
    <3>1. phase = "runs" => at[Main] = Idle
      BY DEF IInv, ThreadsOK
    <3>2. at[Main] = Idle => t # Main
      BY DEF CallOf, Idle
    <3>3. t # Main => at'[Main] = at[Main]
      BY ThreadsAre DEF IInv, CallOf, Threads
    <3> QED
      BY <3>1, <3>2, <3>3 DEF CallOf
  <2> QED
    BY <1>2, <2>1, <2>2 DEF ThreadsOK
<1>6. BatchOK' /\ DoneOK'
  BY <1>3, BatchStays, DoneStays DEF IInv, CallOf, StepOf, TypeOK
<1>7. ASSUME NEW j \in Items, j # i PROVE TokensOK(j)' /\ ItemOK(j)'
  <2>1. \A c : Carries(x, j, c) <=> Carries(at[t], j, c)
    BY <1>7 DEF Own, Carries
  <2>2. \A c : Where(j, c)' = Where(j, c)
    BY <1>1, <1>7, <2>1, ThreadKeeps DEF CallOf, IInv
  <2>3. ~Marked(x, j) /\ ~Marked(at[t], j)
    BY <1>7 DEF Own, Marked, Closing
  <2> QED
    BY <1>1, <1>7, <2>2, <2>3, ItemApart DEF CallOf
<1> QED
  BY <1>1, <1>2, <1>4, <1>5, <1>6, <1>7 DEF IInv

LEMMA Fewer ==
  ASSUME NEW n \in Nat, NEW a, NEW b \in SUBSET a, IsFiniteSet(a), Cardinality(a) = n
  PROVE  IsFiniteSet(b) /\ Cardinality(b) \in Nat /\ Cardinality(b) <= n /\ (Cardinality(b) = n <=> b = a)
  BY FS_Subset, FS_CardinalityType

\* The chunks at no place: finitely many.
LEMMA HandledIs ==
  ASSUME TypeOK, NEW i \in Items
  PROVE  /\ IsFiniteSet(Handled(i)) /\ Cardinality(Handled(i)) \in Nat /\ Cardinality(Handled(i)) <= Target(i)
         /\ Cardinality(Handled(i)) = Target(i) <=> Handled(i) = Asks(i)
<1>1. Handled(i) \in SUBSET Asks(i)
  BY DEF Handled
<1>2. IsFiniteSet(Asks(i)) /\ Cardinality(Asks(i)) = Target(i) /\ Target(i) \in Nat
  BY Offer
<1> QED
  BY <1>1, <1>2, Fewer

\* The item goes on as it was: its tokens stay, but for one the thread may let go
\* of when it closes the item or gives it up.
Lets(t, x, i, s, d) ==
  /\ s.next = item[i].next /\ s.retries = item[i].retries /\ s.digest = item[i].digest
  /\ s.processed = item[i].processed /\ s.state = item[i].state
  /\ item[i].closed => s.closed
  /\ at[t].op # "askAgain" /\ x.op # "askAgain"
  /\ at[t].op \in {"end", "discard"} => s.closed
  /\ \A c : Carries(x, i, c) => Carries(at[t], i, c)
  /\ (\E c : Carries(at[t], i, c) /\ ~Carries(x, i, c)) => s.closed \/ x.op = "end"
  /\ ~s.closed /\ item[i].file # "none" => disk[i].has \subseteq d.has /\ s.file # "none"
  /\ s.closed => item[i].closed \/ i \in batched' \/ Cared(x, i)
  /\ i \in batched \/ Cared(at[t], i) => i \in batched' \/ Cared(x, i)

LEMMA ItemGoesOn ==
  ASSUME IInv, NEW t \in Threads, NEW x, NEW i \in Items, NEW s, NEW d, CallOf(t, x, i, s, d), Own(x, i),
         Lets(t, x, i, s, d)
  PROVE  TokensOK(i)' /\ Counted(i)' /\ Stored(i)' /\ Told(i)'
<1>1. /\ TypeOK /\ TypeOK' /\ item'[i] = s /\ disk'[i] = d /\ at'[t] = x
      /\ UNCHANGED plan /\ TokensOK(i) /\ Counted(i) /\ Stored(i) /\ Told(i)
  <2>1. TypeOK /\ TokensOK(i) /\ Counted(i) /\ Stored(i) /\ Told(i)
    BY DEF IInv, ItemOK
  <2>2. UNCHANGED plan
    BY DEF CallOf, StepOf
  <2> QED
    BY <2>1, <2>2, CallTypes
<1>2. /\ Items' = Items /\ Threads' = Threads /\ Asks(i)' = Asks(i) /\ Chunks(i)' = Chunks(i)
      /\ Target(i)' = Target(i) /\ Index(i)' = Index(i) /\ Chunks(i) \subseteq Asks(i)
  BY <1>1, SameOffer, Offer
<1>3. AskedOnce(i)' /\ \A c : Ahead(item'[i], c) <=> Ahead(item[i], c)
  BY <1>1, AskedStays DEF Lets, TokensOK
<1>4. \A c : /\ \A p : p # InHands(t) => (p \in Where(i, c)' <=> p \in Where(i, c))
             /\ InHands(t) \in Where(i, c)' <=> Carries(x, i, c)
  BY <1>3, WhereThread DEF CallOf, IInv
<1>5. \A c : InHands(t) \in Where(i, c) <=> Carries(at[t], i, c)
  BY WhereIs DEF Located
<1>6. \A c : Where(i, c)' \subseteq Where(i, c)
  BY <1>4, <1>5 DEF Lets
<1>7. ~s.closed /\ x.op # "end" => \A c : Where(i, c)' = Where(i, c)
  <2>1. HAVE ~s.closed /\ x.op # "end"
  <2>2. \A c : Carries(x, i, c) <=> Carries(at[t], i, c)
    BY <2>1 DEF Lets
  <2>3. \A c : Where(i, c) \subseteq Where(i, c)'
    BY <1>4, <1>5, <2>2
  <2> QED
    BY <1>6, <2>3
<1>8. \A j, ops : Is(j, ops)' <=> \/ x.op \in ops /\ x.task.item = j
                                  \/ \E u \in Threads : u # t /\ at[u].op \in ops /\ at[u].task.item = j
  BY ThreadsAre DEF CallOf, IInv
<1>9. /\ Is(i, {"askAgain"})' <=> Is(i, {"askAgain"})
      /\ Is(i, {"end"}) => Is(i, {"end"})' \/ s.closed
      /\ Is(i, {"end", "askAgain"}) => Is(i, {"end", "askAgain"})' \/ s.closed
      /\ Is(i, {"discard", "askAgain", "end"}) => Is(i, {"discard", "askAgain", "end"})' \/ s.closed
      /\ x.op = "end" => /\ Is(i, {"end"})' /\ Is(i, {"end", "askAgain"})'
                         /\ Is(i, {"discard", "askAgain", "end"})'
  <2>1. at[t].op # "askAgain" /\ x.op # "askAgain" /\ (at[t].op \in {"end", "discard"} => s.closed)
    BY DEF Lets
  <2>2. Is(i, {"askAgain"})' <=> Is(i, {"askAgain"})
    <3>1. Is(i, {"askAgain"}) <=> \E u \in Threads : u # t /\ at[u].op \in {"askAgain"} /\ at[u].task.item = i
      BY <2>1 DEF Is
    <3> QED
      BY <1>8, <2>1, <3>1
  <2>3. ASSUME NEW ops \in {{"end"}, {"end", "askAgain"}, {"discard", "askAgain", "end"}}, Is(i, ops)
        PROVE  Is(i, ops)' \/ s.closed
    <3>1. PICK u \in Threads : at[u].op \in ops /\ at[u].task.item = i
      BY <2>3 DEF Is
    <3>2. CASE u = t
      BY <2>1, <3>1, <3>2
    <3> QED
      BY <1>8, <3>1, <3>2
  <2>4. x.op = "end" => x.task.item = i
    BY DEF Own
  <2> QED
    BY <1>8, <2>2, <2>3, <2>4
<1>10. TokensOK(i)'
  BY <1>1, <1>2, <1>3, <1>6 DEF TokensOK, Single
<1>11. Counted(i)'
  <2>1. Handled(i) \subseteq Handled(i)' /\ Handled(i)' \subseteq Asks(i)
    BY <1>2, <1>6 DEF Handled
  <2>2. /\ IsFiniteSet(Handled(i)') /\ Cardinality(Handled(i)') \in Nat /\ Cardinality(Handled(i)) \in Nat
        /\ Cardinality(Handled(i)) <= Cardinality(Handled(i)')
    <3>2. IsFiniteSet(Asks(i)) /\ Cardinality(Asks(i)) = Target(i) /\ Target(i) \in Nat
      BY <1>1, Offer
    <3>3. IsFiniteSet(Handled(i)') /\ Cardinality(Handled(i)') \in Nat
      BY <2>1, <3>2, Fewer
    <3> QED
      BY <2>1, <3>3, Fewer
  <2>3. s.processed \in Nat /\ item[i].processed \in Nat /\ s.processed = item[i].processed
    BY <1>1 DEF Lets, CallOf, Item, TypeOK
  <2>4. s.processed <= Cardinality(Handled(i)')
    BY <1>1, <2>2, <2>3 DEF Counted
  <2>5. ~s.closed /\ ~Is(i, {"end", "askAgain"})' => s.processed = Cardinality(Handled(i)')
    <3>1. HAVE ~s.closed /\ ~Is(i, {"end", "askAgain"})'
    <3>2. ~item[i].closed /\ ~Is(i, {"end", "askAgain"}) /\ x.op # "end"
      BY <1>9, <3>1 DEF Lets
    <3>3. Handled(i)' = Handled(i)
      BY <1>2, <1>7, <3>1, <3>2 DEF Handled
    <3> QED
      BY <1>1, <2>3, <3>2, <3>3 DEF Counted
  <2>6. Where(i, DigestIndex)' # {} => /\ Handled(i)' = Asks(i)
                                       /\ s.processed = Target(i) \/ Is(i, {"askAgain"})'
    BY <1>1, <1>6, <1>9, <2>1, <2>3 DEF Counted
  <2>7. ~s.closed /\ ~Is(i, {"end"})' /\ s.processed = Target(i) => Where(i, DigestIndex)' # {}
    BY <1>1, <1>7, <1>9, <2>3 DEF Counted, Lets
  <2> QED
    BY <1>1, <1>2, <1>9, <2>3, <2>4, <2>5, <2>6, <2>7 DEF Counted
<1>12. Stored(i)'
  <2>1. SUFFICES ASSUME ~s.closed, ~Is(i, {"discard", "askAgain", "end"})', NEW c \in Chunks(i)
                 PROVE  Where(i, c)' # {} \/ (s.file # "none" /\ c \in d.has)
    BY <1>1, <1>2 DEF Stored
  <2>2. ~item[i].closed /\ ~Is(i, {"discard", "askAgain", "end"}) /\ Where(i, c)' = Where(i, c)
    BY <1>7, <1>9, <2>1 DEF Lets
  <2> QED
    BY <1>1, <2>1, <2>2 DEF Stored, Lets
<1>13. Told(i)'
  <2>1. \A u \in Threads : u # t => at'[u] = at[u]
    BY ThreadsAre DEF CallOf, IInv
  <2>2. (\E u \in Threads : Cared(at[u], i)) => i \in batched' \/ \E u \in Threads : Cared(at'[u], i)
    BY <1>1, <2>1 DEF Lets
  <2>3. i \in batched => i \in batched' \/ \E u \in Threads : Cared(at'[u], i)
    BY <1>1 DEF Lets
  <2>4. s.closed => item[i].closed \/ i \in batched' \/ \E u \in Threads : Cared(at'[u], i)
    BY <1>1 DEF Lets
  <2>5. s.state = item[i].state /\ (item[i].closed => s.closed) /\ UNCHANGED phase
    BY DEF Lets, CallOf
  <2> QED
    BY <1>1, <1>2, <2>2, <2>3, <2>4, <2>5 DEF Told, Pending, Cared
<1> QED
  BY <1>10, <1>11, <1>12, <1>13

\* What a call does about the files of its item is right.
Fits(i, s, d) ==
  /\ item[i].opened => s.opened
  /\ item[i].restarted => s.restarted
  /\ d.old \subseteq disk[i].old
  /\ disk[i].named \in Good => d.named \in Good
  /\ ~s.closed /\ item[i].file = "open" => s.file = "open" /\ disk[i].has \subseteq d.has

LEMMA CallGoesOn ==
  ASSUME IInv, NEW t \in Threads, NEW x, NEW i \in Items, NEW s, NEW d, CallOf(t, x, i, s, d),
         Own(at[t], i), Own(x, i), Lets(t, x, i, s, d), Fits(i, s, d),
         \A j \in Items : j # i /\ (j \in batched \/ Cared(at[t], j)) => j \in batched' \/ Cared(x, j),
         \A j \in batched' : j \in batched \/ BatchedOK(j)',
         ThreadOK(at[t])', FileOf(i, s, d), VerifiedOf(s, d)
  PROVE  IInv'
<1>1. TokensOK(i)' /\ Counted(i)' /\ Stored(i)' /\ Told(i)'
  BY ItemGoesOn
<1>2. item'[i] = s /\ disk'[i] = d
  BY CallTypes DEF IInv
<1>3. ItemOK(i)'
  <2>1. UNCHANGED plan
    BY DEF CallOf, StepOf
  <2>2. FileOK(i)' /\ Verified(i)'
    BY <1>2, <2>1, FilesOK
  <2> QED
    BY <1>1, <2>2 DEF ItemOK
<1>4. Grows(i)
  BY <1>2 DEF Grows, Fits, Lets
<1> QED
  BY <1>1, <1>3, <1>4, CallKeeps

EndsWith(i, state) == [Idle EXCEPT !.op = "end", !.task.item = i, !.ends = {<<i, state>>}]
MarksWith(i, state) == [Idle EXCEPT !.op = "mark", !.ends = {<<i, state>>}]
StepsTo(y, op) == [y EXCEPT !.op = op]

LEMMA ThreadTypes ==
  ASSUME TypeOK
  PROVE  /\ Idle \in Thread /\ Idle.op = "idle" /\ Idle.ends = {} /\ Idle.taken = {}
         /\ \A y \in Thread : \A op \in Ops :
              /\ StepsTo(y, op) \in Thread /\ StepsTo(y, op).op = op /\ StepsTo(y, op).task = y.task
              /\ StepsTo(y, op).ends = y.ends /\ StepsTo(y, op).taken = y.taken
         /\ \A i \in Items : \A state \in Outcomes :
              /\ EndsWith(i, state) \in Thread /\ EndsWith(i, state).op = "end"
              /\ EndsWith(i, state).task.item = i
              /\ EndsWith(i, state).ends = {<<i, state>>} /\ EndsWith(i, state).taken = {}
              /\ MarksWith(i, state) \in Thread /\ MarksWith(i, state).op = "mark"
              /\ MarksWith(i, state).ends = {<<i, state>>} /\ MarksWith(i, state).taken = {}
<1>1. Items \subseteq Nat
  BY Offer
<1>2. NoTask \in Task /\ \A i \in Items : [NoTask EXCEPT !.item = i] \in Task /\ [NoTask EXCEPT !.item = i].item = i
  BY <1>1 DEF NoTask, Task
<1>3. Idle \in Thread /\ Idle.op = "idle" /\ Idle.ends = {} /\ Idle.taken = {} /\ Idle.task = NoTask
  BY <1>2 DEF Idle, Thread, Ops
<1>4. ASSUME NEW y \in Thread, NEW op \in Ops
      PROVE  /\ StepsTo(y, op) \in Thread /\ StepsTo(y, op).op = op /\ StepsTo(y, op).task = y.task
             /\ StepsTo(y, op).ends = y.ends /\ StepsTo(y, op).taken = y.taken
  BY DEF StepsTo, Thread
<1>5. ASSUME NEW i \in Items, NEW state \in Outcomes
      PROVE  /\ EndsWith(i, state) \in Thread /\ EndsWith(i, state).op = "end"
             /\ EndsWith(i, state).task.item = i
             /\ EndsWith(i, state).ends = {<<i, state>>} /\ EndsWith(i, state).taken = {}
             /\ MarksWith(i, state) \in Thread /\ MarksWith(i, state).op = "mark"
             /\ MarksWith(i, state).ends = {<<i, state>>} /\ MarksWith(i, state).taken = {}
  <2>1. {<<i, state>>} \in SUBSET (Nat \X Outcomes)
    BY <1>1
  <2>2. ASSUME NEW e \in SUBSET (Nat \X Outcomes)
        PROVE  LET x == [Idle EXCEPT !.op = "mark", !.ends = e] IN
               x \in Thread /\ x.op = "mark" /\ x.ends = e /\ x.taken = {}
    BY <1>3 DEF Thread, Ops, Ending
  <2>3. ASSUME NEW e \in SUBSET (Nat \X Outcomes)
        PROVE  LET x == [Idle EXCEPT !.op = "end", !.task.item = i, !.ends = e] IN
               x \in Thread /\ x.op = "end" /\ x.task.item = i /\ x.ends = e /\ x.taken = {}
    <3> DEFINE k == [NoTask EXCEPT !.item = i]
    <3>1. k \in Task /\ k.item = i
      BY <1>2
    <3>2. [Idle EXCEPT !.op = "end", !.task.item = i, !.ends = e] = [Idle EXCEPT !.op = "end", !.task = k, !.ends = e]
      BY <1>3
    <3> HIDE DEF k
    <3> QED
      BY <1>3, <3>1, <3>2 DEF Thread, Ops, Ending
  <2> QED
    BY <2>1, <2>2, <2>3 DEF EndsWith, MarksWith
<1> QED
  BY <1>3, <1>4, <1>5

\* A thread that has nothing to end, and whose call is about an item.
LEMMA ThreadFits ==
  ASSUME UNCHANGED plan, NEW t, NEW x, at'[t] = x, x.ends = {}, x.taken = {}, x.op # "end",
         TaskOf(x, item'[x.task.item], disk'[x.task.item])
  PROVE  ThreadOK(at[t])'
<1>1. Items' = Items /\ \A i : Asks(i)' = Asks(i) /\ Chunks(i)' = Chunks(i)
  BY SameOffer
<1>2. TaskOf(at[t], item[at[t].task.item], disk[at[t].task.item])'
  BY <1>1 DEF TaskOf, CarriedOf
<1> QED
  BY <1>2 DEF ThreadOK, TaskOf

LEMMA IdleOK ==
  ASSUME TypeOK, NEW t \in Threads, at'[t] = Idle
  PROVE  ThreadOK(at[t])'
<1>1. Idle.op = "idle" /\ Idle.ends = {} /\ Idle.taken = {}
  BY ThreadTypes
<1> QED
  BY <1>1 DEF ThreadOK, TaskOf, Moves, Closing, Ending

LEMMA EndsOK ==
  ASSUME TypeOK, UNCHANGED plan, NEW t \in Threads, NEW i \in Items, NEW state \in {"failed", "skipped"},
         at'[t] = EndsWith(i, state)
  PROVE  ThreadOK(at[t])'
<1> DEFINE x == EndsWith(i, state)
<1>1. /\ x.op = "end" /\ x.task.item = i /\ x.ends = {<<i, state>>} /\ x.taken = {} /\ Items' = Items
  BY ThreadTypes, SameOffer DEF Outcomes
<1>2. \A e \in x.ends : EndOK(x, e)'
  BY <1>1 DEF EndOK
<1> HIDE DEF x
<1>3. at'[t] = x
  BY DEF x
<1>4. \A e \in at'[t].ends : EndOK(at[t], e)'
  BY <1>2, <1>3 DEF EndOK
<1> QED
  BY <1>1, <1>3, <1>4 DEF ThreadOK, TaskOf, Moves, Closing, Ending

\* The thread's call is about i, and the thread has nothing to end.
LEMMA HasNoEnds ==
  ASSUME IInv, NEW t \in Threads, at[t].op \in Moves \cup Closing
  PROVE  /\ at[t] \in Thread /\ at[t].task.item \in Items /\ at[t].ends = {} /\ at[t].taken = {}
         /\ \A j : ~Cared(at[t], j)
         /\ at[t].op # "idle" /\ ThreadOK(at[t])
<1>1. ThreadOK(at[t]) /\ at[t] \in Thread
  BY DEF IInv, ThreadsOK, TypeOK
<1>2. at[t].op \notin Ending /\ at[t].op # "names" /\ at[t].op # "idle"
  BY DEF Moves, Closing, Ending
<1>3. at[t].ends = {} /\ at[t].taken = {} /\ at[t].task.item \in Items
  BY <1>1, <1>2 DEF ThreadOK, TaskOf
<1> QED
  BY <1>1, <1>2, <1>3 DEF Cared

\* A call that leaves the items as they are.
Rests(t, x) ==
  /\ StepOf(t, x) /\ UNCHANGED <<item, disk, inflight, writes, conn, control, phase, doneSent, room, acts, batched>>
  /\ marked' \in {"no", "ok"} /\ faults' \in Nat /\ at[t].op \in (Moves \cup Closing) \ {"askAgain"}
  /\ at[t].op = "discard" => item[at[t].task.item].closed

LEMMA CallRests ==
  ASSUME IInv, NEW t \in Threads, NEW x \in Thread, NEW i \in Items, at[t].task.item = i, Rests(t, x),
         x.op \notin {"read", "prepare", "askAgain"}, Own(x, i),
         \A c : Carries(x, i, c) => Carries(at[t], i, c),
         (\E c : Carries(at[t], i, c) /\ ~Carries(x, i, c)) => item[i].closed \/ x.op = "end",
         ThreadOK(at[t])'
  PROVE  IInv'
<1> DEFINE s == item[i]  d == disk[i]
<1>1. s \in Item /\ d \in Disk /\ item' = [item EXCEPT ![i] = s] /\ disk' = [disk EXCEPT ![i] = d]
  BY DEF IInv, TypeOK, Rests
<1>2. at[t].op # "idle" /\ at[t].op \in Moves \cup Closing /\ \A j : ~Cared(at[t], j)
  BY HasNoEnds DEF Rests
<1>3. CallOf(t, x, i, s, d)
  BY <1>1, <1>2 DEF CallOf, Rests, IInv, TypeOK
<1>4. at[t].op # "end"
  BY <1>2 DEF Moves, Closing
<1>5. Lets(t, x, i, s, d)
  BY <1>2, <1>4 DEF Lets, Rests
<1>6. Fits(i, s, d) /\ Own(at[t], i)
  BY DEF Fits, Own
<1>7. FileOf(i, s, d) /\ VerifiedOf(s, d)
  BY DEF IInv, ItemOK, FileOK, Verified
<1>8. UNCHANGED batched
  BY DEF Rests
<1> HIDE DEF s, d
<1> QED
  BY <1>2, <1>3, <1>5, <1>6, <1>7, <1>8, CallGoesOn

\* The item is closed: the call returns.
LEMMA CallReturns ==
  ASSUME IInv, NEW t \in Threads, Rests(t, Idle), item[at[t].task.item].closed
  PROVE  IInv'
<1> DEFINE i == at[t].task.item
<1>1. i \in Items
  BY HasNoEnds DEF Rests
<1>2. Idle \in Thread /\ Idle.op = "idle"
  BY ThreadTypes DEF IInv
<1>3. ThreadOK(at[t])'
  BY ThreadsAre, IdleOK DEF IInv, Rests
<1>4. Own(Idle, i) /\ \A c : ~Carries(Idle, i, c)
  BY <1>2 DEF Own, Carries, Moves, Closing
<1> QED
  BY <1>1, <1>2, <1>3, <1>4, CallRests

\* The call fails its item.
LEMMA CallFails ==
  ASSUME IInv, NEW t \in Threads, NEW i, i = at[t].task.item, Rests(t, EndsWith(i, "failed"))
  PROVE  IInv'
<1> DEFINE x == EndsWith(i, "failed")
<1>1. i \in Items
  BY HasNoEnds DEF Rests
<1>2. x \in Thread /\ x.op = "end" /\ x.task.item = i
  BY <1>1, ThreadTypes DEF IInv, Outcomes
<1>3. ThreadOK(at[t])'
  <2>1. TypeOK /\ UNCHANGED plan /\ StepOf(t, EndsWith(i, "failed"))
    BY DEF IInv, Rests, StepOf
  <2>2. at'[t] = EndsWith(i, "failed")
    BY <2>1, ThreadsAre
  <2> QED
    BY <1>1, <2>1, <2>2, EndsOK
<1> HIDE DEF x
<1>4. Own(x, i) /\ \A c : ~Carries(x, i, c)
  BY <1>2 DEF Own, Carries, Moves, Closing
<1>5. Rests(t, x)
  BY DEF x
<1> QED
  BY <1>1, <1>2, <1>3, <1>4, <1>5, CallRests

\* The call goes on, with the same token.
Alike(a, b) == {a, b} \subseteq Moves \/ {a, b} \subseteq Closing
LEMMA CallSteps ==
  ASSUME IInv, NEW t \in Threads, NEW op, Alike(at[t].op, op), op \notin {"prepare", "askAgain"},
         Rests(t, StepsTo(at[t], op)), NEW i, i = at[t].task.item, TaskOf(StepsTo(at[t], op), item[i], disk[i])
  PROVE  IInv'
<1> DEFINE x == StepsTo(at[t], op)
<1>1. i \in Items /\ at[t] \in Thread /\ at[t].ends = {} /\ at[t].taken = {}
  BY HasNoEnds DEF Rests
<1>2. op \in Ops /\ op # "read" /\ op # "end"
  BY DEF Alike, Moves, Closing, Ops
<1>3. x \in Thread /\ x.op = op /\ x.task = at[t].task /\ x.ends = {} /\ x.taken = {}
  BY <1>1, <1>2, ThreadTypes DEF IInv
<1>4. ThreadOK(at[t])'
  <2>1. StepOf(t, x) /\ UNCHANGED <<plan, item, disk>> /\ TypeOK
    BY DEF Rests, StepOf, IInv
  <2>2. at'[t] = x
    BY <2>1, ThreadsAre
  <2> QED
    BY <1>2, <1>3, <2>1, <2>2, ThreadFits
<1> HIDE DEF x
<1>5. Own(x, i) /\ \A c : Carries(x, i, c) <=> Carries(at[t], i, c)
  BY <1>3 DEF Own, Carries, Alike, Moves, Closing
<1>6. Rests(t, x)
  BY DEF x
<1> QED
  BY <1>1, <1>2, <1>3, <1>4, <1>5, <1>6, CallRests

\* The same, with a change of the item and its files.
LEMMA CallStepsOn ==
  ASSUME IInv, NEW t \in Threads, NEW op, Alike(at[t].op, op), at[t].op \notin {"discard", "askAgain"},
         op \notin {"prepare", "askAgain"}, NEW i, i = at[t].task.item, NEW s, NEW d,
         CallOf(t, StepsTo(at[t], op), i, s, d), UNCHANGED batched,
         s.next = item[i].next, s.retries = item[i].retries, s.digest = item[i].digest,
         s.processed = item[i].processed, s.state = item[i].state, s.closed = item[i].closed,
         ~s.closed /\ item[i].file # "none" => disk[i].has \subseteq d.has /\ s.file # "none",
         Fits(i, s, d), TaskOf(StepsTo(at[t], op), s, d), FileOf(i, s, d), VerifiedOf(s, d)
  PROVE  IInv'
<1> DEFINE x == StepsTo(at[t], op)
<1>1. /\ i \in Items /\ at[t] \in Thread /\ at[t].ends = {} /\ at[t].taken = {} /\ \A j : ~Cared(at[t], j)
      /\ at[t].op \in Moves \cup Closing
  BY HasNoEnds DEF Alike
<1>2. op \in Ops /\ op # "read" /\ op # "end" /\ at[t].op # "end"
  BY DEF Alike, Moves, Closing, Ops
<1>3. x \in Thread /\ x.op = op /\ x.task = at[t].task /\ x.ends = {} /\ x.taken = {}
  BY <1>1, <1>2, ThreadTypes DEF IInv
<1> HIDE DEF x
<1>4. Own(at[t], i) /\ Own(x, i) /\ \A c : Carries(x, i, c) <=> Carries(at[t], i, c)
  BY <1>3 DEF Own, Carries, Alike, Moves, Closing
<1>5. CallOf(t, x, i, s, d)
  BY DEF x
<1>6. item'[i] = s /\ disk'[i] = d /\ at'[t] = x /\ UNCHANGED plan
  <2>1. TypeOK /\ UNCHANGED plan
    BY <1>5 DEF IInv, CallOf, StepOf
  <2> QED
    BY <1>1, <1>5, <2>1, CallTypes
<1>7. Lets(t, x, i, s, d)
  BY <1>1, <1>2, <1>3, <1>4 DEF Lets
<1>8. ThreadOK(at[t])'
  BY <1>2, <1>3, <1>6, ThreadFits DEF x
<1> QED
  BY <1>1, <1>4, <1>5, <1>7, <1>8, CallGoesOn

LEMMA Shapes ==
  ASSUME UNCHANGED plan, NEW t
  PROVE  /\ Returns(t) => StepOf(t, Idle)
         /\ \A op : Step(t, op) => StepOf(t, StepsTo(at[t], op))
         /\ \A i, state : Ends(t, i, state) => StepOf(t, EndsWith(i, state))
         /\ \A i, state : Marks(t, i, state) => StepOf(t, MarksWith(i, state))
  BY DEF Returns, Step, Ends, Marks, StepOf, StepsTo, EndsWith, MarksWith

\* Without a full disk the disk has room, and what was asked for is of this attempt.
LEMMA HasRoom ==
  ASSUME TypeOK
  PROVE  room = TRUE /\ marked # "full" /\ (\A k \in Task : k.item \in Items => Current(k))
         /\ \A t \in Threads : at[t].task \in Task
  BY DEF TypeOK, Current, Task, Item, Thread

LEMMA FaultsType ==
  ASSUME TypeOK, (\E kind : Fault(kind)) \/ UNCHANGED faults
  PROVE  faults' \in Nat
  BY DEF TypeOK, Fault

LEMMA StoreKeeps ==
  ASSUME IInv, NEW t \in Threads, at[t].op \in {"write", "writeMade"}, NEW k, k = at[t].task,
         item[k.item].file # "none", ~item[k.item].closed, StoreChunk(t, k),
         UNCHANGED <<control, net, batched, ending, room, acts, plan>>
  PROVE  IInv'
<1> DEFINE i == k.item  c == k.index
           new == c \in Chunks(i) /\ c \notin disk[i].has
           noted == [disk[i] EXCEPT !.has = @ \cup {c}]
<1>1. /\ i \in Items /\ at[t] \in Thread /\ at[t].ends = {} /\ at[t].taken = {} /\ \A j : ~Cared(at[t], j)
      /\ at[t].op \in Moves /\ ThreadOK(at[t])
  BY HasNoEnds DEF Moves
<1>2. room = TRUE /\ TypeOK /\ UNCHANGED <<inflight, writes, conn, control, phase, doneSent, room, acts, batched, marked, plan>>
  BY HasRoom DEF IInv, net, ending
<1>3. CASE new /\ Fault("write") /\ Ends(t, i, "failed") /\ UNCHANGED <<item, disk>>
  <2>1. StepOf(t, EndsWith(i, "failed")) /\ faults' \in Nat
    BY <1>2, <1>3, Shapes, FaultsType
  <2>2. Rests(t, EndsWith(i, "failed"))
    BY <1>1, <1>2, <1>3, <2>1 DEF Rests, TypeOK, Moves
  <2> QED
    BY <2>2, CallFails
<1>4. CASE /\ item' = [item EXCEPT ![i].fresh = @ \cup ({c} \cap Chunks(i))]
           /\ IF new THEN \E durable \in {disk[i].kept, noted.has} :
                            disk' = [disk EXCEPT ![i] = [noted EXCEPT !.kept = durable]]
              ELSE UNCHANGED disk
           /\ Step(t, "count") /\ UNCHANGED faults
  <2> DEFINE s == [item[i] EXCEPT !.fresh = @ \cup ({c} \cap Chunks(i))]
             d == disk'[i]
             x == StepsTo(at[t], "count")
  <2>1. item[i] \in Item /\ disk[i] \in Disk /\ Chunks(i) \subseteq Nat /\ FileOK(i) /\ Verified(i)
    BY <1>1, <1>2, Offer DEF TypeOK, IInv, ItemOK
  <2>2. s \in Item /\ item' = [item EXCEPT ![i] = s]
    <3>1. item[i].fresh \cup ({c} \cap Chunks(i)) \in SUBSET Nat
      BY <2>1 DEF Item
    <3>2. \A f \in SUBSET Nat : [item[i] EXCEPT !.fresh = f] \in Item
      BY <2>1 DEF Item
    <3>3. s = [item[i] EXCEPT !.fresh = item[i].fresh \cup ({c} \cap Chunks(i))]
      OBVIOUS
    <3>4. s \in Item
      BY <3>1, <3>2, <3>3
    <3> QED
      BY <1>4, <3>4
  <2>3. /\ d \in Disk /\ disk' = [disk EXCEPT ![i] = d]
        /\ d.old = disk[i].old /\ d.named = disk[i].named /\ disk[i].has \subseteq d.has
        /\ c \in Chunks(i) => c \in d.has
        /\ disk[i].kept \subseteq d.kept /\ d.kept \subseteq disk[i].kept \cup d.has
        /\ d.has \subseteq Chunks(i)
    <3>1. disk[i].has \subseteq Chunks(i)
      BY <2>1 DEF FileOK, FileOf
    <3>2. disk[i].kept \subseteq disk[i].has
      BY <2>1 DEF FileOK, FileOf, Item
    <3>3. CASE new
      <4>1. PICK durable \in {disk[i].kept, noted.has} : disk' = [disk EXCEPT ![i] = [noted EXCEPT !.kept = durable]]
        BY <1>4, <3>3
      <4>2. noted.has = disk[i].has \cup {c}
        BY <2>1 DEF Disk
      <4>3. durable \in SUBSET Nat /\ disk[i].has \cup {c} \in SUBSET Nat
        <5>1. disk[i].has \subseteq Nat /\ disk[i].kept \subseteq Nat
          BY <2>1 DEF Disk
        <5>2. c \in Nat
          BY <2>1, <3>3
        <5> QED
          BY <4>1, <4>2, <5>1, <5>2
      <4>4. disk'[i] = [noted EXCEPT !.kept = durable]
        BY <1>1, <1>2, <4>1 DEF TypeOK
      <4>5. /\ d \in Disk /\ d.has = disk[i].has \cup {c} /\ d.kept = durable /\ d.old = disk[i].old
            /\ d.named = disk[i].named
        BY <2>1, <4>3, <4>4 DEF Disk
      <4> QED
        BY <3>1, <3>2, <3>3, <4>1, <4>4, <4>5, <4>2
    <3>4. CASE ~new
      BY <1>1, <1>2, <1>4, <2>1, <3>1, <3>2, <3>4 DEF TypeOK
    <3> QED
      BY <3>3, <3>4
  <2>4. /\ s.next = item[i].next /\ s.retries = item[i].retries /\ s.digest = item[i].digest
        /\ s.processed = item[i].processed /\ s.state = item[i].state /\ s.closed = item[i].closed
        /\ s.file = item[i].file /\ s.opened = item[i].opened /\ s.restarted = item[i].restarted
        /\ s.local = item[i].local /\ s.fresh = item[i].fresh \cup ({c} \cap Chunks(i))
    BY <2>1 DEF Item
  <2>5. StepOf(t, x) /\ x \in Thread /\ x.op = "count" /\ x.task = k /\ x.ends = {} /\ x.taken = {}
    BY <1>1, <1>2, <1>4, Shapes, ThreadTypes DEF Ops, Moves
  <2> HIDE DEF s, d, x
  <2>6. item[i].file = "open" /\ Carried(k) /\ c \in Asks(i) /\ item[i].opened /\ c \notin disk[i].old
    <3>1. item[i].file = "open"
      BY <2>1 DEF FileOK, FileOf, Item
    <3>2. Carried(k) /\ c \in Asks(i)
      BY <1>1 DEF ThreadOK, TaskOf, Carried, Moves
    <3> QED
      BY <3>1, <3>2 DEF Carried, CarriedOf
  <2>7. CallOf(t, x, i, s, d)
    BY <1>1, <1>2, <1>4, <2>2, <2>3, <2>5 DEF CallOf, TypeOK, Moves
  <2>8. Fits(i, s, d)
    BY <2>3, <2>4 DEF Fits
  <2>9. TaskOf(x, s, d)
    BY <1>1, <2>3, <2>4, <2>5, <2>6 DEF TaskOf, Moves, Closing
  <2>10. FileOf(i, s, d)
    BY <2>1, <2>3, <2>4, <2>6 DEF FileOf, FileOK
  <2>11. VerifiedOf(s, d)
    BY <2>1, <2>3, <2>4, <2>6 DEF VerifiedOf, Verified
  <2>12. Alike(at[t].op, "count") /\ at[t].op \notin {"discard", "askAgain"}
    BY DEF Alike, Moves
  <2> QED
    BY <1>2, <2>3, <2>4, <2>6, <2>7, <2>8, <2>9, <2>10, <2>11, <2>12, CallStepsOn DEF x
<1>5. \/ new /\ Fault("write") /\ Ends(t, i, "failed") /\ UNCHANGED <<item, disk>>
      \/ /\ item' = [item EXCEPT ![i].fresh = @ \cup ({c} \cap Chunks(i))]
         /\ IF new THEN \E durable \in {disk[i].kept, noted.has} :
                          disk' = [disk EXCEPT ![i] = [noted EXCEPT !.kept = durable]]
            ELSE UNCHANGED disk
         /\ Step(t, "count") /\ UNCHANGED faults
  BY <1>2 DEF StoreChunk
<1> HIDE DEF i, c, new, noted
<1> QED
  BY <1>3, <1>4, <1>5

LEMMA WriteKeeps ==
  ASSUME IInv, NEW t \in Threads, Write(t)
  PROVE  IInv'
<1> DEFINE k == at[t].task  i == k.item  s == item[i]
<1>1. at[t].op \in {"write", "writeMade"} /\ UNCHANGED <<control, net, batched, ending, room, acts, plan>>
  BY DEF Write
<1>2. /\ i \in Items /\ at[t] \in Thread /\ at[t].op \in Moves /\ at[t].ends = {} /\ at[t].taken = {}
      /\ ThreadOK(at[t]) /\ FileOK(i) /\ Current(k) /\ k.index \in Asks(i) /\ Carried(k)
  <2>1. i \in Items /\ at[t] \in Thread /\ at[t].op \in Moves /\ at[t].ends = {} /\ at[t].taken = {} /\ ThreadOK(at[t])
    BY <1>1, HasNoEnds DEF Moves
  <2>2. Current(k)
    BY <2>1, HasRoom DEF IInv
  <2> QED
    BY <1>1, <2>1, <2>2 DEF IInv, ItemOK, ThreadOK, TaskOf, Carried
<1>3. TypeOK /\ UNCHANGED <<inflight, writes, conn, control, phase, doneSent, room, acts, batched, marked, plan>>
  BY <1>1 DEF IInv, net, ending
<1>4. CASE s.closed /\ Returns(t) /\ UNCHANGED <<item, disk, faults>>
  <2>1. Rests(t, Idle)
    BY <1>2, <1>3, <1>4, Shapes DEF Rests, TypeOK, Moves
  <2> QED
    BY <1>4, <2>1, CallReturns
<1>5. CASE s.file = "none" /\ ~s.closed /\ at[t].op = "write" /\ Step(t, "create") /\ UNCHANGED <<item, disk, faults>>
  <2> DEFINE x == StepsTo(at[t], "create")
  <2>1. Rests(t, x)
    BY <1>2, <1>3, <1>5, Shapes DEF Rests, TypeOK, Moves
  <2>2. "create" \in Ops /\ Alike(at[t].op, "create")
    BY <1>1 DEF Ops, Moves, Alike
  <2>3. x.op = "create" /\ x.task = k
    BY <1>2, <1>3, <2>2, ThreadTypes
  <2>4. TaskOf(x, s, disk[i])
    BY <1>2, <2>3 DEF TaskOf, Carried, Moves, Closing
  <2> QED
    BY <2>1, <2>2, <2>4, CallSteps
<1>6. CASE s.file # "none" /\ ~s.closed /\ StoreChunk(t, k)
  BY <1>1, <1>6, StoreKeeps
<1>7. ~(s.file = "none" /\ at[t].op = "writeMade" /\ ~s.closed)
  BY <1>2 DEF ThreadOK, TaskOf
<1> QED
  BY <1>1, <1>2, <1>4, <1>5, <1>6, <1>7 DEF Write

LEMMA CreateKeeps ==
  ASSUME IInv, NEW t \in Threads, Create(t)
  PROVE  IInv'
<1> DEFINE k == at[t].task  i == k.item  op == "writeMade"  x == StepsTo(at[t], op)
           needed == item[i].file = "none" /\ ~item[i].closed /\ Current(k)
<1>1. at[t].op = "create" /\ UNCHANGED <<control, net, batched, phase, doneSent, room, acts, plan>>
  BY DEF Create
<1>2. /\ i \in Items /\ at[t] \in Thread /\ Current(k) /\ k.index \in Asks(i) /\ Carried(k)
      /\ FileOK(i) /\ Verified(i) /\ item[i] \in Item /\ disk[i] \in Disk
  <2>1. i \in Items /\ at[t] \in Thread /\ ThreadOK(at[t])
    BY <1>1, HasNoEnds DEF Moves
  <2>2. Current(k)
    BY <2>1, HasRoom DEF IInv
  <2> QED
    BY <1>1, <2>1, <2>2 DEF IInv, ItemOK, ThreadOK, TaskOf, Carried, Moves, TypeOK
<1>3. TypeOK /\ UNCHANGED <<inflight, writes, conn, control, phase, doneSent, room, acts, batched, plan>> /\ room = TRUE
  BY <1>1, HasRoom DEF IInv, net
<1>4. op \in Ops /\ Alike(at[t].op, op) /\ at[t].op # "idle"
  BY <1>1 DEF Ops, Moves, Alike
<1>5. x.op = op /\ x.task = k /\ x \in Thread
  BY <1>2, <1>3, <1>4, ThreadTypes
<1>6. CASE ~needed /\ Step(t, op) /\ UNCHANGED <<item, disk, marked, faults>>
  <2>1. Rests(t, x)
    BY <1>1, <1>3, <1>6, Shapes DEF Rests, TypeOK, Moves
  <2>2. item[i].closed \/ item[i].file = "open"
    BY <1>2, <1>6 DEF FileOK, FileOf, Item
  <2>3. TaskOf(x, item[i], disk[i])
    BY <1>2, <1>5, <2>2 DEF TaskOf, Carried, Moves, Closing
  <2> QED
    BY <1>4, <2>1, <2>3, CallSteps
<1>7. ASSUME needed, marked' \in {"no", "ok"}, Fault("write"), Ends(t, i, "failed"), UNCHANGED <<item, disk>>
      PROVE  IInv'
  <2>1. faults' \in Nat
    BY <1>3, <1>7, FaultsType
  <2>2. StepOf(t, EndsWith(i, "failed"))
    BY <1>3, <1>7, Shapes
  <2>3. Rests(t, EndsWith(i, "failed"))
    BY <1>1, <1>3, <1>7, <2>1, <2>2 DEF Rests, Moves
  <2> QED
    BY <2>3, CallFails
<1>8. ASSUME needed, marked' \in {"no", "ok"}, Step(t, op), UNCHANGED faults, item' = [item EXCEPT ![i].file = "open"],
             disk' = [disk EXCEPT ![i].has = disk[i].kept]
      PROVE  IInv'
  <2> DEFINE s == [item[i] EXCEPT !.file = "open"]
             d == [disk[i] EXCEPT !.has = disk[i].kept]
  <2>1. /\ s \in Item /\ s.next = item[i].next /\ s.retries = item[i].retries /\ s.digest = item[i].digest
        /\ s.processed = item[i].processed /\ s.state = item[i].state /\ s.closed = item[i].closed
        /\ s.file = "open" /\ s.opened = item[i].opened /\ s.restarted = item[i].restarted
        /\ s.local = item[i].local /\ s.fresh = item[i].fresh
    BY <1>2 DEF Item
  <2>2. /\ d \in Disk /\ d.has = disk[i].kept /\ d.kept = disk[i].kept /\ d.old = disk[i].old
        /\ d.named = disk[i].named
    BY <1>2 DEF Disk
  <2>3. item' = [item EXCEPT ![i] = s] /\ disk' = [disk EXCEPT ![i] = d]
    BY <1>2, <1>3, <1>8 DEF TypeOK
  <2>4. StepOf(t, x)
    BY <1>3, <1>8, Shapes
  <2> HIDE DEF s, d, x
  <2>5. CallOf(t, x, i, s, d)
    BY <1>1, <1>3, <1>4, <1>5, <1>8, <2>1, <2>2, <2>3, <2>4 DEF CallOf, TypeOK
  <2>6. Fits(i, s, d)
    BY <1>8, <2>1, <2>2 DEF Fits
  <2>7. item[i].opened /\ (~item[i].closed => k.index \notin disk[i].old)
    BY <1>2 DEF Carried, CarriedOf
  <2>8. TaskOf(x, s, d)
    BY <1>2, <1>5, <2>1, <2>2, <2>7 DEF TaskOf, CarriedOf, Moves, Closing
  <2>9. FileOf(i, s, d)
    BY <1>2, <1>8, <2>1, <2>2, <2>7 DEF FileOf, FileOK
  <2>10. VerifiedOf(s, d)
    BY <1>2, <2>1, <2>2 DEF VerifiedOf, Verified
  <2> QED
    BY <1>1, <1>3, <1>4, <1>8, <2>1, <2>2, <2>5, <2>6, <2>8, <2>9, <2>10, CallStepsOn DEF x
<1> DEFINE mark == IF InRoot /\ marked = "no" THEN (IF room THEN "ok" ELSE "full") ELSE marked
<1>9. mark \in {"no", "ok"}
  BY <1>3 DEF TypeOK
<1>10. \/ ~needed /\ Step(t, op) /\ UNCHANGED <<item, disk, marked, faults>>
       \/ /\ needed /\ marked' = mark
          /\ \/ /\ item' = [item EXCEPT ![i].file = "open"]
                /\ disk' = [disk EXCEPT ![i].has = disk[i].kept]
                /\ Step(t, op) /\ UNCHANGED faults
             \/ (mark = "full" \/ ~room)
             \/ Fault("write") /\ Ends(t, i, "failed") /\ UNCHANGED <<item, disk>>
  BY DEF Create
<1> HIDE DEF mark, needed, x, op
<1> QED
  BY <1>3, <1>6, <1>7, <1>8, <1>9, <1>10

\* The thread lets go of its token: it closes the item, or gives it up.
LEMMA CallLetsGo ==
  ASSUME IInv, NEW t \in Threads, at[t].op \in (Moves \cup Closing) \ {"discard", "askAgain"}, NEW i, i = at[t].task.item,
         NEW x, x.op \in {"idle", "end", "mark", "flush"}, Own(x, i), NEW s, NEW d, CallOf(t, x, i, s, d),
         s.next = item[i].next, s.retries = item[i].retries, s.digest = item[i].digest,
         s.processed = item[i].processed, s.state = item[i].state, item[i].closed => s.closed,
         s.closed \/ x.op = "end", s.closed => item[i].closed \/ i \in batched' \/ Cared(x, i),
         ~s.closed /\ item[i].file # "none" => disk[i].has \subseteq d.has /\ s.file # "none",
         batched \subseteq batched', \A j \in batched' : j \in batched \/ BatchedOK(j)',
         Fits(i, s, d), ThreadOK(at[t])', FileOf(i, s, d), VerifiedOf(s, d)
  PROVE  IInv'
<1>1. i \in Items /\ \A j : ~Cared(at[t], j)
  BY HasNoEnds
<1>2. Own(at[t], i) /\ \A c : ~Carries(x, i, c)
  BY DEF Own, Carries, Moves, Closing
<1>3. at[t].op # "end"
  BY DEF Moves, Closing
<1>4. Lets(t, x, i, s, d)
  BY <1>1, <1>2, <1>3 DEF Lets
<1> QED
  BY <1>1, <1>2, <1>4, CallGoesOn

\* Who holds the digest of an item has seen all of its chunks handled.
LEMMA HoldsDigest ==
  ASSUME IInv, NEW t \in Threads, at[t].op \in Closing \ {"askAgain"}, NEW i, i = at[t].task.item
  PROVE  /\ i \in Items /\ item[i].opened /\ (~item[i].closed => item[i].file = "open")
         /\ Handled(i) = Asks(i) /\ (\A c \in Asks(i) : Where(i, c) = {})
         /\ item[i].processed = Target(i) /\ ~Is(i, {"askAgain"})
         /\ InHands(t) \in Where(i, DigestIndex) /\ ~item[i].digest /\ DigestIndex \notin item[i].retries
<1>1. i \in Items /\ TokensOK(i) /\ Counted(i) /\ FileOK(i)
  BY HasNoEnds DEF IInv, ItemOK
<1>2. Located(i, DigestIndex)
  BY WhereIs
<1>3. InHands(t) \in Where(i, DigestIndex)
  BY <1>2 DEF Located, Carries
<1>4. Single(Where(i, DigestIndex))
  BY <1>1 DEF TokensOK, Index
<1>5. ~Is(i, {"askAgain"})
  <2>1. SUFFICES ASSUME NEW u \in Threads, at[u].op = "askAgain", at[u].task.item = i
                 PROVE  FALSE
    BY DEF Is
  <2>2. InHands(u) \in Where(i, DigestIndex)
    BY <1>2, <2>1 DEF Located, Carries, Closing
  <2>3. InHands(u) = InHands(t) /\ u # t
    BY <1>3, <1>4, <2>1, <2>2 DEF Single
  <2> QED
    BY <2>3, PlacesApart
<1>6. InItem \notin Where(i, DigestIndex)
  BY <1>3, <1>4, PlacesApart DEF Single
<1>7. ~item[i].digest /\ DigestIndex \notin item[i].retries
  BY <1>2, <1>6 DEF Located, Ahead
<1>8. Handled(i) = Asks(i) /\ item[i].processed = Target(i)
  BY <1>1, <1>3, <1>5 DEF Counted
<1>9. \A c \in Asks(i) : Where(i, c) = {}
  BY <1>8 DEF Handled
<1>10. Target(i) > 0
  BY <1>1, Offer DEF IInv
<1> QED
  BY <1>1, <1>3, <1>5, <1>7, <1>8, <1>9, <1>10 DEF FileOK, FileOf

LEMMA CompleteKeeps ==
  ASSUME IInv, NEW t \in Threads, Complete(t)
  PROVE  IInv'
<1> DEFINE k == at[t].task  i == k.item
<1>1. at[t].op = "complete" /\ UNCHANGED <<disk, control, net, batched, ending, world>>
  BY DEF Complete
<1>2. /\ i \in Items /\ at[t] \in Thread /\ item[i] \in Item /\ disk[i] \in Disk /\ FileOK(i) /\ Verified(i)
      /\ ~item[i].closed => item[i].file = "open"
  <2>1. i \in Items /\ at[t] \in Thread /\ (~item[i].closed => item[i].file = "open")
    BY <1>1, HasNoEnds, HoldsDigest DEF Closing
  <2> QED
    BY <2>1 DEF IInv, ItemOK, TypeOK
<1>3. TypeOK /\ UNCHANGED <<inflight, writes, conn, control, phase, doneSent, room, acts, batched, marked, faults, plan>>
  BY <1>1 DEF IInv, net, ending, world
<1>4. at[t].op \in (Moves \cup Closing) \ {"discard", "askAgain"} /\ at[t].op # "idle"
  BY <1>1 DEF Closing
<1>5. ASSUME item[i].closed, Returns(t), UNCHANGED item PROVE IInv'
  <2>1. Rests(t, Idle)
    BY <1>1, <1>3, <1>4, <1>5, Shapes DEF Rests, TypeOK
  <2> QED
    BY <1>5, <2>1, CallReturns
<1>6. ASSUME Ends(t, i, "failed"), UNCHANGED item PROVE IInv'
  <2>1. Rests(t, EndsWith(i, "failed"))
    BY <1>1, <1>3, <1>4, <1>6, Shapes DEF Rests, TypeOK
  <2> QED
    BY <2>1, CallFails
<1>7. ASSUME NeedsNoDigest(i), at' = [at EXCEPT ![t].op = "finish", ![t].task.gen = item[i].gen], UNCHANGED item
      PROVE  IInv'
  <2> DEFINE x == StepsTo(at[t], "finish")
  <2>1. at[t].task \in Task /\ k.gen = 0 /\ item[i].gen = 0
    BY <1>2 DEF Thread, Task, Item
  <2>2. [at[t] EXCEPT !.op = "finish", !.task.gen = item[i].gen] = x
    BY <1>2, <2>1 DEF Thread, Task, StepsTo
  <2>3. StepOf(t, x)
    BY <1>3, <1>7, <2>2 DEF StepOf
  <2>4. Rests(t, x)
    BY <1>1, <1>3, <1>4, <1>7, <2>3 DEF Rests, TypeOK
  <2>5. "finish" \in Ops /\ Alike(at[t].op, "finish")
    BY <1>1 DEF Ops, Closing, Alike
  <2>6. x.op = "finish" /\ x.task = k
    BY <1>2, <1>3, <2>5, ThreadTypes
  <2>7. disk[i].old = {}
    <3>1. disk[i].old \subseteq Chunks(i) /\ Chunks(i) = {c \in Nat : c < Total(i)} /\ Total(i) \in Nat
      BY <1>2, <1>3, Offer DEF FileOK, FileOf
    <3>2. CASE Total(i) = 0
      BY <3>1, <3>2
    <3>3. CASE Total(i) = 1 /\ 0 \in item[i].fresh
      <4>1. 0 \notin disk[i].old /\ \A c \in disk[i].old : c = 0
        BY <1>2, <3>1, <3>3 DEF Verified, VerifiedOf
      <4> QED
        BY <4>1
    <3> QED
      BY <1>7, <3>2, <3>3 DEF NeedsNoDigest
  <2>8. TaskOf(x, item[i], disk[i])
    BY <1>2, <2>6, <2>7 DEF TaskOf, Moves
  <2> QED
    BY <2>4, <2>5, <2>8, CallSteps
<1>8. ASSUME ~item[i].closed, item' = [item EXCEPT ![i].local = IF disk[i].old = {} THEN "same" ELSE "other"], Step(t, "arm")
      PROVE  IInv'
  <2> DEFINE s == [item[i] EXCEPT !.local = IF disk[i].old = {} THEN "same" ELSE "other"]
             d == disk[i]  x == StepsTo(at[t], "arm")
  <2>1. /\ s \in Item /\ s.next = item[i].next /\ s.retries = item[i].retries /\ s.digest = item[i].digest
        /\ s.processed = item[i].processed /\ s.state = item[i].state /\ s.closed = item[i].closed
        /\ s.file = item[i].file /\ s.opened = item[i].opened /\ s.restarted = item[i].restarted
        /\ s.local = "same" => disk[i].old = {} /\ s.fresh = item[i].fresh
        /\ s.fresh = item[i].fresh
    BY <1>2 DEF Item
  <2>2. item' = [item EXCEPT ![i] = s] /\ disk' = [disk EXCEPT ![i] = d]
    BY <1>1, <1>2, <1>3, <1>8 DEF TypeOK
  <2>3. "arm" \in Ops /\ Alike(at[t].op, "arm")
    BY <1>1 DEF Ops, Closing, Alike
  <2>4. x \in Thread /\ x.op = "arm" /\ x.task = k
    BY <1>2, <1>3, <2>3, ThreadTypes
  <2>5. StepOf(t, x)
    BY <1>3, <1>8, Shapes
  <2> HIDE DEF s, x
  <2>6. CallOf(t, x, i, s, d)
    BY <1>2, <1>3, <1>4, <2>1, <2>2, <2>4, <2>5 DEF CallOf, TypeOK
  <2>7. Fits(i, s, d) /\ TaskOf(x, s, d) /\ FileOf(i, s, d) /\ VerifiedOf(s, d)
    BY <1>2, <2>1, <2>4 DEF Fits, TaskOf, FileOf, FileOK, Verified, VerifiedOf, Moves
  <2> QED
    BY <1>3, <1>4, <2>1, <2>3, <2>6, <2>7, CallStepsOn DEF x
<1> QED
  BY <1>2, <1>5, <1>6, <1>7, <1>8 DEF Complete

LEMMA StartOverKeeps ==
  ASSUME IInv, NEW t \in Threads, StartOver(t)
  PROVE  IInv'
<1> DEFINE k == at[t].task  i == k.item
           s == [item[i] EXCEPT !.restarted = TRUE]
           d == disk[i]
<1>1. /\ at[t].op = "startOver" /\ UNCHANGED <<disk, control, net, batched, ending, world>>
      /\ item' = [item EXCEPT ![i].restarted = TRUE]
  BY DEF StartOver
<1>2. /\ i \in Items /\ at[t] \in Thread /\ item[i] \in Item /\ disk[i] \in Disk /\ FileOK(i) /\ Verified(i) /\ Told(i)
  <2>1. i \in Items /\ at[t] \in Thread
    BY <1>1, HasNoEnds DEF Closing
  <2> QED
    BY <2>1 DEF IInv, ItemOK, TypeOK
<1>3. TypeOK /\ UNCHANGED <<inflight, writes, conn, control, phase, doneSent, room, acts, batched, marked, faults, plan>>
  BY <1>1 DEF IInv, net, ending, world
<1>4. at[t].op \in (Moves \cup Closing) \ {"discard", "askAgain"} /\ at[t].op # "idle"
  BY <1>1 DEF Closing
<1>5. /\ s \in Item /\ s.next = item[i].next /\ s.retries = item[i].retries /\ s.digest = item[i].digest
      /\ s.processed = item[i].processed /\ s.state = item[i].state /\ s.closed = item[i].closed
      /\ s.file = item[i].file /\ s.opened = item[i].opened /\ s.restarted
      /\ s.local = item[i].local /\ s.fresh = item[i].fresh
  BY <1>2 DEF Item
<1>6. item' = [item EXCEPT ![i] = s] /\ disk' = [disk EXCEPT ![i] = d]
  BY <1>1, <1>2, <1>3 DEF TypeOK
<1> HIDE DEF s
<1>7. Fits(i, s, d) /\ FileOf(i, s, d) /\ VerifiedOf(s, d)
  BY <1>2, <1>5 DEF Fits, FileOf, FileOK, Verified, VerifiedOf
<1>8. ASSUME NEW x \in Thread, StepOf(t, x), x.op \notin {"read", "prepare"} PROVE CallOf(t, x, i, s, d) /\ at'[t] = x
  <2>1. CallOf(t, x, i, s, d)
    BY <1>2, <1>3, <1>4, <1>5, <1>6, <1>8 DEF CallOf, TypeOK
  <2> QED
    BY <1>2, <1>3, <2>1, CallTypes
<1>9. ASSUME ~Pending(i), Returns(t) PROVE IInv'
  <2> DEFINE x == Idle
  <2>1. item[i].closed /\ s.closed
    BY <1>2, <1>5, <1>9 DEF Told
  <2>2. x \in Thread /\ x.op = "idle" /\ StepOf(t, x)
    BY <1>3, <1>9, ThreadTypes, Shapes
  <2>3. CallOf(t, x, i, s, d) /\ at'[t] = x
    BY <1>8, <2>2
  <2>4. ThreadOK(at[t])'
    BY <1>3, <2>3, IdleOK
  <2>5. Own(x, i)
    BY <2>2 DEF Own, Moves, Closing
  <2> HIDE DEF x, d
  <2> QED
    BY <1>3, <1>4, <1>5, <1>7, <2>1, <2>2, <2>3, <2>4, <2>5, CallLetsGo
<1>10. ASSUME Ends(t, i, "failed") PROVE IInv'
  <2> DEFINE x == EndsWith(i, "failed")
  <2>1. x \in Thread /\ x.op = "end" /\ x.task.item = i /\ StepOf(t, x)
    BY <1>2, <1>3, <1>10, ThreadTypes, Shapes DEF Outcomes
  <2>2. CallOf(t, x, i, s, d) /\ at'[t] = x
    BY <1>8, <2>1
  <2>3. ThreadOK(at[t])'
    BY <1>2, <1>3, <2>2, EndsOK
  <2>4. Own(x, i)
    BY <2>1 DEF Own
  <2>5. ~s.closed /\ item[i].file # "none" => disk[i].has \subseteq d.has /\ s.file # "none"
    BY <1>5
  <2>6. (s.closed => item[i].closed) /\ batched' = batched
    BY <1>3, <1>5
  <2> HIDE DEF x, d
  <2> QED
    BY <1>4, <1>5, <1>7, <2>1, <2>2, <2>3, <2>4, <2>5, <2>6, CallLetsGo
<1>11. ASSUME Step(t, "discard") PROVE IInv'
  <2> DEFINE x == StepsTo(at[t], "discard")
  <2>1. "discard" \in Ops /\ Alike(at[t].op, "discard")
    BY <1>1 DEF Ops, Closing, Alike
  <2>2. x \in Thread /\ x.op = "discard" /\ x.task = k /\ StepOf(t, x)
    BY <1>2, <1>3, <1>11, <2>1, ThreadTypes, Shapes
  <2>3. CallOf(t, x, i, s, d)
    BY <1>8, <2>2
  <2>4. TaskOf(x, s, d)
    BY <1>2, <1>5, <2>2 DEF TaskOf, Moves
  <2> HIDE DEF x
  <2> QED
    BY <1>3, <1>4, <1>5, <1>7, <2>1, <2>3, <2>4, CallStepsOn DEF x
<1> QED
  BY <1>9, <1>10, <1>11 DEF StartOver

LEMMA EndKeeps ==
  ASSUME IInv, NEW t \in Threads, End(t)
  PROVE  IInv'
<1> DEFINE k == at[t].task  i == k.item  x == StepsTo(at[t], "mark")
<1>1. /\ at[t].op = "end" /\ UNCHANGED <<control, net, batched, ending, world>> /\ Step(t, "mark")
  BY DEF End
<1>2. /\ at[t] \in Thread /\ i \in Items /\ (\E st \in {"failed", "skipped"} : at[t].ends = {<<i, st>>}) /\ at[t].taken = {}
  BY <1>1 DEF IInv, TypeOK, ThreadsOK, ThreadOK
<1>3. /\ item[i] \in Item /\ disk[i] \in Disk /\ FileOK(i) /\ Verified(i)
  BY <1>2 DEF IInv, ItemOK, TypeOK
<1>4. TypeOK /\ UNCHANGED <<inflight, writes, conn, control, phase, doneSent, room, acts, batched, marked, faults, plan>>
  BY <1>1 DEF IInv, net, ending, world
<1>5. PICK kept \in {disk[i].kept, disk[i].has} : CloseFile(i, kept)
  BY DEF End
<1> DEFINE s == [item[i] EXCEPT !.closed = TRUE, !.file = IF item[i].closed THEN item[i].file ELSE "none"]
           d == IF item[i].closed \/ item[i].file = "none" THEN disk[i] ELSE [disk[i] EXCEPT !.kept = kept]
<1>6. /\ s \in Item /\ s.next = item[i].next /\ s.retries = item[i].retries /\ s.digest = item[i].digest
      /\ s.processed = item[i].processed /\ s.state = item[i].state /\ s.closed
      /\ s.file = (IF item[i].closed THEN item[i].file ELSE "none")
      /\ s.opened = item[i].opened /\ s.restarted = item[i].restarted
      /\ s.local = item[i].local /\ s.fresh = item[i].fresh
  BY <1>3 DEF Item
<1>7. /\ d \in Disk /\ d.has = disk[i].has /\ d.old = disk[i].old /\ d.named = disk[i].named
      /\ d.kept = disk[i].kept \/ (~item[i].closed /\ item[i].file # "none" /\ d.kept = disk[i].has)
  BY <1>3, <1>5 DEF Disk
<1>8. item' = [item EXCEPT ![i] = s] /\ disk' = [disk EXCEPT ![i] = d]
  <2>1. CASE item[i].closed
    <3>1. s = item[i]
      BY <1>3, <2>1 DEF Item
    <3> QED
      BY <1>2, <1>4, <1>5, <2>1, <3>1 DEF CloseFile, TypeOK
  <2>2. CASE ~item[i].closed
    BY <1>2, <1>4, <1>5, <2>2 DEF CloseFile, TypeOK
  <2> QED
    BY <2>1, <2>2
<1>9. "mark" \in Ops
  BY DEF Ops, Ending
<1>10. x \in Thread /\ x.op = "mark" /\ x.task = k /\ x.ends = at[t].ends /\ x.taken = {} /\ StepOf(t, x)
  BY <1>1, <1>2, <1>4, <1>9, ThreadTypes, Shapes
<1> HIDE DEF s, d, x
<1>11. CallOf(t, x, i, s, d)
  BY <1>1, <1>2, <1>4, <1>6, <1>7, <1>8, <1>10 DEF CallOf, TypeOK
<1>12. item'[i] = s /\ disk'[i] = d /\ at'[t] = x
  BY <1>2, <1>4, <1>11, CallTypes
<1>13. Own(at[t], i) /\ Own(x, i)
  BY DEF Own, x, StepsTo
<1>14. Lets(t, x, i, s, d) /\ \A j : Cared(at[t], j) => Cared(x, j)
  <2>1. \A c : ~Carries(x, i, c) /\ ~Carries(at[t], i, c)
    BY <1>1, <1>10 DEF Carries, Moves, Closing
  <2>2. Cared(x, i) /\ \A j : Cared(at[t], j) <=> Cared(x, j)
    BY <1>2, <1>10 DEF Cared
  <2> QED
    BY <1>1, <1>4, <1>6, <1>7, <1>10, <2>1, <2>2 DEF Lets
<1>15. Fits(i, s, d)
  BY <1>6, <1>7 DEF Fits
<1>16. FileOf(i, s, d)
  <2>1. ~item[i].closed /\ item[i].file # "none" => item[i].file = "open"
    BY <1>3 DEF FileOK, FileOf, Item
  <2> QED
    BY <1>3, <1>6, <1>7, <2>1 DEF FileOf, FileOK
<1>17. VerifiedOf(s, d)
  BY <1>3, <1>6, <1>7 DEF Verified, VerifiedOf
<1>18. ThreadOK(at[t])'
  <2>1. Items' = Items
    BY <1>4, SameOffer
  <2>2. \A e \in x.ends : EndOK(at[t], e)'
    BY <1>2, <1>6, <1>10, <1>12, <2>1 DEF EndOK
  <2> QED
    BY <1>10, <1>12, <2>2 DEF ThreadOK, TaskOf, Moves, Closing, Ending
<1> QED
  BY <1>2, <1>4, <1>11, <1>13, <1>14, <1>15, <1>16, <1>17, <1>18, CallGoesOn

LEMMA MarksOK ==
  ASSUME TypeOK, UNCHANGED plan, NEW t \in Threads, NEW i \in Items, NEW state \in Outcomes,
         at'[t] = MarksWith(i, state), item'[i].closed, state = "done" => disk'[i].named \in Good
  PROVE  ThreadOK(at[t])'
<1> DEFINE x == MarksWith(i, state)
<1>1. /\ x.op = "mark" /\ x.ends = {<<i, state>>} /\ x.taken = {} /\ Items' = Items
  BY ThreadTypes, SameOffer
<1> HIDE DEF x
<1>2. at'[t] = x
  BY DEF x
<1>3. \A e \in x.ends : EndOK(at[t], e)'
  BY <1>1, <1>2 DEF EndOK
<1> QED
  BY <1>1, <1>2, <1>3 DEF ThreadOK, TaskOf, Moves, Closing, Ending

\* A file of one version only gets its name.
LEMMA NamedIs ==
  ASSUME NEW d \in Disk, d.old = {}
  PROVE  /\ Named(d) \in Disk /\ Named(d).has = {} /\ Named(d).kept = {} /\ Named(d).old = {}
         /\ Named(d).named = "good"
<1>1. Named(d) = [has |-> {}, kept |-> {}, old |-> {}, named |-> "good"]
  BY DEF Named
<1> QED
  BY <1>1 DEF Disk

LEMMA FinishKeeps ==
  ASSUME IInv, NEW t \in Threads, Finish(t)
  PROVE  IInv'
<1> DEFINE k == at[t].task  i == k.item  d == disk[i]  z == item[i]
<1>1. at[t].op = "finish" /\ UNCHANGED <<control, net, ending, room, acts, plan>>
  BY DEF Finish
<1>2. /\ i \in Items /\ at[t] \in Thread /\ z \in Item /\ d \in Disk /\ FileOK(i) /\ Verified(i)
      /\ (~z.closed => z.file = "open" /\ d.old = {}) /\ z.opened
  <2>1. i \in Items /\ at[t] \in Thread /\ ThreadOK(at[t])
    BY <1>1, HasNoEnds DEF Closing
  <2>2. z.opened /\ (~z.closed => z.file = "open")
    BY <1>1, HoldsDigest DEF Closing
  <2> QED
    BY <1>1, <2>1, <2>2 DEF IInv, ItemOK, TypeOK, ThreadOK, TaskOf
<1>3. TypeOK /\ UNCHANGED <<inflight, writes, conn, control, phase, doneSent, room, acts, marked, plan>> /\ room = TRUE
  BY <1>1, HasRoom DEF IInv, net, ending
<1>4. at[t].op \in (Moves \cup Closing) \ {"discard", "askAgain"} /\ at[t].op # "idle"
  BY <1>1 DEF Closing
<1>5. ASSUME z.closed, Returns(t), UNCHANGED <<item, disk, batched, faults>> PROVE IInv'
  <2>1. Rests(t, Idle)
    BY <1>1, <1>3, <1>4, <1>5, Shapes DEF Rests, TypeOK
  <2> QED
    BY <1>5, <2>1, CallReturns
\* The item is closed, with its file or without.
<1>6. ASSUME ~z.closed, NEW file \in {"none", "sealed", "open"}, NEW x \in Thread, StepOf(t, x),
             x.op \in {"end", "mark", "flush"}, Own(x, i),
             item' = [item EXCEPT ![i].closed = TRUE, ![i].file = file],
             NEW e \in {d, Named(d)}, disk' = [disk EXCEPT ![i] = e], faults' \in Nat,
             batched' \in {batched, batched \cup {i}}, i \in batched' \/ Cared(x, i),
             ASSUME item'[i].closed, disk'[i] = e, at'[t] = x PROVE ThreadOK(at[t])'
      PROVE  IInv'
  <2> DEFINE s == [item[i] EXCEPT !.closed = TRUE, !.file = file]
  <2>1. /\ s \in Item /\ s.next = item[i].next /\ s.retries = item[i].retries /\ s.digest = item[i].digest
        /\ s.processed = item[i].processed /\ s.state = item[i].state /\ s.closed
        /\ s.file = file /\ s.opened = item[i].opened /\ s.restarted = item[i].restarted
        /\ s.local = item[i].local /\ s.fresh = item[i].fresh
    BY <1>2 DEF Item
  <2>2. /\ e \in Disk /\ e.old = {} /\ e.has \subseteq d.has /\ e.kept \subseteq d.kept
        /\ e.named \in {d.named, "good"}
    BY <1>2, <1>6, NamedIs
  <2>3. item' = [item EXCEPT ![i] = s]
    BY <1>2, <1>3, <1>6 DEF TypeOK
  <2> HIDE DEF s, d
  <2>4. CallOf(t, x, i, s, e)
    BY <1>2, <1>3, <1>4, <1>6, <2>1, <2>2, <2>3 DEF CallOf, TypeOK
  <2>5. item'[i] = s /\ disk'[i] = e /\ at'[t] = x
    BY <1>2, <1>3, <2>4, CallTypes
  <2>6. ThreadOK(at[t])'
    BY <1>6, <2>1, <2>5
  <2>7. ASSUME NEW j, j = i PROVE BatchedOK(j)'
    BY <2>1, <2>2, <2>5, <2>7 DEF BatchedOK
  <2>8. Fits(i, s, e)
    BY <2>1, <2>2 DEF Fits, Good, d
  <2>9. FileOf(i, s, e)
    BY <1>2, <2>1, <2>2 DEF FileOf, FileOK, d
  <2>10. VerifiedOf(s, e)
    BY <1>2, <2>1, <2>2 DEF VerifiedOf, Verified, Good, d
  <2>11. batched \subseteq batched' /\ \A j \in batched' : j \in batched \/ BatchedOK(j)'
    BY <1>6, <2>7
  <2> HIDE DEF z
  <2>12. /\ x.op \in {"idle", "end", "mark", "flush"} /\ Own(x, i) /\ (item[i].closed => s.closed)
         /\ s.closed \/ x.op = "end"
         /\ s.closed => item[i].closed \/ i \in batched' \/ Cared(x, i)
         /\ ~s.closed /\ item[i].file # "none" => disk[i].has \subseteq e.has /\ s.file # "none"
    BY <1>6, <2>1
  <2>13. /\ s.next = item[i].next /\ s.retries = item[i].retries /\ s.digest = item[i].digest
         /\ s.processed = item[i].processed /\ s.state = item[i].state
    BY <2>1
  <2> QED
    BY <1>4, <2>4, <2>6, <2>8, <2>9, <2>10, <2>11, <2>12, <2>13, CallLetsGo
<1>7. ASSUME ~z.closed, batched' = batched \cup {i}, item' = [item EXCEPT ![i].closed = TRUE, ![i].file = "sealed"],
             at' = [at EXCEPT ![t] = [Idle EXCEPT !.op = "flush"]], UNCHANGED <<disk, faults>>
      PROVE  IInv'
  <2> DEFINE x == StepsTo(Idle, "flush")
  <2>1. "flush" \in Ops /\ Idle \in Thread /\ Idle.ends = {} /\ Idle.taken = {}
    BY <1>3, ThreadTypes DEF Ops, Ending
  <2>2. x \in Thread /\ x.op = "flush" /\ x.ends = {} /\ x.taken = {}
    BY <1>3, <2>1, ThreadTypes
  <2>3. StepOf(t, x)
    BY <1>3, <1>7 DEF StepOf, StepsTo
  <2>4. disk' = [disk EXCEPT ![i] = d] /\ faults' \in Nat
    BY <1>2, <1>3, <1>7 DEF TypeOK
  <2> HIDE DEF x
  <2>5. Own(x, i)
    BY <2>2 DEF Own, Moves, Closing
  <2>6. ASSUME at'[t] = x PROVE ThreadOK(at[t])'
    BY <2>2, <2>6 DEF ThreadOK, TaskOf, Moves, Closing, Ending
  <2> HIDE DEF d, z
  <2> QED
    BY <1>6, <1>7, <2>2, <2>3, <2>4, <2>5, <2>6
<1>8. ASSUME ~z.closed, item' = [item EXCEPT ![i].closed = TRUE, ![i].file = "none"],
             disk' = [disk EXCEPT ![i] = Named(@)], Marks(t, i, "done"), UNCHANGED <<batched, faults>>
      PROVE  IInv'
  <2> DEFINE x == MarksWith(i, "done")  e == Named(d)
  <2>1. x \in Thread /\ x.op = "mark" /\ x.ends = {<<i, "done">>} /\ StepOf(t, x)
    BY <1>2, <1>3, <1>8, ThreadTypes, Shapes DEF Outcomes
  <2>2. disk' = [disk EXCEPT ![i] = e] /\ faults' \in Nat
    BY <1>2, <1>3, <1>8 DEF TypeOK
  <2>3. e.named \in Good
    BY <1>2, <1>8 DEF Named, Good
  <2>4. ASSUME item'[i].closed, disk'[i] = e, at'[t] = x PROVE ThreadOK(at[t])'
    BY <1>2, <1>3, <2>3, <2>4, MarksOK DEF Outcomes
  <2> HIDE DEF x
  <2>5. Own(x, i) /\ Cared(x, i)
    BY <2>1 DEF Own, Cared, Moves, Closing
  <2> HIDE DEF d, z
  <2> QED
    BY <1>6, <1>8, <2>1, <2>2, <2>4, <2>5
<1>9. ASSUME ~z.closed, NEW file \in {"none", "open"}, item' = [item EXCEPT ![i].closed = TRUE, ![i].file = file],
             Ends(t, i, "failed"), UNCHANGED <<disk, batched>>, faults' \in Nat
      PROVE  IInv'
  <2> DEFINE x == EndsWith(i, "failed")
  <2>1. x \in Thread /\ x.op = "end" /\ x.task.item = i /\ x.ends = {<<i, "failed">>} /\ StepOf(t, x)
    BY <1>2, <1>3, <1>9, ThreadTypes, Shapes DEF Outcomes
  <2>2. disk' = [disk EXCEPT ![i] = d]
    BY <1>2, <1>3, <1>9 DEF TypeOK
  <2>3. ASSUME at'[t] = x PROVE ThreadOK(at[t])'
    BY <1>2, <1>3, <2>3, EndsOK
  <2> HIDE DEF x
  <2>4. Own(x, i) /\ Cared(x, i)
    BY <2>1 DEF Own, Cared
  <2> HIDE DEF d, z
  <2> QED
    BY <1>6, <1>9, <2>1, <2>2, <2>3, <2>4
<1>10. ASSUME ~z.closed, Fault("sync"), item' = [item EXCEPT ![i].closed = TRUE], Ends(t, i, "failed"),
              UNCHANGED <<disk, batched>>
       PROVE  IInv'
  <2>1. item' = [item EXCEPT ![i].closed = TRUE, ![i].file = "open"]
    <3>1. [z EXCEPT !.closed = TRUE] = [z EXCEPT !.closed = TRUE, !.file = "open"]
      BY <1>2, <1>10 DEF Item
    <3>2. item' = [item EXCEPT ![i] = [z EXCEPT !.closed = TRUE]]
      BY <1>10
    <3>3. item' = [item EXCEPT ![i] = [z EXCEPT !.closed = TRUE, !.file = "open"]]
      BY <3>1, <3>2
    <3> QED
      BY <3>3
  <2>2. faults' \in Nat
    BY <1>3, <1>10, FaultsType
  <2> QED
    BY <1>9, <1>10, <2>1, <2>2
<1>11. Fault("name") => faults' \in Nat
  BY <1>3, FaultsType
<1> QED
  BY <1>2, <1>3, <1>5, <1>7, <1>8, <1>9, <1>10, <1>11 DEF Finish

\* A chunk on its way: it is not handled, and the digest is not asked for yet.
LEMMA HoldsChunk ==
  ASSUME IInv, NEW i \in Items, NEW c \in Asks(i), NEW p \in Where(i, c)
  PROVE  /\ Where(i, c) = {p} /\ c \notin Handled(i) /\ Where(i, DigestIndex) = {} /\ ~Is(i, {"askAgain"})
         /\ ~Is(i, {"discard"})
<1>1. TokensOK(i) /\ Counted(i)
  BY DEF IInv, ItemOK
<1>2. Single(Where(i, c))
  BY <1>1 DEF TokensOK, Index
<1>3. Where(i, c) = {p}
  BY <1>2 DEF Single
<1>4. c \notin Handled(i)
  BY DEF Handled
<1>5. Where(i, DigestIndex) = {}
  BY <1>1, <1>4 DEF Counted
<1>6. ASSUME NEW u \in Threads, at[u].op \in Closing, at[u].task.item = i PROVE FALSE
  <2>1. Located(i, DigestIndex)
    BY WhereIs
  <2>2. InHands(u) \in Where(i, DigestIndex)
    BY <1>6, <2>1 DEF Located, Carries
  <2> QED
    BY <1>5, <2>2
<1>7. ~Is(i, {"askAgain"}) /\ ~Is(i, {"discard"})
  BY <1>6 DEF Is, Closing
<1> QED
  BY <1>3, <1>4, <1>5, <1>7

LEMMA ToldStays ==
  ASSUME TypeOK, NEW t \in Threads, NEW x, StepOf(t, x), NEW i \in Items, Told(i), UNCHANGED phase,
         item'[i].closed = item[i].closed, item'[i].state = item[i].state,
         i \in batched \/ Cared(at[t], i) => i \in batched' \/ Cared(x, i)
  PROVE  Told(i)'
<1>1. Threads' = Threads /\ at'[t] = x /\ \A u \in Threads : u # t => at'[u] = at[u]
  BY ThreadsAre
<1>2. (\E u \in Threads : Cared(at[u], i)) => i \in batched' \/ \E u \in Threads : Cared(at'[u], i)
  BY <1>1
<1>3. i \in batched => i \in batched' \/ \E u \in Threads : Cared(at'[u], i)
  BY <1>1
<1> QED
  BY <1>1, <1>2, <1>3 DEF Told, Pending, Cared

LEMMA CountKeeps ==
  ASSUME IInv, NEW t \in Threads, Count(t)
  PROVE  IInv'
<1>1. at[t].op = "count" /\ UNCHANGED <<disk, control, net, batched, ending, world>>
  BY DEF Count
<1>2. PICK i \in Items : i = at[t].task.item
  BY <1>1, HasNoEnds DEF Moves
<1>3. PICK b : b = at[t].task.index
  OBVIOUS
<1>4. /\ at[t] \in Thread /\ at[t].ends = {} /\ at[t].taken = {} /\ \A j : ~Cared(at[t], j)
      /\ item[i] \in Item /\ disk[i] \in Disk /\ TokensOK(i) /\ ItemOK(i) /\ b \in Asks(i) /\ item[i].opened
      /\ ~item[i].closed => item[i].file = "open" /\ (b \in Chunks(i) => b \in disk[i].has)
  <2>1. at[t] \in Thread /\ at[t].ends = {} /\ at[t].taken = {} /\ (\A j : ~Cared(at[t], j)) /\ ThreadOK(at[t])
    BY <1>1, HasNoEnds DEF Moves
  <2> QED
    BY <1>1, <1>2, <1>3, <2>1 DEF IInv, TypeOK, ThreadOK, TaskOf, Moves
<1>5. TypeOK /\ UNCHANGED <<inflight, writes, conn, control, phase, doneSent, room, acts, batched, marked, faults, plan>>
  BY <1>1 DEF IInv, net, ending, world
<1> DEFINE s == [item[i] EXCEPT !.processed = @ + 1]  d == disk[i]  full == item[i].processed + 1 = Target(i)
           x == IF full THEN StepsTo(at[t], "complete") ELSE Idle
<1>6. /\ s \in Item /\ s.next = item[i].next /\ s.retries = item[i].retries /\ s.digest = item[i].digest
      /\ s.processed = item[i].processed + 1 /\ s.state = item[i].state /\ s.closed = item[i].closed
      /\ s.file = item[i].file /\ s.opened = item[i].opened /\ s.restarted = item[i].restarted
      /\ s.local = item[i].local /\ s.fresh = item[i].fresh /\ item[i].processed \in Nat
  <2>1. item[i].processed \in Nat /\ item[i].processed + 1 \in Nat
    BY <1>4 DEF Item
  <2> DEFINE n == item[i].processed + 1
  <2>2. n \in Nat
    BY <2>1
  <2> HIDE DEF n
  <2>3. LET z == [item[i] EXCEPT !.processed = n] IN
        /\ z \in Item /\ z.next = item[i].next /\ z.retries = item[i].retries /\ z.digest = item[i].digest
        /\ z.processed = n /\ z.state = item[i].state /\ z.closed = item[i].closed
        /\ z.file = item[i].file /\ z.opened = item[i].opened /\ z.restarted = item[i].restarted
        /\ z.local = item[i].local /\ z.fresh = item[i].fresh
    BY <1>4, <2>2 DEF Item
  <2>4. s = [item[i] EXCEPT !.processed = n]
    BY DEF n
  <2> QED
    BY <2>1, <2>3, <2>4 DEF n
<1>7. item' = [item EXCEPT ![i] = s] /\ disk' = [disk EXCEPT ![i] = d]
  BY <1>1, <1>2, <1>5 DEF Count, TypeOK
<1>8. "complete" \in Ops
  BY DEF Ops, Closing
<1>9. /\ x \in Thread /\ StepOf(t, x) /\ x.ends = {} /\ x.taken = {} /\ x.op = (IF full THEN "complete" ELSE "idle")
      /\ full => x.task = at[t].task
  <2>1. CASE full
    BY <1>2, <1>4, <1>5, <1>8, <2>1, ThreadTypes, Shapes DEF Count
  <2>2. CASE ~full
    BY <1>2, <1>5, <2>2, ThreadTypes, Shapes DEF Count
  <2> QED
    BY <2>1, <2>2
<1> HIDE DEF s, d, x
<1>10. CallOf(t, x, i, s, d)
  BY <1>1, <1>4, <1>5, <1>6, <1>7, <1>9 DEF CallOf, TypeOK, d
<1>11. item'[i] = s /\ disk'[i] = d /\ at'[t] = x
  BY <1>5, <1>10, CallTypes
<1>12. Own(at[t], i) /\ Own(x, i)
  BY <1>2, <1>9 DEF Own, Moves, Closing
<1>13. Grows(i)
  BY <1>6, <1>11 DEF Grows, d
<1>14. ThreadOK(at[t])'
  <2>1. TaskOf(x, item'[x.task.item], disk'[x.task.item])
    BY <1>2, <1>9 DEF TaskOf, Moves, Closing
  <2> QED
    BY <1>5, <1>9, <1>11, <2>1, ThreadFits
<1>15. /\ Target(i) \in Nat \ {0} /\ IsFiniteSet(Asks(i)) /\ Cardinality(Asks(i)) = Target(i)
       /\ DigestIndex \notin Asks(i) /\ Chunks(i) \subseteq Asks(i)
       /\ Asks(i)' = Asks(i) /\ Index(i)' = Index(i) /\ Target(i)' = Target(i) /\ Chunks(i)' = Chunks(i)
  BY <1>5, Offer, SameOffer
\* The places: the chunk is at none any more, the digest may be here.
<1>16. AskedOnce(i)' /\ \A c : Ahead(item'[i], c) <=> Ahead(item[i], c)
  BY <1>4, <1>5, <1>6, <1>11, AskedStays DEF TokensOK
<1>17. \A c : /\ \A p : p # InHands(t) => (p \in Where(i, c)' <=> p \in Where(i, c))
              /\ InHands(t) \in Where(i, c)' <=> Carries(x, i, c)
              /\ InHands(t) \in Where(i, c) <=> Carries(at[t], i, c)
  <2>1. \A c : InHands(t) \in Where(i, c) <=> Carries(at[t], i, c)
    BY WhereIs DEF Located
  <2> QED
    BY <1>5, <1>9, <1>16, <2>1, WhereThread
<1>18. \A c \in Asks(i) : /\ ~Carries(x, i, c)
                          /\ Carries(at[t], i, c) <=> c = b
  BY <1>1, <1>2, <1>3, <1>9, <1>15 DEF Carries, Moves, Closing
<1>19. (Carries(x, i, DigestIndex) <=> full) /\ ~Carries(at[t], i, DigestIndex)
  BY <1>1, <1>2, <1>9 DEF Carries, Moves, Closing
<1>20. InHands(t) \in Where(i, b)
  BY <1>4, <1>17, <1>18
<1>21. /\ Where(i, b) = {InHands(t)} /\ b \notin Handled(i) /\ Where(i, DigestIndex) = {} /\ ~Is(i, {"askAgain"})
       /\ ~Is(i, {"discard"})
  BY <1>4, <1>20, HoldsChunk
<1>22. Where(i, b)' = {}
  BY <1>4, <1>17, <1>18, <1>21
<1>23. ASSUME NEW c \in Asks(i), c # b PROVE Where(i, c)' = Where(i, c)
  <2>1. \A p : p \in Where(i, c)' <=> p \in Where(i, c)
    BY <1>17, <1>18, <1>23
  <2>2. Where(i, c)' \subseteq Where(i, c) /\ Where(i, c) \subseteq Where(i, c)'
    BY <2>1
  <2> QED
    BY <2>2
<1>24. Where(i, DigestIndex)' = IF full THEN {InHands(t)} ELSE {}
  BY <1>17, <1>19, <1>21
<1>25. TokensOK(i)'
  <2>1. \A c \in Index(i) : Single(Where(i, c)')
    BY <1>4, <1>22, <1>23, <1>24 DEF TokensOK, Single, Index
  <2> QED
    BY <1>15, <1>16, <2>1 DEF TokensOK, Single
<1>26. Handled(i)' = Handled(i) \cup {b}
  BY <1>4, <1>15, <1>22, <1>23 DEF Handled
<1>27. /\ Cardinality(Handled(i)) \in Nat /\ Cardinality(Handled(i)') = Cardinality(Handled(i)) + 1
       /\ Cardinality(Handled(i)') <= Target(i)
       /\ Cardinality(Handled(i)') = Target(i) => Handled(i)' = Asks(i)
  <2>1. IsFiniteSet(Handled(i)) /\ Cardinality(Handled(i)) \in Nat
    BY <1>5, HandledIs
  <2>2. Cardinality(Handled(i)') = Cardinality(Handled(i)) + 1
    BY <1>21, <1>26, <2>1, FS_AddElement
  <2>3. Handled(i)' \subseteq Asks(i)
    BY <1>4, <1>26 DEF Handled
  <2>4. Cardinality(Handled(i)') <= Target(i) /\ (Cardinality(Handled(i)') = Target(i) => Handled(i)' = Asks(i))
    BY <1>15, <2>3, Fewer
  <2> QED
    BY <2>1, <2>2, <2>4
<1>28. /\ ~Is(i, {"askAgain"})' /\ (Is(i, {"end"})' <=> Is(i, {"end"}))
       /\ Is(i, {"end", "askAgain"})' <=> Is(i, {"end", "askAgain"})
       /\ Is(i, {"discard", "askAgain", "end"})' <=> Is(i, {"discard", "askAgain", "end"})
  <2>1. ASSUME NEW ops \in {{"askAgain"}, {"end"}, {"end", "askAgain"}, {"discard", "askAgain", "end"}}
        PROVE  Is(i, ops)' <=> Is(i, ops)
    <3>1. x.op \notin ops /\ at[t].op \notin ops
      BY <1>1, <1>9
    <3>2. Is(i, ops)' <=> \/ x.op \in ops /\ x.task.item = i
                          \/ \E u \in Threads : u # t /\ at[u].op \in ops /\ at[u].task.item = i
      BY <1>5, <1>9, ThreadsAre
    <3>3. Is(i, ops) <=> \E u \in Threads : u # t /\ at[u].op \in ops /\ at[u].task.item = i
      BY <3>1 DEF Is
    <3> QED
      BY <3>1, <3>2, <3>3
  <2> QED
    BY <1>21, <2>1
<1>29. Counted(i)'
  <2>1. s.processed <= Cardinality(Handled(i)')
    BY <1>4, <1>6, <1>27 DEF ItemOK, Counted
  <2>2. ~s.closed /\ ~Is(i, {"end", "askAgain"})' => s.processed = Cardinality(Handled(i)')
    BY <1>4, <1>6, <1>27, <1>28 DEF ItemOK, Counted
  <2>3. full => Handled(i)' = Asks(i) /\ s.processed = Target(i)
    BY <1>6, <1>15, <1>27, <2>1
  <2>4. Where(i, DigestIndex)' # {} => Handled(i)' = Asks(i) /\ s.processed = Target(i)
    BY <1>24, <2>3
  <2>5. s.processed = Target(i) => Where(i, DigestIndex)' # {}
    BY <1>6, <1>24
  <2> QED
    BY <1>11, <1>15, <1>28, <2>1, <2>2, <2>4, <2>5 DEF Counted
<1>30. Stored(i)'
  <2>1. \A c \in Chunks(i) : Where(i, c) # {} \/ (item[i].file # "none" /\ c \in disk[i].has)
        => Where(i, c)' # {} \/ (s.file # "none" /\ c \in d.has) \/ item[i].closed
    BY <1>4, <1>6, <1>15, <1>23 DEF d
  <2> QED
    BY <1>4, <1>6, <1>11, <1>15, <1>28, <2>1 DEF ItemOK, Stored
<1>31. FileOK(i)' /\ Verified(i)'
  <2>1. FileOf(i, s, d)
    BY <1>4, <1>6 DEF ItemOK, FileOK, FileOf, d
  <2>2. VerifiedOf(s, d)
    BY <1>4, <1>6 DEF ItemOK, Verified, VerifiedOf, d
  <2> QED
    BY <1>5, <1>11, <2>1, <2>2, FilesOK
<1>32. Told(i)'
  BY <1>4, <1>5, <1>6, <1>9, <1>11, ToldStays DEF ItemOK
<1> QED
  BY <1>4, <1>5, <1>10, <1>12, <1>13, <1>14, <1>25, <1>29, <1>30, <1>31, <1>32, CallKeeps DEF ItemOK

-----------------------------------------------------------------------------
(* Any step of a thread: what its tokens have to do.                       *)

\* Every token of item i stays at one place; one is let go of when the item is
\* closed, or when the thread goes on to end it.
TokensGo(x, i) ==
  \A c \in Index(i) :
    /\ Single(Where(i, c)')
    /\ Where(i, c) = {} => Where(i, c)' = {}
    /\ Where(i, c)' = {} => Where(i, c) = {} \/ item'[i].closed \/ (x.op = "end" /\ x.task.item = i)

\* The thread leaves off with the item only when the item is closed.
LeavesOff(t, x, i) ==
  /\ x.op = "askAgain" /\ x.task.item = i <=> at[t].op = "askAgain" /\ at[t].task.item = i
  /\ Marked(at[t], i) => item'[i].closed \/ (x.op = at[t].op /\ x.task.item = i)

LEMMA MovesOK ==
  ASSUME IInv, NEW t \in Threads, NEW x, StepOf(t, x), TypeOK', NEW i \in Items,
         TokensGo(x, i), LeavesOff(t, x, i), AskedOnce(i)', item'[i].processed = item[i].processed,
         item[i].closed => item'[i].closed,
         ~item'[i].closed /\ item[i].file # "none" => disk[i].has \subseteq disk'[i].has /\ item'[i].file # "none"
  PROVE  TokensOK(i)' /\ Counted(i)' /\ Stored(i)'
<1>1. TypeOK /\ UNCHANGED plan /\ TokensOK(i) /\ Counted(i) /\ Stored(i)
  BY DEF IInv, ItemOK, StepOf
<1>2. /\ Threads' = Threads /\ Asks(i)' = Asks(i) /\ Chunks(i)' = Chunks(i) /\ Target(i)' = Target(i)
      /\ Index(i)' = Index(i) /\ Chunks(i) \subseteq Asks(i) /\ Asks(i) \subseteq Index(i) /\ DigestIndex \in Index(i)
  BY <1>1, SameOffer, Offer DEF Index
<1>3. \A j, ops : Is(j, ops)' <=> \/ x.op \in ops /\ x.task.item = j
                                  \/ \E u \in Threads : u # t /\ at[u].op \in ops /\ at[u].task.item = j
  BY <1>1, ThreadsAre
<1>4. Is(i, {"askAgain"})' <=> Is(i, {"askAgain"})
  <2>1. Is(i, {"askAgain"}) <=> \/ at[t].op = "askAgain" /\ at[t].task.item = i
                                \/ \E u \in Threads : u # t /\ at[u].op = "askAgain" /\ at[u].task.item = i
    BY DEF Is
  <2>2. Is(i, {"askAgain"})' <=> \/ x.op = "askAgain" /\ x.task.item = i
                                 \/ \E u \in Threads : u # t /\ at[u].op = "askAgain" /\ at[u].task.item = i
    BY <1>3
  <2> QED
    BY <2>1, <2>2 DEF LeavesOff
<1>5. ASSUME NEW ops \in {{"end"}, {"end", "askAgain"}, {"discard", "askAgain", "end"}}, Is(i, ops)
      PROVE  Is(i, ops)' \/ item'[i].closed
  <2>1. PICK u \in Threads : at[u].op \in ops /\ at[u].task.item = i
    BY <1>5 DEF Is
  <2>2. CASE u = t
    <3>1. Marked(at[t], i)
      BY <2>1, <2>2 DEF Marked
    <3> QED
      BY <1>3, <2>1, <2>2, <3>1 DEF LeavesOff
  <2> QED
    BY <1>3, <2>1, <2>2
<1>6. x.op = "end" /\ x.task.item = i =>
        Is(i, {"end"})' /\ Is(i, {"end", "askAgain"})' /\ Is(i, {"discard", "askAgain", "end"})'
  BY <1>3
<1>7. TokensOK(i)'
  BY <1>1, <1>2 DEF TokensOK, TokensGo, Single
<1>8. Handled(i) \subseteq Handled(i)' /\ Handled(i)' \subseteq Asks(i)
  BY <1>2 DEF Handled, TokensGo
<1>9. ~item'[i].closed /\ ~Is(i, {"end"})' => /\ Handled(i)' = Handled(i)
                                             /\ \A c \in Index(i) : Where(i, c)' = {} <=> Where(i, c) = {}
  <2>1. HAVE ~item'[i].closed /\ ~Is(i, {"end"})'
  <2>2. \A c \in Index(i) : Where(i, c)' = {} <=> Where(i, c) = {}
    BY <1>6, <2>1 DEF TokensGo
  <2> QED
    BY <1>2, <2>2 DEF Handled
<1>10. Counted(i)'
  <2>1. item'[i].processed \in Nat /\ item[i].processed \in Nat
    BY <1>1, <1>2, SameOffer DEF TypeOK, Item
  <2>2. Cardinality(Handled(i)') \in Nat /\ Cardinality(Handled(i)) \in Nat
        /\ Cardinality(Handled(i)) <= Cardinality(Handled(i)')
    <3>1. IsFiniteSet(Asks(i)) /\ Cardinality(Asks(i)) = Target(i) /\ Target(i) \in Nat
      BY <1>1, Offer
    <3>2. IsFiniteSet(Handled(i)') /\ Cardinality(Handled(i)') \in Nat
      BY <1>8, <3>1, Fewer
    <3> QED
      BY <1>8, <3>2, Fewer
  <2>3. item'[i].processed <= Cardinality(Handled(i)')
    BY <1>1, <2>1, <2>2 DEF Counted
  <2>4. ~item'[i].closed /\ ~Is(i, {"end", "askAgain"})' => item'[i].processed = Cardinality(Handled(i)')
    <3>1. HAVE ~item'[i].closed /\ ~Is(i, {"end", "askAgain"})'
    <3>2. ~item[i].closed /\ ~Is(i, {"end", "askAgain"}) /\ ~Is(i, {"end"})'
      BY <1>3, <1>5, <3>1
    <3> QED
      BY <1>1, <1>9, <3>1, <3>2 DEF Counted
  <2>5. Where(i, DigestIndex)' # {} => /\ Handled(i)' = Asks(i)
                                       /\ item'[i].processed = Target(i) \/ Is(i, {"askAgain"})'
    BY <1>1, <1>2, <1>4, <1>8 DEF Counted, TokensGo
  <2>6. ~item'[i].closed /\ ~Is(i, {"end"})' /\ item'[i].processed = Target(i) => Where(i, DigestIndex)' # {}
    BY <1>1, <1>2, <1>5, <1>9 DEF Counted
  <2> QED
    BY <1>1, <1>2, <1>4, <2>3, <2>4, <2>5, <2>6 DEF Counted
<1>11. Stored(i)'
  <2>1. SUFFICES ASSUME ~item'[i].closed, ~Is(i, {"discard", "askAgain", "end"})', NEW c \in Chunks(i)
                 PROVE  Where(i, c)' # {} \/ (item'[i].file # "none" /\ c \in disk'[i].has)
    BY <1>2 DEF Stored
  <2>2. ~item[i].closed /\ ~Is(i, {"discard", "askAgain", "end"}) /\ ~Is(i, {"end"})'
    BY <1>3, <1>5, <2>1
  <2>3. Where(i, c)' = {} <=> Where(i, c) = {}
    BY <1>2, <1>9, <2>1, <2>2
  <2> QED
    BY <1>1, <2>1, <2>2, <2>3 DEF Stored
<1> QED
  BY <1>7, <1>10, <1>11

LEMMA ToldOn ==
  ASSUME TypeOK, NEW t \in Threads, NEW x, StepOf(t, x), NEW i \in Items, Told(i),
         ~Pending(i)' => item'[i].closed,
         Pending(i)' /\ item'[i].closed /\ phase' # "returned" =>
           \/ i \in batched' \/ Cared(x, i)
           \/ /\ Pending(i) /\ item[i].closed /\ phase # "returned"
              /\ i \notin batched /\ ~Cared(at[t], i)
  PROVE  Told(i)'
<1>1. Threads' = Threads /\ at'[t] = x /\ \A u \in Threads : u # t => at'[u] = at[u]
  BY ThreadsAre
<1>2. i \in batched' \/ Cared(x, i) => i \in batched' \/ \E u \in Threads : Cared(at'[u], i)
  BY <1>1
<1>3. (\E u \in Threads : Cared(at[u], i)) /\ ~Cared(at[t], i) => \E u \in Threads : Cared(at'[u], i)
  BY <1>1
<1> QED
  BY <1>1, <1>2, <1>3 DEF Told, Cared

\* What is left to show of a step.
LEMMA StepKeeps ==
  ASSUME IInv, TypeOK', NEW t \in Threads, NEW x, StepOf(t, x), \A i \in Items : Grows(i), ThreadOK(at[t])',
         phase' = "runs" => phase = "runs" /\ at'[Main] = at[Main], QueuedOnce', Queues',
         \A i \in batched' : i \in batched \/ BatchedOK(i)', DoneOK',
         \A i \in Items : TokensOK(i)' /\ ItemOK(i)'
  PROVE  IInv'
<1>1. Items' = Items /\ Threads' = Threads /\ UNCHANGED plan
  BY SameOffer DEF StepOf
<1>2. ThreadsOK'
  <2>1. \A u \in Threads : u # t => ThreadOK(at[u])'
    BY OthersOK
  <2>2. phase' = "runs" => at'[Main] = Idle
    BY DEF IInv, ThreadsOK
  <2> QED
    BY <1>1, <2>1, <2>2 DEF ThreadsOK
<1>3. BatchOK'
  BY <1>1, BatchStays DEF IInv, TypeOK
<1> QED
  BY <1>1, <1>2, <1>3 DEF IInv

\* A step that leaves the items and their tokens as they are.
LEMMA QuietKeeps ==
  ASSUME IInv, TypeOK', NEW t \in Threads, NEW x, StepOf(t, x), UNCHANGED <<item, disk, inflight, writes>>,
         \A i, c : (~Carries(x, i, c) /\ ~Carries(at[t], i, c)) \/ x = at[t],
         \A i : (~Marked(x, i) /\ ~Marked(at[t], i)) \/ x = at[t],
         x.op = "read" => \A w \in Workers : t = Reader(w) => inflight[w] # <<>>, x.op # "prepare" \/ x = at[t],
         ThreadOK(at[t])', phase' = "runs" => phase = "runs" /\ at'[Main] = at[Main],
         phase' # "returned" => phase # "returned", DoneOK',
         \A i \in Items : i \in batched \/ Cared(at[t], i) => i \in batched' \/ Cared(x, i),
         batched' \subseteq batched
  PROVE  IInv'
<1>1. \A i \in Items : Grows(i)
  BY Stands
<1>2. Workers' = Workers /\ Threads' = Threads /\ at'[t] = x /\ \A u \in Threads : u # t => at'[u] = at[u]
  BY SameOffer, ThreadsAre DEF StepOf, IInv
<1>3. QueuedOnce'
  BY <1>2 DEF IInv, QueuedOnce
<1>4. ASSUME NEW w \in Workers PROVE QueueOK(w)'
  <2>1. QueueOK(w)
    BY DEF IInv, Queues, QueueOK
  <2> QED
    BY <1>1, <2>1, QueueStays DEF StepOf
<1>5. ASSUME NEW w \in Workers PROVE (at'[Reader(w)].op = "read" => inflight'[w] # <<>>)
                                     /\ (at'[Reader(w)].op = "prepare" => Len(inflight'[w]) < 2)
  <2>1. Reader(w) \in Threads
    BY DEF Threads
  <2> QED
    BY <1>2, <2>1 DEF IInv, Queues
<1>6. Queues'
  BY <1>2, <1>4, <1>5 DEF Queues, QueueOK
<1>7. ASSUME NEW i \in Items PROVE TokensOK(i)' /\ ItemOK(i)'
  <2>1. \A c : Where(i, c)' = Where(i, c)
    BY ThreadKeeps DEF IInv
  <2>2. (Marked(x, i) <=> Marked(at[t], i)) /\ (Marked(x, i) => x.op = at[t].op)
    OBVIOUS
  <2> QED
    BY <2>1, <2>2, ItemApart
<1> QED
  BY <1>1, <1>3, <1>6, <1>7, StepKeeps

-----------------------------------------------------------------------------
(* The calls that change the tokens of their item.                         *)

LEMMA ArmKeeps ==
  ASSUME IInv, NEW t \in Threads, Arm(t)
  PROVE  IInv'
<1>1. at[t].op = "arm" /\ UNCHANGED <<disk, control, net, batched, ending, world>> /\ Returns(t)
  BY DEF Arm
<1>2. PICK i \in Items : i = at[t].task.item
  BY <1>1, HasNoEnds DEF Closing
<1>3. /\ at[t] \in Thread /\ (\A j : ~Cared(at[t], j)) /\ item[i] \in Item /\ disk[i] \in Disk
      /\ TokensOK(i) /\ ItemOK(i) /\ item[i].next <= Target(i)
  <2>1. at[t] \in Thread /\ \A j : ~Cared(at[t], j)
    BY <1>1, HasNoEnds DEF Closing
  <2> QED
    BY <1>2, <2>1 DEF IInv, TypeOK, TokensOK, AskedOnce
<1>4. TypeOK /\ UNCHANGED <<inflight, writes, conn, control, phase, doneSent, room, acts, batched, marked, faults, plan>>
  BY <1>1 DEF IInv, net, ending, world
<1>5. StepOf(t, Idle) /\ Idle \in Thread /\ Idle.op = "idle"
  BY <1>1, <1>4, Shapes, ThreadTypes
<1>6. CASE ~Pending(i)
  <2>1. item[i].closed
    BY <1>3, <1>6 DEF ItemOK, Told
  <2>2. Rests(t, Idle)
    BY <1>1, <1>2, <1>4, <1>5, <1>6 DEF Rests, TypeOK, Arm, Closing
  <2> QED
    BY <1>2, <2>1, <2>2, CallReturns
<1>7. CASE Pending(i)
  <2> DEFINE s == [item[i] EXCEPT !.digest = TRUE]  d == disk[i]  x == Idle
  <2>1. /\ s \in Item /\ s.next = item[i].next /\ s.retries = item[i].retries /\ s.digest
        /\ s.processed = item[i].processed /\ s.state = item[i].state /\ s.closed = item[i].closed
        /\ s.file = item[i].file /\ s.opened = item[i].opened /\ s.restarted = item[i].restarted
        /\ s.local = item[i].local /\ s.fresh = item[i].fresh
    BY <1>3 DEF Item
  <2>2. item' = [item EXCEPT ![i] = s] /\ disk' = [disk EXCEPT ![i] = d]
    BY <1>1, <1>2, <1>4, <1>7 DEF Arm, TypeOK
  <2> HIDE DEF s, d, x
  <2>3. x \in Thread /\ x.op = "idle" /\ StepOf(t, x)
    BY <1>5 DEF x
  <2>4. CallOf(t, x, i, s, d)
    BY <1>1, <1>3, <1>4, <2>1, <2>2, <2>3 DEF CallOf, TypeOK, d
  <2>5. item'[i] = s /\ disk'[i] = d /\ at'[t] = x /\ TypeOK'
    BY <1>4, <2>4, CallTypes
  <2>6. /\ Where(i, DigestIndex) = {InHands(t)} /\ ~item[i].digest /\ DigestIndex \notin item[i].retries
    <3>1. InHands(t) \in Where(i, DigestIndex) /\ ~item[i].digest /\ DigestIndex \notin item[i].retries
      BY <1>1, <1>2, HoldsDigest DEF Closing
    <3>2. Single(Where(i, DigestIndex))
      BY <1>3 DEF TokensOK, Index
    <3> QED
      BY <3>1, <3>2 DEF Single
  <2>7. \A c : ~Carries(x, i, c) /\ (c # DigestIndex => ~Carries(at[t], i, c))
    BY <1>1, <2>3 DEF Carries, Moves, Closing
  <2>8. ASSUME NEW c \in Index(i), c # DigestIndex PROVE Where(i, c)' = Where(i, c)
    <3>1. Ahead(item'[i], c) <=> Ahead(item[i], c)
      BY <2>1, <2>5, <2>8 DEF Ahead
    <3> QED
      BY <1>4, <2>3, <2>7, <2>8, <3>1, ThreadKeeps
  <2>9. Where(i, DigestIndex)' = {InItem}
    <3>1. Located(i, DigestIndex) /\ Located(i, DigestIndex)'
      BY WhereIs, WhereWillBe
    <3>2. InItem \in Where(i, DigestIndex)'
      BY <2>1, <2>5, <3>1 DEF Located, Ahead
    <3>3. Threads' = Threads /\ Workers' = Workers /\ \A u \in Threads : u # t => at'[u] = at[u]
      BY <1>4, <2>3, SameOffer, ThreadsAre
    <3>4. ASSUME NEW p \in Where(i, DigestIndex)', p # InItem PROVE FALSE
      <4>1. CASE \E w \in Workers : p = InFlightOf(w) \/ p = InWrites(w)
        <5>1. p \in Where(i, DigestIndex)
          BY <1>4, <3>1, <3>3, <3>4, <4>1 DEF Located
        <5> QED
          BY <2>6, <4>1, <5>1, PlacesApart
      <4>2. CASE \E u \in Threads : p = InHands(u)
        <5>1. PICK u \in Threads : p = InHands(u)
          BY <4>2
        <5>2. Carries(at'[u], i, DigestIndex)
          BY <3>1, <3>3, <3>4, <5>1 DEF Located
        <5>3. u # t
          BY <2>5, <2>7, <5>2
        <5>4. InHands(u) \in Where(i, DigestIndex)
          BY <3>1, <3>3, <5>2, <5>3 DEF Located
        <5> QED
          BY <2>6, <5>3, <5>4, PlacesApart
      <4> QED
        BY <3>1, <3>3, <3>4, <4>1, <4>2 DEF Located
    <3> QED
      BY <3>2, <3>4
  <2>10. TokensGo(x, i)
    BY <1>3, <2>6, <2>8, <2>9 DEF TokensGo, TokensOK, Single
  <2>11. AskedOnce(i)'
    <3>1. Target(i)' = Target(i) /\ Index(i)' = Index(i)
      BY <1>4, SameOffer
    <3> QED
      BY <1>3, <2>1, <2>5, <2>6, <3>1 DEF AskedOnce, TokensOK
  <2>12. TokensOK(i)' /\ Counted(i)' /\ Stored(i)'
    <3>1. LeavesOff(t, x, i)
      BY <1>1, <2>3 DEF LeavesOff, Marked
    <3>2. ~s.closed /\ item[i].file # "none" => disk[i].has \subseteq d.has /\ s.file # "none"
      BY <2>1 DEF d
    <3> QED
      BY <2>1, <2>3, <2>5, <2>10, <2>11, <3>1, <3>2, MovesOK
  <2>13. ItemOK(i)'
    <3>1. FileOf(i, s, d) /\ VerifiedOf(s, d)
      BY <1>3, <2>1 DEF ItemOK, FileOK, FileOf, Verified, VerifiedOf, d
    <3>2. FileOK(i)' /\ Verified(i)'
      BY <1>4, <2>5, <3>1, FilesOK
    <3>3. Told(i)'
      BY <1>3, <1>4, <2>1, <2>3, <2>5, ToldStays DEF ItemOK
    <3> QED
      BY <2>12, <3>2, <3>3 DEF ItemOK
  <2>14. Grows(i)
    BY <2>1, <2>5 DEF Grows, Pending, d
  <2>15. ThreadOK(at[t])'
    BY <1>4, <2>5, IdleOK DEF x
  <2>16. Own(at[t], i) /\ Own(x, i)
    BY <1>2, <2>3 DEF Own, Moves, Closing
  <2> QED
    BY <1>3, <1>4, <2>4, <2>12, <2>13, <2>14, <2>15, <2>16, CallKeeps
<1> QED
  BY <1>6, <1>7

LEMMA DiscardKeeps ==
  ASSUME IInv, NEW t \in Threads, DiscardItem(t)
  PROVE  IInv'
<1>1. at[t].op = "discard" /\ UNCHANGED <<control, net, batched, ending, world>>
  BY DEF DiscardItem
<1>2. PICK i \in Items : i = at[t].task.item
  BY <1>1, HasNoEnds DEF Closing
<1>3. /\ at[t] \in Thread /\ at[t].ends = {} /\ at[t].taken = {} /\ (\A j : ~Cared(at[t], j))
      /\ item[i] \in Item /\ disk[i] \in Disk /\ TokensOK(i) /\ ItemOK(i)
  <2>1. at[t] \in Thread /\ at[t].ends = {} /\ at[t].taken = {} /\ \A j : ~Cared(at[t], j)
    BY <1>1, HasNoEnds DEF Closing
  <2> QED
    BY <1>2, <2>1 DEF IInv, TypeOK
<1>4. TypeOK /\ UNCHANGED <<inflight, writes, conn, control, phase, doneSent, room, acts, batched, marked, faults, plan>>
  BY <1>1 DEF IInv, net, ending, world
<1>5. CASE item[i].closed /\ Returns(t) /\ UNCHANGED <<item, disk>>
  <2>1. StepOf(t, Idle)
    BY <1>4, <1>5, Shapes
  <2>2. Rests(t, Idle)
    BY <1>1, <1>2, <1>4, <1>5, <2>1 DEF Rests, TypeOK, Closing
  <2> QED
    BY <1>2, <1>5, <2>2, CallReturns
<1>6. CASE ~item[i].closed
  <2> DEFINE s == [item[i] EXCEPT !.file = "none", !.processed = 0, !.fresh = {}]
             d == IF item[i].file = "none" THEN disk[i] ELSE [disk[i] EXCEPT !.has = {}, !.kept = {}, !.old = {}]
             x == StepsTo(at[t], "askAgain")
  <2>1. /\ s \in Item /\ s.next = item[i].next /\ s.retries = item[i].retries /\ s.digest = item[i].digest
        /\ s.processed = 0 /\ s.state = item[i].state /\ s.closed = item[i].closed
        /\ s.file = "none" /\ s.opened = item[i].opened /\ s.restarted = item[i].restarted
        /\ s.local = item[i].local /\ s.fresh = {}
    BY <1>3 DEF Item
  <2>2. /\ Where(i, DigestIndex) # {} /\ item[i].file = "open" /\ Handled(i) = Asks(i)
        /\ (\A c \in Asks(i) : Where(i, c) = {}) /\ item[i].opened
    BY <1>1, <1>2, <1>6, HoldsDigest DEF Closing
  <2>3. d \in Disk /\ d.has = {} /\ d.kept = {} /\ d.old = {} /\ d.named = disk[i].named
    BY <1>3, <2>2 DEF Disk
  <2>4. item' = [item EXCEPT ![i] = s] /\ disk' = [disk EXCEPT ![i] = d]
    <3>1. /\ item' = [item EXCEPT ![i].file = "none", ![i].processed = 0, ![i].fresh = {}]
          /\ disk' = IF item[i].file = "none" THEN disk
                     ELSE [disk EXCEPT ![i].has = {}, ![i].kept = {}, ![i].old = {}]
      BY <1>1, <1>2, <1>4, <1>6 DEF DiscardItem
    <3>2. item' = [item EXCEPT ![i] = s]
      BY <3>1
    <3>3. disk' = [disk EXCEPT ![i] = [disk[i] EXCEPT !.has = {}, !.kept = {}, !.old = {}]]
      BY <2>2, <3>1
    <3> QED
      BY <2>2, <3>2, <3>3
  <2>5. Step(t, "askAgain")
    BY <1>2, <1>6 DEF DiscardItem
  <2>6. "askAgain" \in Ops
    BY DEF Ops, Closing
  <2>7. /\ x \in Thread /\ x.op = "askAgain" /\ x.task = at[t].task /\ x.ends = {} /\ x.taken = {} /\ StepOf(t, x)
    BY <1>3, <1>4, <2>5, <2>6, ThreadTypes, Shapes
  <2> HIDE DEF s, d, x
  <2>8. CallOf(t, x, i, s, d)
    BY <1>1, <1>3, <1>4, <2>1, <2>3, <2>4, <2>7 DEF CallOf, TypeOK
  <2>9. item'[i] = s /\ disk'[i] = d /\ at'[t] = x /\ TypeOK'
    BY <1>4, <2>8, CallTypes
  <2>10. /\ Asks(i)' = Asks(i) /\ Index(i)' = Index(i) /\ Target(i)' = Target(i) /\ Target(i) \in Nat \ {0}
         /\ IsFiniteSet(Asks(i)) /\ Cardinality(Asks(i)) = Target(i)
    BY <1>4, SameOffer, Offer
  <2>11. AskedOnce(i)' /\ \A c : Ahead(item'[i], c) <=> Ahead(item[i], c)
    BY <1>3, <1>4, <2>1, <2>9, AskedStays DEF TokensOK
  <2>12. \A c : Where(i, c)' = Where(i, c)
    <3>1. \A c : Carries(x, i, c) <=> Carries(at[t], i, c)
      BY <1>1, <2>7 DEF Carries, Closing, Moves
    <3> QED
      BY <1>4, <2>7, <2>11, <3>1, ThreadKeeps
  <2>13. TokensOK(i)'
    BY <1>3, <2>10, <2>11, <2>12 DEF TokensOK, Single
  <2>14. Handled(i)' = Handled(i)
    BY <2>10, <2>12 DEF Handled
  <2>15. Is(i, {"askAgain"})' /\ Is(i, {"end", "askAgain"})' /\ Is(i, {"discard", "askAgain", "end"})'
    <3>1. \A j, ops : Is(j, ops)' <=> \/ x.op \in ops /\ x.task.item = j
                                      \/ \E u \in Threads : u # t /\ at[u].op \in ops /\ at[u].task.item = j
      BY <1>4, <2>7, ThreadsAre
    <3> QED
      BY <1>2, <2>7, <3>1
  <2>16. Counted(i)'
    <3>1. Cardinality(Handled(i)') = Target(i)
      BY <2>2, <2>10, <2>14
    <3>2. Handled(i)' = Asks(i)
      BY <2>2, <2>14
    <3> QED
      BY <2>1, <2>9, <2>10, <2>15, <3>1, <3>2 DEF Counted
  <2>17. Stored(i)'
    BY <2>15 DEF Stored
  <2>18. FileOK(i)' /\ Verified(i)'
    <3>1. FileOf(i, s, d)
      BY <1>3, <2>1, <2>2, <2>3 DEF FileOf
    <3>2. VerifiedOf(s, d)
      BY <1>3, <2>1, <2>3 DEF ItemOK, Verified, VerifiedOf
    <3> QED
      BY <1>4, <2>9, <3>1, <3>2, FilesOK
  <2>19. Told(i)'
    BY <1>3, <1>4, <2>1, <2>7, <2>9, ToldStays DEF ItemOK
  <2>20. Grows(i)
    <3>1. ~Is(i, {"count", "writeMade"})
      <4>1. SUFFICES ASSUME NEW u \in Threads, at[u].op \in {"count", "writeMade"}, at[u].task.item = i
                     PROVE  FALSE
        BY DEF Is
      <4>2. ThreadOK(at[u])
        BY DEF IInv, ThreadsOK
      <4>3. at[u].task.index \in Asks(i) /\ at[u].task.index # DigestIndex
        BY <1>4, <4>1, <4>2, Offer DEF ThreadOK, TaskOf, Moves
      <4>4. Carries(at[u], i, at[u].task.index)
        BY <4>1, <4>3 DEF Carries, Moves
      <4>5. Located(i, at[u].task.index)
        BY WhereIs
      <4>6. InHands(u) \in Where(i, at[u].task.index)
        BY <4>4, <4>5 DEF Located
      <4> QED
        BY <2>2, <4>3, <4>6
    <3> QED
      BY <2>1, <2>3, <2>9, <3>1 DEF Grows, Pending
  <2>21. ThreadOK(at[t])'
    <3>1. TaskOf(x, item'[x.task.item], disk'[x.task.item])
      BY <1>2, <2>7 DEF TaskOf, Moves
    <3> QED
      BY <1>4, <2>7, <2>9, <3>1, ThreadFits
  <2>22. Own(at[t], i) /\ Own(x, i)
    BY <1>2, <2>7 DEF Own
  <2> QED
    BY <1>3, <1>4, <2>8, <2>13, <2>16, <2>17, <2>18, <2>19, <2>20, <2>21, <2>22, CallKeeps DEF ItemOK
<1> QED
  BY <1>2, <1>5, <1>6 DEF DiscardItem

LEMMA AskAgainKeeps ==
  ASSUME IInv, NEW t \in Threads, AskAgain(t)
  PROVE  IInv'
<1>1. at[t].op = "askAgain" /\ UNCHANGED <<disk, control, net, batched, ending, world>> /\ Returns(t)
  BY DEF AskAgain
<1>2. PICK i \in Items : i = at[t].task.item
  BY <1>1, HasNoEnds DEF Closing
<1>3. /\ at[t] \in Thread /\ (\A j : ~Cared(at[t], j)) /\ item[i] \in Item /\ disk[i] \in Disk
      /\ TokensOK(i) /\ ItemOK(i)
  <2>1. at[t] \in Thread /\ \A j : ~Cared(at[t], j)
    BY <1>1, HasNoEnds DEF Closing
  <2> QED
    BY <1>2, <2>1 DEF IInv, TypeOK
<1>4. TypeOK /\ UNCHANGED <<inflight, writes, conn, control, phase, doneSent, room, acts, batched, marked, faults, plan>>
  BY <1>1 DEF IInv, net, ending, world
<1> DEFINE none == [c \in {} |-> 0]
           s == [item[i] EXCEPT !.next = 0, !.retries = {}, !.bad = none]  d == disk[i]  x == Idle
<1>5. none \in Counts
  <2>1. none \in [{} -> Nat] /\ {} \in SUBSET Nat
    OBVIOUS
  <2> QED
    BY <2>1 DEF Counts
<1>6. /\ s \in Item /\ s.next = 0 /\ s.retries = {} /\ s.digest = item[i].digest
      /\ s.processed = item[i].processed /\ s.state = item[i].state /\ s.closed = item[i].closed
      /\ s.file = item[i].file /\ s.opened = item[i].opened /\ s.restarted = item[i].restarted
      /\ s.local = item[i].local /\ s.fresh = item[i].fresh
  <2> HIDE DEF none
  <2> QED
    BY <1>3, <1>5 DEF Item
<1>7. item' = [item EXCEPT ![i] = s] /\ disk' = [disk EXCEPT ![i] = d]
  BY <1>1, <1>2, <1>4 DEF AskAgain, TypeOK
<1>8. StepOf(t, x) /\ x \in Thread /\ x.op = "idle"
  BY <1>1, <1>4, Shapes, ThreadTypes
<1> HIDE DEF s, d, x, none
<1>9. CallOf(t, x, i, s, d)
  BY <1>1, <1>3, <1>4, <1>6, <1>7, <1>8 DEF CallOf, TypeOK, d
<1>10. item'[i] = s /\ disk'[i] = d /\ at'[t] = x /\ TypeOK'
  BY <1>4, <1>9, CallTypes
<1>11. /\ Asks(i)' = Asks(i) /\ Index(i)' = Index(i) /\ Target(i)' = Target(i) /\ Chunks(i)' = Chunks(i)
       /\ Target(i) \in Nat \ {0} /\ DigestIndex \notin Asks(i) /\ Chunks(i) \subseteq Asks(i) /\ Asks(i) \subseteq Nat
  BY <1>4, SameOffer, Offer
\* The thread held the digest, and every chunk was handled.
<1>12. \A c : Located(i, c)
  BY WhereIs
<1>13. InHands(t) \in Where(i, DigestIndex)
  BY <1>1, <1>2, <1>12 DEF Located, Carries, Closing
<1>14. Where(i, DigestIndex) = {InHands(t)}
  BY <1>3, <1>13 DEF TokensOK, Index, Single
<1>15. ~Ahead(item[i], DigestIndex)
  BY <1>12, <1>14, PlacesApart DEF Located
<1>16. \A c \in Asks(i) : Where(i, c) = {}
  <2>1. Handled(i) = Asks(i)
    BY <1>3, <1>14 DEF ItemOK, Counted
  <2> QED
    BY <2>1 DEF Handled
<1>17. \A c : ~Carries(x, i, c)
  BY <1>8 DEF Carries, Moves, Closing
<1>18. Where(i, DigestIndex)' = {}
  <2>1. Ahead(item'[i], DigestIndex) <=> Ahead(item[i], DigestIndex)
    BY <1>6, <1>10, <1>15 DEF Ahead
  <2> QED
    BY <1>1, <1>2, <1>3, <1>4, <1>8, <1>17, <2>1, ThreadDrops DEF Carries, Closing, TokensOK, Index
<1>19. ASSUME NEW c \in Asks(i) PROVE Where(i, c)' = {InItem}
  <2>1. Located(i, c) /\ Located(i, c)'
    BY WhereIs, WhereWillBe
  <2>2. Threads' = Threads /\ Workers' = Workers /\ \A u \in Threads : u # t => at'[u] = at[u]
    BY <1>4, <1>8, SameOffer, ThreadsAre
  <2>3. InItem \in Where(i, c)'
    BY <1>6, <1>10, <1>11, <1>19, <2>1 DEF Located, Ahead
  <2>4. ASSUME NEW p \in Where(i, c)', p # InItem PROVE FALSE
    <3>1. p \in Where(i, c)
      BY <1>4, <1>10, <1>17, <2>1, <2>2, <2>4 DEF Located
    <3> QED
      BY <1>16, <1>19, <3>1
  <2> QED
    BY <2>3, <2>4
<1>20. TokensOK(i)'
  <2>1. AskedOnce(i)'
    BY <1>6, <1>10, <1>11, <1>15 DEF AskedOnce, Ahead
  <2> QED
    BY <1>11, <1>18, <1>19, <2>1 DEF TokensOK, Single, Index
<1>21. Handled(i)' = {}
  BY <1>11, <1>19 DEF Handled
<1>22. s.processed = 0 /\ Cardinality(Handled(i)') = 0
  <2>1. Is(i, {"askAgain"})
    BY <1>1, <1>2 DEF Is
  <2> QED
    BY <1>3, <1>6, <1>21, <2>1, FS_EmptySet DEF ItemOK, Counted
<1>23. Counted(i)'
  BY <1>10, <1>11, <1>18, <1>22 DEF Counted
<1>24. Stored(i)'
  BY <1>11, <1>19 DEF Stored
<1>25. FileOK(i)' /\ Verified(i)'
  <2>1. FileOf(i, s, d) /\ VerifiedOf(s, d)
    BY <1>3, <1>6 DEF ItemOK, FileOK, FileOf, Verified, VerifiedOf, d
  <2> QED
    BY <1>4, <1>10, <2>1, FilesOK
<1>26. Told(i)'
  BY <1>3, <1>4, <1>6, <1>8, <1>10, ToldStays DEF ItemOK
<1>27. Grows(i)
  BY <1>6, <1>10 DEF Grows, Pending, d
<1>28. ThreadOK(at[t])'
  BY <1>4, <1>10, IdleOK DEF x
<1>29. Own(at[t], i) /\ Own(x, i)
  BY <1>2, <1>8 DEF Own, Moves, Closing
<1> QED
  BY <1>3, <1>4, <1>9, <1>20, <1>23, <1>24, <1>25, <1>26, <1>27, <1>28, <1>29, CallKeeps DEF ItemOK

-----------------------------------------------------------------------------
(* The calls that mark what ended, and name a batch.                       *)

EndsOf(op, ends) == [Idle EXCEPT !.op = op, !.ends = ends]
LEMMA EndsTypes ==
  ASSUME TypeOK, NEW ends \in SUBSET (Nat \X Outcomes)
  PROVE  /\ \A op \in {"flush", "mark", "force"} :
              /\ EndsOf(op, ends) \in Thread /\ EndsOf(op, ends).op = op /\ EndsOf(op, ends).ends = ends
              /\ EndsOf(op, ends).taken = {}
         /\ After(ends) \in Thread /\ After(ends).op \in {"idle", "mark"} /\ After(ends).ends = ends
         /\ After(ends).taken = {} /\ (After(ends).op = "idle" => ends = {})
<1>1. Idle \in Thread /\ Idle.op = "idle" /\ Idle.ends = {} /\ Idle.taken = {}
  BY ThreadTypes
<1>2. \A op \in {"flush", "mark", "force"} :
        /\ EndsOf(op, ends) \in Thread /\ EndsOf(op, ends).op = op /\ EndsOf(op, ends).ends = ends
        /\ EndsOf(op, ends).taken = {}
  BY <1>1 DEF EndsOf, Thread, Ops, Ending
<1>3. After(ends) = IF ends = {} THEN Idle ELSE EndsOf("mark", ends)
  BY DEF After, EndsOf
<1> QED
  BY <1>1, <1>2, <1>3

LEMMA EndThreadOK ==
  ASSUME NEW t, NEW x, at'[t] = x, x.op \in {"idle", "mark", "flush", "force", "names"},
         x.op = "idle" => x.ends = {}, x.op # "names" => x.taken = {},
         \A e \in x.ends : e[1] \in Items' /\ item'[e[1]].closed /\ (e[2] = "done" => disk'[e[1]].named \in Good),
         \A j \in x.taken : j \in Items' /\ item'[j].closed /\ disk'[j].old = {}
  PROVE  ThreadOK(at[t])'
  BY DEF ThreadOK, TaskOf, EndOK, BatchedOK, Moves, Closing, Ending

LEMMA MarkKeeps ==
  ASSUME IInv, NEW t \in Threads, Mark(t)
  PROVE  IInv'
<1>1. at[t].op = "mark" /\ UNCHANGED <<disk, control, net, batched, ending, world>>
  BY DEF Mark
<1>2. PICK e \in at[t].ends :
        IF Pending(e[1])
        THEN /\ item' = [item EXCEPT ![e[1]].state = e[2]]
             /\ at' = [at EXCEPT ![t] = [Idle EXCEPT !.op = "flush", !.ends = at[t].ends \ {e}]]
        ELSE at' = [at EXCEPT ![t] = After(at[t].ends \ {e})] /\ UNCHANGED item
  BY DEF Mark
<1>3. PICK i : i = e[1]
  OBVIOUS
<1>4. at[t] \in Thread /\ ThreadOK(at[t]) /\ TypeOK
  BY DEF IInv, TypeOK, ThreadsOK
<1>5. /\ i \in Items /\ item[i].closed /\ at[t].taken = {} /\ (e[2] = "done" => disk[i].named \in Good)
      /\ \A y \in at[t].ends : y[1] \in Items /\ item[y[1]].closed /\ (y[2] = "done" => disk[y[1]].named \in Good)
  BY <1>1, <1>2, <1>3, <1>4 DEF ThreadOK, TaskOf, EndOK
<1>6. /\ at[t].ends \in SUBSET (Nat \X Outcomes) /\ e[2] \in Outcomes
      /\ at[t].ends \ {e} \in SUBSET (Nat \X Outcomes)
  BY <1>2, <1>4 DEF Thread
<1>7. item[i] \in Item /\ disk[i] \in Disk /\ TokensOK(i) /\ ItemOK(i)
  BY <1>5 DEF IInv, TypeOK
<1>8. UNCHANGED <<inflight, writes, conn, control, phase, doneSent, room, acts, batched, marked, faults, plan>>
  BY <1>1 DEF net, ending, world
<1> DEFINE s == IF Pending(i) THEN [item[i] EXCEPT !.state = e[2]] ELSE item[i]  d == disk[i]
           x == IF Pending(i) THEN EndsOf("flush", at[t].ends \ {e}) ELSE After(at[t].ends \ {e})
<1>9. /\ s \in Item /\ s.next = item[i].next /\ s.retries = item[i].retries /\ s.digest = item[i].digest
      /\ s.processed = item[i].processed /\ s.state = (IF Pending(i) THEN e[2] ELSE item[i].state) /\ s.closed
      /\ s.file = item[i].file /\ s.opened = item[i].opened /\ s.restarted = item[i].restarted
      /\ s.local = item[i].local /\ s.fresh = item[i].fresh
  BY <1>5, <1>6, <1>7 DEF Item, States
<1>10. item' = [item EXCEPT ![i] = s] /\ disk' = [disk EXCEPT ![i] = d]
  BY <1>1, <1>2, <1>3, <1>4, <1>5 DEF TypeOK
<1>11. StepOf(t, x)
  BY <1>2, <1>3, <1>8 DEF StepOf, EndsOf
<1>12. /\ x \in Thread /\ x.op \in {"idle", "mark", "flush"} /\ x.ends = at[t].ends \ {e} /\ x.taken = {}
       /\ x.op = "idle" => x.ends = {}
  BY <1>4, <1>6, EndsTypes
<1> HIDE DEF s, d, x
<1>13. CallOf(t, x, i, s, d)
  BY <1>1, <1>4, <1>7, <1>8, <1>9, <1>10, <1>11, <1>12 DEF CallOf, TypeOK, d
<1>14. item'[i] = s /\ disk'[i] = d /\ at'[t] = x /\ TypeOK'
  BY <1>4, <1>5, <1>13, CallTypes
<1>15. ~Pending(i)'
  BY <1>6, <1>9, <1>14 DEF Pending, Outcomes
<1>16. AskedOnce(i)' /\ \A c : Ahead(item'[i], c) <=> Ahead(item[i], c)
  BY <1>5, <1>7, <1>8, <1>9, <1>14, AskedStays DEF TokensOK
<1>17. TokensGo(x, i)
  <2>1. \A c : ~Carries(x, i, c) /\ ~Carries(at[t], i, c)
    BY <1>1, <1>12 DEF Carries, Moves, Closing
  <2>2. \A c : Where(i, c)' = Where(i, c)
    BY <1>4, <1>8, <1>11, <1>16, <2>1, ThreadKeeps
  <2> QED
    BY <1>7, <2>2 DEF TokensGo, TokensOK, Single
<1>18. TokensOK(i)' /\ Counted(i)' /\ Stored(i)'
  <2>1. LeavesOff(t, x, i)
    BY <1>1, <1>12 DEF LeavesOff, Marked
  <2> QED
    BY <1>5, <1>9, <1>11, <1>14, <1>16, <1>17, <2>1, MovesOK
<1>19. FileOK(i)' /\ Verified(i)'
  <2>1. FileOf(i, s, d)
    BY <1>5, <1>7, <1>9 DEF ItemOK, FileOK, FileOf, d
  <2>2. VerifiedOf(s, d)
    BY <1>5, <1>7, <1>9 DEF ItemOK, Verified, VerifiedOf, d
  <2> QED
    BY <1>8, <1>14, <2>1, <2>2, FilesOK
<1>20. Told(i)'
  BY <1>4, <1>5, <1>7, <1>9, <1>11, <1>14, <1>15, ToldOn DEF ItemOK
<1>21. Grows(i)
  BY <1>9, <1>14 DEF Grows, d
<1>22. ThreadOK(at[t])'
  <2>1. Items' = Items
    BY <1>8, SameOffer
  <2>2. \A j \in Items : j # i => item'[j] = item[j] /\ disk'[j] = disk[j]
    BY <1>4, <1>5, <1>13, CallTypes
  <2>3. \A y \in x.ends : y[1] \in Items' /\ item'[y[1]].closed /\ (y[2] = "done" => disk'[y[1]].named \in Good)
    BY <1>5, <1>9, <1>12, <1>14, <2>1, <2>2 DEF d
  <2> QED
    BY <1>12, <1>14, <2>3, EndThreadOK
<1>23. Own(at[t], i) /\ Own(x, i)
  BY <1>1, <1>12 DEF Own, Moves, Closing
<1>24. ASSUME NEW j \in Items, j # i, j \in batched \/ Cared(at[t], j) PROVE j \in batched' \/ Cared(x, j)
  BY <1>3, <1>5, <1>8, <1>12, <1>24 DEF Cared
<1> QED
  BY <1>5, <1>8, <1>13, <1>18, <1>19, <1>20, <1>21, <1>22, <1>23, <1>24, CallKeeps DEF ItemOK

LEMMA FlushKeeps ==
  ASSUME IInv, NEW t \in Threads, Flush(t)
  PROVE  IInv'
<1>1. at[t].op \in {"flush", "force"} /\ UNCHANGED <<item, disk, control, net, ending, world>>
  BY DEF Flush
<1>2. at[t] \in Thread /\ ThreadOK(at[t]) /\ TypeOK /\ BatchOK
  BY DEF IInv, TypeOK, ThreadsOK
<1>3. /\ at[t].taken = {} /\ at[t].ends \in SUBSET (Nat \X Outcomes) /\ batched \subseteq Items /\ Items \subseteq Nat
      /\ \A y \in at[t].ends : y[1] \in Items /\ item[y[1]].closed /\ (y[2] = "done" => disk[y[1]].named \in Good)
  <2>1. at[t].ends \in SUBSET (Nat \X Outcomes) /\ Items \subseteq Nat /\ batched \subseteq Items
    BY <1>2, Offer DEF Thread, TypeOK
  <2>2. at[t].op # "end" /\ at[t].op # "names"
    BY <1>1
  <2> QED
    BY <1>2, <2>1, <2>2 DEF ThreadOK, TaskOf, EndOK
<1>4. PICK x : /\ StepOf(t, x) /\ x \in Thread /\ x.op \in {"idle", "mark", "names"} /\ x.ends = at[t].ends
               /\ x.op = "idle" => x.ends = {}
               /\ (x.taken = {} /\ batched' = batched) \/ (x.op = "names" /\ x.taken = batched /\ batched' = {})
  <2>1. CASE batched # {} /\ (at[t].op = "force" \/ Due)
    <3> DEFINE x == [at[t] EXCEPT !.op = "names", !.taken = batched]
    <3>1. batched \in SUBSET Nat
      BY <1>3
    <3>2. x \in Thread /\ x.op = "names" /\ x.ends = at[t].ends /\ x.taken = batched
      BY <1>2, <3>1 DEF Thread, Ops, Ending
    <3>3. at' = [at EXCEPT ![t] = x] /\ batched' = {} /\ UNCHANGED plan
      BY <1>1, <1>2, <2>1 DEF Flush, TypeOK, world
    <3> HIDE DEF x
    <3> QED
      BY <3>2, <3>3 DEF StepOf
  <2>2. CASE ~(batched # {} /\ (at[t].op = "force" \/ Due))
    <3> DEFINE x == After(at[t].ends)
    <3>1. at' = [at EXCEPT ![t] = x] /\ UNCHANGED <<batched, plan>>
      BY <1>1, <2>2 DEF Flush, world
    <3>2. x \in Thread /\ x.op \in {"idle", "mark"} /\ x.ends = at[t].ends /\ x.taken = {} /\ (x.op = "idle" => x.ends = {})
      BY <1>2, <1>3, EndsTypes
    <3> HIDE DEF x
    <3> QED
      BY <3>1, <3>2 DEF StepOf
  <2> QED
    BY <2>1, <2>2
<1>5. TypeOK' /\ UNCHANGED <<item, disk, inflight, writes, plan, doneSent, phase>>
  <2>1. Threads' = Threads /\ Items' = Items /\ Workers' = Workers
    BY <1>4, SameOffer DEF StepOf
  <2>2. at' \in [Threads -> Thread] /\ batched' \subseteq Items
    BY <1>2, <1>3, <1>4 DEF StepOf, TypeOK
  <2> QED
    BY <1>1, <1>2, <2>1, <2>2 DEF TypeOK, control, net, ending, world
<1>6. at'[t] = x /\ \A u \in Threads : u # t => at'[u] = at[u]
  BY <1>2, <1>4, ThreadsAre
<1>7. \A i, c : ~Carries(x, i, c) /\ ~Carries(at[t], i, c)
  BY <1>1, <1>4 DEF Carries, Moves, Closing
<1>8. \A i : ~Marked(x, i) /\ ~Marked(at[t], i)
  BY <1>1, <1>4 DEF Marked
<1>9. ThreadOK(at[t])'
  <2>1. Items' = Items
    BY <1>5, SameOffer
  <2>2. \A j \in x.taken : j \in Items /\ item[j].closed /\ disk[j].old = {}
    BY <1>2, <1>3, <1>4 DEF BatchOK, BatchedOK
  <2>3. x.op # "names" => x.taken = {}
    BY <1>4
  <2> QED
    BY <1>3, <1>4, <1>5, <1>6, <2>1, <2>2, <2>3, EndThreadOK
<1>10. phase' = "runs" => phase = "runs" /\ at'[Main] = at[Main]
  <2>1. phase = "runs" => t # Main
    BY <1>1 DEF IInv, ThreadsOK, Idle
  <2> QED
    BY <1>5, <1>6, <2>1 DEF Threads
<1>11. DoneOK'
  BY <1>4, <1>5, Stands, DoneStays DEF IInv
<1>12. \A i \in Items : i \in batched \/ Cared(at[t], i) => i \in batched' \/ Cared(x, i)
  BY <1>3, <1>4 DEF Cared
<1> QED
  BY <1>4, <1>5, <1>7, <1>8, <1>9, <1>10, <1>11, <1>12, QuietKeeps

LEMMA NamesKeeps ==
  ASSUME IInv, NEW t \in Threads, Names(t)
  PROVE  IInv'
<1>1. at[t].op = "names" /\ UNCHANGED <<control, net, batched, ending, room, acts, plan>>
  BY DEF Names
<1>2. PICK lost \in SUBSET at[t].taken :
        /\ (\E kind : Fault(kind)) \/ UNCHANGED faults
        /\ disk' = [i \in Items |-> IF i \in at[t].taken \ lost THEN Named(disk[i]) ELSE disk[i]]
        /\ item' = [i \in Items |-> IF i \in at[t].taken THEN [item[i] EXCEPT !.file = "none"] ELSE item[i]]
        /\ at' = [at EXCEPT ![t] = After(at[t].ends \cup {<<i, IF i \in lost THEN "failed" ELSE "done">> :
                                                          i \in at[t].taken})]
  BY DEF Names
<1>3. PICK taken : taken = at[t].taken
  OBVIOUS
<1>4. at[t] \in Thread /\ ThreadOK(at[t]) /\ TypeOK
  BY DEF IInv, TypeOK, ThreadsOK
<1>5. /\ Items \subseteq Nat /\ at[t].ends \in SUBSET (Nat \X Outcomes) /\ taken \subseteq Items
      /\ \A j \in taken : item[j].closed /\ disk[j].old = {}
      /\ \A y \in at[t].ends : y[1] \in Items /\ item[y[1]].closed /\ (y[2] = "done" => disk[y[1]].named \in Good)
  <2>1. at[t].ends \in SUBSET (Nat \X Outcomes) /\ Items \subseteq Nat
    BY <1>4, Offer DEF Thread
  <2>2. taken \subseteq Items /\ \A j \in taken : item[j].closed /\ disk[j].old = {}
    BY <1>3, <1>4 DEF ThreadOK, TaskOf, BatchedOK
  <2> QED
    BY <1>1, <1>4, <2>1, <2>2 DEF ThreadOK, TaskOf, EndOK
<1> DEFINE told == {<<i, IF i \in lost THEN "failed" ELSE "done">> : i \in taken}
           ends == at[t].ends \cup told
           x == After(ends)
<1>6. ends \in SUBSET (Nat \X Outcomes)
  <2>1. \A y \in told : y \in Nat \X Outcomes
    <3>1. ASSUME NEW i \in taken, NEW y, y = <<i, IF i \in lost THEN "failed" ELSE "done">>
          PROVE  y \in Nat \X Outcomes
      BY <1>5, <3>1 DEF Outcomes
    <3> QED
      BY <3>1 DEF told
  <2> HIDE DEF told
  <2> QED
    BY <1>5, <2>1
<1>7. \A y \in ends : \/ y \in at[t].ends
                      \/ y[1] \in taken /\ (y[2] = "done" => y[1] \notin lost)
  BY DEF told
<1>8. \A j \in taken : \E y \in ends : y[1] = j
  <2>1. ASSUME NEW j \in taken PROVE \E y \in ends : y[1] = j
    <3>1. <<j, IF j \in lost THEN "failed" ELSE "done">> \in ends
      OBVIOUS
    <3>2. <<j, IF j \in lost THEN "failed" ELSE "done">>[1] = j
      OBVIOUS
    <3> QED
      BY <3>1, <3>2
  <2> QED
    BY <2>1
<1>9. at[t].ends \subseteq ends
  OBVIOUS
<1>10. StepOf(t, x)
  BY <1>1, <1>2, <1>3 DEF StepOf
<1> HIDE DEF ends
<1>11. /\ x \in Thread /\ x.op \in {"idle", "mark"} /\ x.ends = ends /\ x.taken = {}
       /\ x.op = "idle" => x.ends = {}
  BY <1>4, <1>6, EndsTypes
<1> HIDE DEF x
<1>12. Items' = Items /\ Threads' = Threads /\ Workers' = Workers
  BY <1>10, SameOffer DEF StepOf
<1>13. ASSUME NEW i \in Items
       PROVE  /\ item[i] \in Item /\ item'[i] \in Item /\ item'[i].next = item[i].next
              /\ item'[i].retries = item[i].retries /\ item'[i].digest = item[i].digest
              /\ item'[i].processed = item[i].processed /\ item'[i].state = item[i].state
              /\ item'[i].closed = item[i].closed /\ item'[i].opened = item[i].opened
              /\ item'[i].restarted = item[i].restarted /\ item'[i].local = item[i].local
              /\ item'[i].fresh = item[i].fresh
              /\ i \notin taken => item'[i] = item[i]
              /\ item'[i].file \in {item[i].file, "none"}
  <2>1. item'[i] = IF i \in taken THEN [item[i] EXCEPT !.file = "none"] ELSE item[i]
    BY <1>2, <1>3
  <2>2. item[i] \in Item
    BY <1>4 DEF TypeOK
  <2> QED
    BY <2>1, <2>2 DEF Item
<1>14. ASSUME NEW i \in Items
       PROVE  /\ disk'[i] \in Disk /\ disk'[i].old = disk[i].old
              /\ i \notin taken => disk'[i] = disk[i]
              /\ disk'[i].has \subseteq disk[i].has /\ disk'[i].kept \subseteq disk[i].kept
              /\ disk'[i].named = disk[i].named \/ disk'[i].named = "good"
              /\ i \in taken \ lost => disk'[i].named = "good"
              /\ disk'[i] = disk[i] \/ (disk'[i].old = {} /\ disk'[i].kept = {} /\ disk'[i].has = {})
  <2>1. disk'[i] = IF i \in taken \ lost THEN Named(disk[i]) ELSE disk[i]
    BY <1>2, <1>3
  <2>2. disk[i] \in Disk
    BY <1>4 DEF TypeOK
  <2>3. CASE i \in taken \ lost
    <3>1. disk[i].old = {} /\ disk'[i] = [has |-> {}, kept |-> {}, old |-> {}, named |-> "good"]
      BY <1>5, <2>1, <2>3 DEF Named
    <3>2. disk'[i] \in Disk
      BY <3>1 DEF Disk
    <3> QED
      BY <2>3, <3>1, <3>2
  <2>4. CASE i \notin taken \ lost
    BY <2>1, <2>2, <2>4
  <2> QED
    BY <2>3, <2>4
<1>15. TypeOK'
  <2>1. item' \in [Items -> Item] /\ disk' \in [Items -> Disk]
    BY <1>2, <1>13, <1>14
  <2>2. at' \in [Threads -> Thread]
    BY <1>4, <1>10, <1>11 DEF TypeOK, StepOf
  <2>3. faults' \in Nat
    BY <1>2, <1>4, FaultsType
  <2> QED
    BY <1>1, <1>4, <1>12, <2>1, <2>2, <2>3 DEF TypeOK, control, net, ending
<1>16. at'[t] = x /\ (\A u \in Threads : u # t => at'[u] = at[u]) /\ UNCHANGED plan
       /\ UNCHANGED <<inflight, writes, phase, doneSent, batched>>
  BY <1>1, <1>4, <1>10, ThreadsAre DEF net, ending
<1>17. ASSUME NEW i \in Items PROVE Grows(i)
  <2>1. CASE i \in taken
    BY <1>5, <1>13, <1>14, <2>1 DEF Grows, Pending, Good
  <2>2. CASE i \notin taken
    BY <1>13, <1>14, <2>2, Stands
  <2> QED
    BY <2>1, <2>2
<1>18. ASSUME NEW i \in Items PROVE TokensOK(i)' /\ ItemOK(i)'
  <2>1. TokensOK(i) /\ ItemOK(i)
    BY DEF IInv
  <2>2. AskedOnce(i)' /\ \A c : Ahead(item'[i], c) <=> Ahead(item[i], c)
    BY <1>13, <1>16, <2>1, AskedStays DEF TokensOK
  <2>3. \A c : ~Carries(x, i, c) /\ ~Carries(at[t], i, c)
    BY <1>1, <1>11 DEF Carries, Moves, Closing
  <2>4. \A c : Where(i, c)' = Where(i, c)
    BY <1>4, <1>10, <1>16, <2>2, <2>3, ThreadKeeps
  <2>5. TokensGo(x, i)
    BY <2>1, <2>4 DEF TokensGo, TokensOK, Single
  <2>6. LeavesOff(t, x, i)
    BY <1>1, <1>11 DEF LeavesOff, Marked
  <2>7. ~item'[i].closed /\ item[i].file # "none" => disk[i].has \subseteq disk'[i].has /\ item'[i].file # "none"
    BY <1>5, <1>13, <1>14
  <2>8. TokensOK(i)' /\ Counted(i)' /\ Stored(i)'
    BY <1>10, <1>13, <1>15, <2>2, <2>5, <2>6, <2>7, MovesOK
  <2>9. FileOf(i, item'[i], disk'[i])
    <3>1. FileOf(i, item[i], disk[i])
      BY <2>1 DEF ItemOK, FileOK
    <3>2. CASE i \in taken
      BY <1>5, <1>13, <1>14, <3>1, <3>2 DEF FileOf
    <3>3. CASE i \notin taken
      BY <1>13, <1>14, <3>1, <3>3
    <3> QED
      BY <3>2, <3>3
  <2>10. VerifiedOf(item'[i], disk'[i])
    BY <1>13, <1>14, <2>1 DEF ItemOK, Verified, VerifiedOf, Good
  <2>11. FileOK(i)' /\ Verified(i)'
    BY <1>16, <2>9, <2>10, FilesOK
  <2>12. Cared(at[t], i) => Cared(x, i)
    BY <1>3, <1>8, <1>9, <1>11 DEF Cared
  <2>13. Told(i)'
    BY <1>4, <1>10, <1>13, <1>16, <2>1, <2>12, ToldStays DEF ItemOK
  <2> QED
    BY <2>8, <2>11, <2>13 DEF ItemOK
<1>19. ThreadOK(at[t])'
  <2>1. \A y \in x.ends : y[1] \in Items' /\ item'[y[1]].closed /\ (y[2] = "done" => disk'[y[1]].named \in Good)
    <3>1. SUFFICES ASSUME NEW y \in ends
                   PROVE  y[1] \in Items /\ item'[y[1]].closed /\ (y[2] = "done" => disk'[y[1]].named \in Good)
      BY <1>11, <1>12
    <3>2. y[1] \in Items /\ item[y[1]].closed /\ (y[2] = "done" => disk[y[1]].named \in Good \/ y[1] \in taken \ lost)
      BY <1>5, <1>7
    <3> QED
      BY <1>13, <1>14, <3>2 DEF Good
  <2> QED
    BY <1>11, <1>16, <2>1, EndThreadOK
<1>20. phase' = "runs" => phase = "runs" /\ at'[Main] = at[Main]
  <2>1. phase = "runs" => t # Main
    BY <1>1 DEF IInv, ThreadsOK, Idle
  <2> QED
    BY <1>16, <2>1 DEF Threads
<1>21. DoneOK'
  BY <1>16, <1>17, DoneStays DEF IInv
<1>22. QueuedOnce' /\ Queues'
  BY <1>10, <1>11, <1>16, <1>17, QueuesStay
<1> QED
  BY <1>10, <1>15, <1>16, <1>17, <1>18, <1>19, <1>20, <1>21, <1>22, StepKeeps

-----------------------------------------------------------------------------
(* The queues of a worker.                                                 *)

Below == {p \in Nat \X Nat : p[1] < p[2]}

\* Least is the least.
LEMMA LeastIs ==
  ASSUME NEW s \in SUBSET Nat, s # {}
  PROVE  Least(s) \in s /\ \A y \in s : Least(s) <= y
<1>1. IsWellFoundedOn(Below, Nat)
  <2>1. OpToRel(<, Nat) = Below
    BY Zenon DEF OpToRel, Below
  <2> QED
    BY <2>1, NatLessThanWellFounded, Zenon
<1>2. PICK x \in s : \A y \in s : ~(<<y, x>> \in Below)
  BY <1>1, WFMin
<1>3. \A y \in s : x <= y
  <2>1. ASSUME NEW y \in s PROVE x <= y
    <3>1. x \in Nat /\ y \in Nat /\ ~(y < x)
      BY <1>2 DEF Below
    <3> QED
      BY <3>1
  <2> QED
    BY <2>1
<1> QED
  BY <1>3 DEF Least

\* Each request, and each chunk read, is there once.
Once(q) == \A m, n \in 1 .. Len(q) : q[m].item = q[n].item /\ q[m].index = q[n].index => m = n
OnceRead(r) == \A m, n \in 1 .. Len(r) : r[m].task.item = r[n].task.item /\ r[m].task.index = r[n].task.index => m = n

LEMMA RequestedAppend ==
  ASSUME NEW q \in Seq(Task), NEW k \in Task, Once(q), ~Requested(q, k.item, k.index)
  PROVE  /\ \A i, c : Requested(Append(q, k), i, c) <=> Requested(q, i, c) \/ (k.item = i /\ k.index = c)
         /\ Once(Append(q, k)) /\ Append(q, k) \in Seq(Task) /\ Len(Append(q, k)) = Len(q) + 1
         /\ Append(q, k) # <<>>
         /\ \A n \in 1 .. Len(Append(q, k)) : Append(q, k)[n] = k \/ \E m \in 1 .. Len(q) : Append(q, k)[n] = q[m]
<1>1. /\ Append(q, k) \in Seq(Task) /\ Len(Append(q, k)) = Len(q) + 1 /\ Append(q, k) # <<>> /\ Len(q) \in Nat
      /\ \A n \in 1 .. Len(q) : Append(q, k)[n] = q[n]
      /\ Append(q, k)[Len(q) + 1] = k
  OBVIOUS
<1> DEFINE z == Append(q, k)
<1> HIDE DEF z
<1>2. z \in Seq(Task) /\ Len(z) = Len(q) + 1 /\ z # <<>> /\ (\A n \in 1 .. Len(q) : z[n] = q[n]) /\ z[Len(q) + 1] = k
  BY <1>1 DEF z
<1>3. \A n \in 1 .. Len(z) : n \in 1 .. Len(q) \/ n = Len(q) + 1
  BY <1>1, <1>2
<1>4. \A n \in 1 .. Len(z) : z[n] = k \/ \E m \in 1 .. Len(q) : z[n] = q[m]
  BY <1>2, <1>3
<1>5. \A i, c : Requested(z, i, c) <=> Requested(q, i, c) \/ (k.item = i /\ k.index = c)
  <2>1. (\A n \in 1 .. Len(q) : n \in 1 .. Len(z)) /\ Len(q) + 1 \in 1 .. Len(z)
    BY <1>1, <1>2
  <2> QED
    BY <1>2, <1>3, <2>1 DEF Requested
<1>6. Once(z)
  <2>1. SUFFICES ASSUME NEW m \in 1 .. Len(z), NEW n \in 1 .. Len(z), z[m].item = z[n].item, z[m].index = z[n].index
                 PROVE  m = n
    BY DEF Once
  <2>2. CASE m \in 1 .. Len(q) /\ n \in 1 .. Len(q)
    BY <1>2, <2>1, <2>2 DEF Once
  <2>3. CASE m \in 1 .. Len(q) /\ n = Len(q) + 1
    BY <1>2, <2>1, <2>3 DEF Requested
  <2>4. CASE m = Len(q) + 1 /\ n \in 1 .. Len(q)
    BY <1>2, <2>1, <2>4 DEF Requested
  <2> QED
    BY <1>3, <2>2, <2>3, <2>4
<1> QED
  BY <1>2, <1>4, <1>5, <1>6 DEF z

\* What the queue z is with the request k at its end.
AppendsTo(q, z, k) ==
  /\ \A i, c : Requested(q, i, c) <=> Requested(z, i, c) \/ (k.item = i /\ k.index = c)
  /\ Once(q) /\ q \in Seq(Task) /\ Len(q) = Len(z) + 1
  /\ \A n \in 1 .. Len(q) : q[n] = k \/ \E m \in 1 .. Len(z) : q[n] = z[m]
LEMMA AppendIs ==
  ASSUME NEW z \in Seq(Task), NEW k \in Task, Once(z), ~Requested(z, k.item, k.index)
  PROVE  AppendsTo(Append(z, k), z, k)
  BY RequestedAppend DEF AppendsTo

LEMMA RequestedTail ==
  ASSUME NEW q \in Seq(Task), q # <<>>, Once(q)
  PROVE  /\ \A i, c : Requested(Tail(q), i, c) <=> Requested(q, i, c) /\ ~(Head(q).item = i /\ Head(q).index = c)
         /\ Once(Tail(q)) /\ Tail(q) \in Seq(Task) /\ Len(Tail(q)) = Len(q) - 1 /\ Len(q) \in Nat \ {0}
         /\ Head(q) \in Task /\ Head(q) = q[1] /\ Requested(q, Head(q).item, Head(q).index)
         /\ \A n \in 1 .. Len(Tail(q)) : \E m \in 1 .. Len(q) : Tail(q)[n] = q[m]
<1>1. /\ Tail(q) \in Seq(Task) /\ Len(Tail(q)) = Len(q) - 1 /\ Len(q) \in Nat \ {0} /\ Head(q) \in Task /\ Head(q) = q[1]
      /\ \A n \in 1 .. Len(Tail(q)) : Tail(q)[n] = q[n + 1]
  OBVIOUS
<1> DEFINE z == Tail(q)  h == Head(q)
<1> HIDE DEF z, h
<1>2. /\ z \in Seq(Task) /\ Len(z) = Len(q) - 1 /\ Len(q) \in Nat \ {0} /\ h \in Task /\ h = q[1]
      /\ \A n \in 1 .. Len(z) : z[n] = q[n + 1]
  BY <1>1 DEF z, h
<1>3. 1 \in 1 .. Len(q) /\ \A n \in 1 .. Len(z) : n + 1 \in 1 .. Len(q) /\ n + 1 # 1
  BY <1>2
<1>4. \A n \in 1 .. Len(z) : \E m \in 1 .. Len(q) : z[n] = q[m]
  BY <1>2, <1>3
<1>5. ASSUME NEW i, NEW c PROVE Requested(z, i, c) <=> Requested(q, i, c) /\ ~(h.item = i /\ h.index = c)
  <2>1. ASSUME Requested(z, i, c) PROVE Requested(q, i, c) /\ ~(h.item = i /\ h.index = c)
    <3>1. PICK n \in 1 .. Len(z) : z[n].item = i /\ z[n].index = c
      BY <2>1 DEF Requested
    <3> QED
      BY <1>2, <1>3, <3>1 DEF Requested, Once
  <2>2. ASSUME Requested(q, i, c), ~(h.item = i /\ h.index = c) PROVE Requested(z, i, c)
    <3>1. PICK n \in 1 .. Len(q) : q[n].item = i /\ q[n].index = c
      BY <2>2 DEF Requested
    <3>2. n # 1
      BY <1>2, <2>2, <3>1
    <3>3. n - 1 \in 1 .. Len(z) /\ (n - 1) + 1 = n
      BY <1>2, <3>1, <3>2
    <3>4. z[n - 1] = q[n]
      BY <1>2, <3>3
    <3> QED
      BY <3>1, <3>3, <3>4 DEF Requested
  <2> QED
    BY <2>1, <2>2
<1>6. Once(z)
  <2>1. SUFFICES ASSUME NEW m \in 1 .. Len(z), NEW n \in 1 .. Len(z), z[m].item = z[n].item, z[m].index = z[n].index
                 PROVE  m = n
    BY DEF Once
  <2>2. m + 1 = n + 1
    BY <1>2, <1>3, <2>1 DEF Once
  <2> QED
    BY <2>2
<1>7. Requested(q, h.item, h.index)
  BY <1>2, <1>3 DEF Requested
<1> QED
  BY <1>2, <1>4, <1>5, <1>6, <1>7 DEF z, h

LEMMA WaitsAppend ==
  ASSUME NEW q \in Seq(Read), NEW k \in Read, OnceRead(q), ~Waits(q, k.task.item, k.task.index)
  PROVE  /\ \A i, c : Waits(Append(q, k), i, c) <=> Waits(q, i, c) \/ (k.task.item = i /\ k.task.index = c)
         /\ OnceRead(Append(q, k)) /\ Append(q, k) \in Seq(Read) /\ Len(Append(q, k)) = Len(q) + 1
         /\ Append(q, k) # <<>>
         /\ \A n \in 1 .. Len(Append(q, k)) : Append(q, k)[n] = k \/ \E m \in 1 .. Len(q) : Append(q, k)[n] = q[m]
<1>1. /\ Append(q, k) \in Seq(Read) /\ Len(Append(q, k)) = Len(q) + 1 /\ Append(q, k) # <<>> /\ Len(q) \in Nat
      /\ \A n \in 1 .. Len(q) : Append(q, k)[n] = q[n]
      /\ Append(q, k)[Len(q) + 1] = k
  OBVIOUS
<1> DEFINE z == Append(q, k)
<1> HIDE DEF z
<1>2. z \in Seq(Read) /\ Len(z) = Len(q) + 1 /\ z # <<>> /\ (\A n \in 1 .. Len(q) : z[n] = q[n]) /\ z[Len(q) + 1] = k
  BY <1>1 DEF z
<1>3. \A n \in 1 .. Len(z) : n \in 1 .. Len(q) \/ n = Len(q) + 1
  BY <1>1, <1>2
<1>4. \A n \in 1 .. Len(z) : z[n] = k \/ \E m \in 1 .. Len(q) : z[n] = q[m]
  BY <1>2, <1>3
<1>5. \A i, c : Waits(z, i, c) <=> Waits(q, i, c) \/ (k.task.item = i /\ k.task.index = c)
  <2>1. (\A n \in 1 .. Len(q) : n \in 1 .. Len(z)) /\ Len(q) + 1 \in 1 .. Len(z)
    BY <1>1, <1>2
  <2> QED
    BY <1>2, <1>3, <2>1 DEF Waits
<1>6. OnceRead(z)
  <2>1. SUFFICES ASSUME NEW m \in 1 .. Len(z), NEW n \in 1 .. Len(z), z[m].task.item = z[n].task.item, z[m].task.index = z[n].task.index
                 PROVE  m = n
    BY DEF OnceRead
  <2>2. CASE m \in 1 .. Len(q) /\ n \in 1 .. Len(q)
    BY <1>2, <2>1, <2>2 DEF OnceRead
  <2>3. CASE m \in 1 .. Len(q) /\ n = Len(q) + 1
    BY <1>2, <2>1, <2>3 DEF Waits
  <2>4. CASE m = Len(q) + 1 /\ n \in 1 .. Len(q)
    BY <1>2, <2>1, <2>4 DEF Waits
  <2> QED
    BY <1>3, <2>2, <2>3, <2>4
<1> QED
  BY <1>2, <1>4, <1>5, <1>6 DEF z

LEMMA WaitsTail ==
  ASSUME NEW q \in Seq(Read), q # <<>>, OnceRead(q)
  PROVE  /\ \A i, c : Waits(Tail(q), i, c) <=> Waits(q, i, c) /\ ~(Head(q).task.item = i /\ Head(q).task.index = c)
         /\ OnceRead(Tail(q)) /\ Tail(q) \in Seq(Read) /\ Len(Tail(q)) = Len(q) - 1 /\ Len(q) \in Nat \ {0}
         /\ Head(q) \in Read /\ Head(q) = q[1] /\ Waits(q, Head(q).task.item, Head(q).task.index)
         /\ \A n \in 1 .. Len(Tail(q)) : \E m \in 1 .. Len(q) : Tail(q)[n] = q[m]
<1>1. /\ Tail(q) \in Seq(Read) /\ Len(Tail(q)) = Len(q) - 1 /\ Len(q) \in Nat \ {0} /\ Head(q) \in Read /\ Head(q) = q[1]
      /\ \A n \in 1 .. Len(Tail(q)) : Tail(q)[n] = q[n + 1]
  OBVIOUS
<1> DEFINE z == Tail(q)  h == Head(q)
<1> HIDE DEF z, h
<1>2. /\ z \in Seq(Read) /\ Len(z) = Len(q) - 1 /\ Len(q) \in Nat \ {0} /\ h \in Read /\ h = q[1]
      /\ \A n \in 1 .. Len(z) : z[n] = q[n + 1]
  BY <1>1 DEF z, h
<1>3. 1 \in 1 .. Len(q) /\ \A n \in 1 .. Len(z) : n + 1 \in 1 .. Len(q) /\ n + 1 # 1
  BY <1>2
<1>4. \A n \in 1 .. Len(z) : \E m \in 1 .. Len(q) : z[n] = q[m]
  BY <1>2, <1>3
<1>5. ASSUME NEW i, NEW c PROVE Waits(z, i, c) <=> Waits(q, i, c) /\ ~(h.task.item = i /\ h.task.index = c)
  <2>1. ASSUME Waits(z, i, c) PROVE Waits(q, i, c) /\ ~(h.task.item = i /\ h.task.index = c)
    <3>1. PICK n \in 1 .. Len(z) : z[n].task.item = i /\ z[n].task.index = c
      BY <2>1 DEF Waits
    <3> QED
      BY <1>2, <1>3, <3>1 DEF Waits, OnceRead
  <2>2. ASSUME Waits(q, i, c), ~(h.task.item = i /\ h.task.index = c) PROVE Waits(z, i, c)
    <3>1. PICK n \in 1 .. Len(q) : q[n].task.item = i /\ q[n].task.index = c
      BY <2>2 DEF Waits
    <3>2. n # 1
      BY <1>2, <2>2, <3>1
    <3>3. n - 1 \in 1 .. Len(z) /\ (n - 1) + 1 = n
      BY <1>2, <3>1, <3>2
    <3>4. z[n - 1] = q[n]
      BY <1>2, <3>3
    <3> QED
      BY <3>1, <3>3, <3>4 DEF Waits
  <2> QED
    BY <2>1, <2>2
<1>6. OnceRead(z)
  <2>1. SUFFICES ASSUME NEW m \in 1 .. Len(z), NEW n \in 1 .. Len(z), z[m].task.item = z[n].task.item, z[m].task.index = z[n].task.index
                 PROVE  m = n
    BY DEF OnceRead
  <2>2. m + 1 = n + 1
    BY <1>2, <1>3, <2>1 DEF OnceRead
  <2> QED
    BY <2>2
<1>7. Waits(q, h.task.item, h.task.index)
  BY <1>2, <1>3 DEF Waits
<1> QED
  BY <1>2, <1>4, <1>5, <1>6, <1>7 DEF z, h

-----------------------------------------------------------------------------
(* A step of a worker.                                                     *)

\* Thread t of worker w goes on with x, the requests in flight are q, the chunks read r.
WorkOf(w, t, x, q, r) ==
  /\ StepOf(t, x) /\ t \in {Reader(w), Writer(w)}
  /\ inflight' = [inflight EXCEPT ![w] = q] /\ writes' = [writes EXCEPT ![w] = r]
  /\ UNCHANGED <<control, phase, room, batched, marked, doneSent, acts>>
  /\ x \in Thread /\ q \in Seq(Task) /\ r \in Seq(Read)
  /\ conn' \in [Workers -> {"none", "up", "left"}] /\ faults' \in Nat
  /\ item' \in [Items -> Item] /\ disk' \in [Items -> Disk]

LEMMA WorkTypes ==
  ASSUME TypeOK, NEW w \in Workers, NEW t, NEW x, NEW q, NEW r, WorkOf(w, t, x, q, r)
  PROVE  /\ TypeOK' /\ UNCHANGED <<plan, phase, batched, doneSent>> /\ t \in Threads /\ t # Main /\ at'[t] = x
         /\ \A u \in Threads : u # t => at'[u] = at[u]
         /\ inflight'[w] = q /\ \A v \in Workers : v # w => inflight'[v] = inflight[v]
         /\ writes'[w] = r /\ \A v \in Workers : v # w => writes'[v] = writes[v]
<1>1. t \in Threads /\ t # Main
  BY DEF WorkOf, Threads, Reader, Writer, Main
<1>2. StepOf(t, x) /\ UNCHANGED <<plan, phase, batched, doneSent>>
  BY DEF WorkOf, StepOf
<1>3. Items' = Items /\ Workers' = Workers /\ Threads' = Threads
  BY <1>2, SameOffer
<1>4. at'[t] = x /\ \A u \in Threads : u # t => at'[u] = at[u]
  BY <1>1, <1>2, ThreadsAre
<1>5. /\ inflight'[w] = q /\ \A v \in Workers : v # w => inflight'[v] = inflight[v]
      /\ writes'[w] = r /\ \A v \in Workers : v # w => writes'[v] = writes[v]
  BY DEF WorkOf, TypeOK
<1>6. TypeOK'
  <2>1. at' \in [Threads -> Thread] /\ inflight' \in [Workers -> Seq(Task)] /\ writes' \in [Workers -> Seq(Read)]
    BY <1>1 DEF WorkOf, StepOf, TypeOK
  <2> QED
    BY <1>2, <1>3, <2>1 DEF WorkOf, TypeOK, control
<1> QED
  BY <1>1, <1>2, <1>4, <1>5, <1>6

LEMMA WorkWhere ==
  ASSUME IInv, NEW w \in Workers, NEW t, NEW x, NEW q, NEW r, WorkOf(w, t, x, q, r), NEW i, NEW c
  PROVE  /\ \A p : p \notin {InItem, InHands(t), InFlightOf(w), InWrites(w)} =>
                     (p \in Where(i, c)' <=> p \in Where(i, c))
         /\ InItem \in Where(i, c)' <=> Ahead(item'[i], c)
         /\ InHands(t) \in Where(i, c)' <=> Carries(x, i, c)
         /\ InFlightOf(w) \in Where(i, c)' <=> Requested(q, i, c)
         /\ InWrites(w) \in Where(i, c)' <=> Waits(r, i, c)
         /\ InItem \in Where(i, c) <=> Ahead(item[i], c)
         /\ InHands(t) \in Where(i, c) <=> Carries(at[t], i, c)
         /\ InFlightOf(w) \in Where(i, c) <=> Requested(inflight[w], i, c)
         /\ InWrites(w) \in Where(i, c) <=> Waits(writes[w], i, c)
<1>1. t \in Threads
  BY WorkTypes DEF IInv
<1>2. Located(i, c)
  BY WhereIs
<1>3. TypeOK /\ StepOf(t, x) /\ inflight' = [inflight EXCEPT ![w] = q] /\ writes' = [writes EXCEPT ![w] = r]
  BY DEF IInv, WorkOf
<1>4. /\ InItem \in Where(i, c) <=> Ahead(item[i], c)
      /\ InHands(t) \in Where(i, c) <=> Carries(at[t], i, c)
      /\ InFlightOf(w) \in Where(i, c) <=> Requested(inflight[w], i, c)
      /\ InWrites(w) \in Where(i, c) <=> Waits(writes[w], i, c)
  BY <1>1, <1>2 DEF Located
<1> QED
  BY <1>1, <1>3, <1>4, WhereWorker

\* A token the step leaves where it is.
LEMMA WorkRests ==
  ASSUME IInv, NEW w \in Workers, NEW t, NEW x, NEW q, NEW r, WorkOf(w, t, x, q, r), NEW i, NEW c,
         Ahead(item'[i], c) <=> Ahead(item[i], c), Carries(x, i, c) <=> Carries(at[t], i, c),
         Requested(q, i, c) <=> Requested(inflight[w], i, c), Waits(r, i, c) <=> Waits(writes[w], i, c)
  PROVE  Where(i, c)' = Where(i, c)
<1>1. \A p : p \in Where(i, c)' <=> p \in Where(i, c)
  BY WorkWhere
<1>2. Where(i, c)' \subseteq Where(i, c) /\ Where(i, c) \subseteq Where(i, c)'
  BY <1>1
<1> QED
  BY <1>2

\* A token that goes from place a to place b.
LEMMA WorkMoves ==
  ASSUME IInv, NEW w \in Workers, NEW t, NEW x, NEW q, NEW r, WorkOf(w, t, x, q, r), NEW i, NEW c, Single(Where(i, c)),
         NEW a \in {InItem, InHands(t), InFlightOf(w), InWrites(w)}, a \in Where(i, c),
         NEW b \in {InItem, InHands(t), InFlightOf(w), InWrites(w)},
         Ahead(item'[i], c) <=> b = InItem, Carries(x, i, c) <=> b = InHands(t),
         Requested(q, i, c) <=> b = InFlightOf(w), Waits(r, i, c) <=> b = InWrites(w)
  PROVE  Where(i, c) = {a} /\ Where(i, c)' = {b}
<1>1. Where(i, c) = {a}
  BY DEF Single
<1>2. \A p : p \in Where(i, c)' => p = b
  BY <1>1, WorkWhere
<1>3. b \in Where(i, c)'
  BY WorkWhere
<1> QED
  BY <1>1, <1>2, <1>3

\* A token that is let go of.
LEMMA WorkDrops ==
  ASSUME IInv, NEW w \in Workers, NEW t, NEW x, NEW q, NEW r, WorkOf(w, t, x, q, r), NEW i, NEW c, Single(Where(i, c)),
         NEW a \in {InItem, InHands(t), InFlightOf(w), InWrites(w)}, a \in Where(i, c),
         ~Ahead(item'[i], c), ~Carries(x, i, c), ~Requested(q, i, c), ~Waits(r, i, c)
  PROVE  Where(i, c) = {a} /\ Where(i, c)' = {}
<1>1. Where(i, c) = {a}
  BY DEF Single
<1>2. \A p : p \notin Where(i, c)'
  BY <1>1, WorkWhere
<1> QED
  BY <1>1, <1>2

\* What a worker's step may change of an item: what it is to be asked for.
Same(i) ==
  /\ item'[i].processed = item[i].processed /\ item'[i].state = item[i].state /\ item'[i].closed = item[i].closed
  /\ item'[i].file = item[i].file /\ item'[i].opened = item[i].opened /\ item'[i].restarted = item[i].restarted
  /\ item'[i].local = item[i].local /\ item'[i].fresh = item[i].fresh
  /\ disk'[i] = disk[i]

LEMMA SameGrows ==
  ASSUME NEW i, Same(i)
  PROVE  Grows(i)
  BY DEF Same, Grows, Pending

LEMMA WorkItem ==
  ASSUME IInv, NEW w \in Workers, NEW t, NEW x, NEW q, NEW r, WorkOf(w, t, x, q, r), NEW i \in Items, Same(i),
         TokensGo(x, i), AskedOnce(i)', ~Marked(at[t], i), x.op # "askAgain", Cared(at[t], i) => Cared(x, i)
  PROVE  TokensOK(i)' /\ ItemOK(i)'
<1>1. /\ TypeOK' /\ UNCHANGED <<plan, phase, batched>> /\ t \in Threads
      /\ TypeOK /\ TokensOK(i) /\ ItemOK(i) /\ StepOf(t, x)
  BY WorkTypes DEF IInv, WorkOf
<1>2. LeavesOff(t, x, i)
  BY DEF LeavesOff, Marked
<1>3. TokensOK(i)' /\ Counted(i)' /\ Stored(i)'
  <2>1. /\ item'[i].processed = item[i].processed /\ (item[i].closed => item'[i].closed)
        /\ ~item'[i].closed /\ item[i].file # "none" => disk[i].has \subseteq disk'[i].has /\ item'[i].file # "none"
    BY DEF Same
  <2> QED
    BY <1>1, <1>2, <2>1, MovesOK
<1>4. FileOK(i)' /\ Verified(i)'
  <2>1. FileOf(i, item'[i], disk'[i]) /\ VerifiedOf(item'[i], disk'[i])
    BY <1>1 DEF Same, ItemOK, FileOK, FileOf, Verified, VerifiedOf
  <2> QED
    BY <1>1, <2>1, FilesOK
<1>5. Told(i)'
  BY <1>1, ToldStays DEF Same, ItemOK
<1> QED
  BY <1>3, <1>4, <1>5 DEF ItemOK

\* A request that is in a queue after the step.
Fitting(k) ==
  /\ k.item \in Items /\ k.index \in Index(k.item) /\ item'[k.item].opened
  /\ k.index # DigestIndex => (~item'[k.item].closed => k.index \notin disk'[k.item].old)

LEMMA WorkKeeps ==
  ASSUME IInv, NEW w \in Workers, NEW t, NEW x, NEW q, NEW r, WorkOf(w, t, x, q, r),
         \A i \in Items : Grows(i) /\ TokensOK(i)' /\ ItemOK(i)', ThreadOK(at[t])',
         Len(q) <= 2, Once(q), OnceRead(r), t = Writer(w) => q = inflight[w],
         x.op = "read" => q # <<>>, x.op = "prepare" => Len(q) < 2,
         \A n \in 1 .. Len(q) : Fitting(q[n]) \/ \E m \in 1 .. Len(inflight[w]) : q[n] = inflight[w][m],
         \A n \in 1 .. Len(r) : (Fitting(r[n].task) /\ r[n].task.index # DigestIndex)
                                \/ \E m \in 1 .. Len(writes[w]) : r[n] = writes[w][m]
  PROVE  IInv'
<1>1. /\ TypeOK' /\ UNCHANGED <<plan, phase, batched, doneSent>> /\ t \in Threads /\ t # Main /\ at'[t] = x
      /\ \A u \in Threads : u # t => at'[u] = at[u]
      /\ inflight'[w] = q /\ \A v \in Workers : v # w => inflight'[v] = inflight[v]
      /\ writes'[w] = r /\ \A v \in Workers : v # w => writes'[v] = writes[v]
  BY WorkTypes DEF IInv
<1>2. Items' = Items /\ Workers' = Workers /\ Threads' = Threads /\ \A i : Index(i)' = Index(i)
  BY <1>1, SameOffer
<1>3. QueuedOnce'
  <2>1. ASSUME NEW v \in Workers PROVE Once(inflight'[v]) /\ OnceRead(writes'[v])
    <3>1. Once(inflight[v]) /\ OnceRead(writes[v])
      BY DEF IInv, QueuedOnce, Once, OnceRead
    <3>2. CASE v = w
      BY <1>1, <3>2
    <3>3. CASE v # w
      BY <1>1, <3>1, <3>3
    <3> QED
      BY <3>2, <3>3
  <2> QED
    BY <1>2, <2>1 DEF QueuedOnce, Once, OnceRead
<1>4. ASSUME NEW v \in Workers PROVE QueueOK(v)'
  <2>1. QueueOK(v)
    BY DEF IInv, Queues, QueueOK
  <2>2. CASE v # w
    BY <1>1, <2>1, <2>2, QueueStays
  <2>3. CASE v = w
    <3>1. \A k : InQueue(k) => Fitting(k)
      BY <1>1, <1>2, InQueueStays DEF Fitting
    <3>2. \A n \in 1 .. Len(q) : Fitting(q[n])
      BY <2>1, <2>3, <3>1 DEF QueueOK
    <3>3. \A n \in 1 .. Len(r) : Fitting(r[n].task) /\ r[n].task.index # DigestIndex
      BY <2>1, <2>3, <3>1 DEF QueueOK
    <3> QED
      BY <1>1, <1>2, <2>3, <3>2, <3>3 DEF QueueOK, InQueue, Fitting, Carried, CarriedOf
  <2> QED
    BY <2>2, <2>3
<1>5. ASSUME NEW v \in Workers PROVE (at'[Reader(v)].op = "read" => inflight'[v] # <<>>)
                                     /\ (at'[Reader(v)].op = "prepare" => Len(inflight'[v]) < 2)
  <2>1. Reader(v) \in Threads /\ (Reader(v) = Reader(w) <=> v = w) /\ Reader(v) # Writer(w)
    BY DEF Threads, Reader, Writer
  <2>2. t = Reader(w) \/ t = Writer(w)
    BY DEF WorkOf
  <2>3. CASE Reader(v) = t
    BY <1>1, <2>1, <2>2, <2>3
  <2>4. CASE Reader(v) # t /\ v # w
    BY <1>1, <2>1, <2>4 DEF IInv, Queues
  <2>5. CASE Reader(v) # t /\ v = w
    <3>1. t = Writer(w) /\ q = inflight[w]
      BY <2>2, <2>5
    <3> QED
      BY <1>1, <2>1, <2>5, <3>1 DEF IInv, Queues
  <2> QED
    BY <2>3, <2>4, <2>5
<1>6. Queues'
  BY <1>2, <1>4, <1>5 DEF Queues, QueueOK
<1>7. phase' = "runs" => phase = "runs" /\ at'[Main] = at[Main]
  BY <1>1 DEF Threads
<1>8. DoneOK'
  BY <1>1, DoneStays DEF IInv
<1>9. \A i \in batched' : i \in batched \/ BatchedOK(i)'
  BY <1>1
<1> QED
  BY <1>1, <1>3, <1>6, <1>7, <1>8, <1>9, StepKeeps DEF WorkOf

\* One token goes from place a to place b, or is let go of; the others rest.
MovesTo(w, t, x, q, r, i, c, b, mine) ==
  /\ Ahead(item'[i], c) <=> IF mine THEN b = InItem ELSE Ahead(item[i], c)
  /\ Carries(x, i, c) <=> IF mine THEN b = InHands(t) ELSE Carries(at[t], i, c)
  /\ Requested(q, i, c) <=> IF mine THEN b = InFlightOf(w) ELSE Requested(inflight[w], i, c)
  /\ Waits(r, i, c) <=> IF mine THEN b = InWrites(w) ELSE Waits(writes[w], i, c)

LEMMA OneGoes ==
  ASSUME IInv, NEW w \in Workers, NEW t, NEW x, NEW q, NEW r, WorkOf(w, t, x, q, r), NEW k,
         NEW a \in {InItem, InHands(t), InFlightOf(w), InWrites(w)}, a \in Where(k.item, k.index), NEW b,
         \/ b \in {InItem, InHands(t), InFlightOf(w), InWrites(w)}
         \/ item'[k.item].closed
         \/ x.op = "end" /\ x.task.item = k.item,
         \A i \in Items : \A c \in Index(i) : MovesTo(w, t, x, q, r, i, c, b, i = k.item /\ c = k.index)
  PROVE  \A i \in Items : TokensGo(x, i)
<1>1. ASSUME NEW i \in Items, NEW c \in Index(i)
      PROVE  /\ Single(Where(i, c)')
             /\ Where(i, c) = {} => Where(i, c)' = {}
             /\ Where(i, c)' = {} => Where(i, c) = {} \/ item'[i].closed \/ (x.op = "end" /\ x.task.item = i)
  <2>1. Single(Where(i, c))
    BY DEF IInv, TokensOK
  <2>2. CASE ~(i = k.item /\ c = k.index)
    <3>1. Where(i, c)' = Where(i, c)
      BY <2>2, WorkRests DEF MovesTo
    <3> QED
      BY <2>1, <3>1 DEF Single
  <2>3. CASE i = k.item /\ c = k.index /\ b \in {InItem, InHands(t), InFlightOf(w), InWrites(w)}
    <3>1. MovesTo(w, t, x, q, r, i, c, b, TRUE) /\ a \in Where(i, c)
      BY <2>3
    <3>2. Where(i, c) = {a} /\ Where(i, c)' = {b}
      BY <2>1, <2>3, <3>1, WorkMoves DEF MovesTo
    <3> QED
      BY <3>2 DEF Single
  <2>4. CASE i = k.item /\ c = k.index /\ b \notin {InItem, InHands(t), InFlightOf(w), InWrites(w)}
    <3>1. MovesTo(w, t, x, q, r, i, c, b, TRUE) /\ a \in Where(i, c)
      BY <2>4
    <3>2. Where(i, c) = {a} /\ Where(i, c)' = {}
      BY <2>1, <2>4, <3>1, WorkDrops DEF MovesTo
    <3> QED
      BY <2>4, <3>2 DEF Single
  <2> QED
    BY <2>2, <2>3, <2>4
<1> QED
  BY <1>1 DEF TokensGo

\* The token of k goes to b, and no other moves.
MovesOne(w, t, x, q, r, k, b) ==
  \A i \in Items : \A c \in Index(i) : MovesTo(w, t, x, q, r, i, c, b, i = k.item /\ c = k.index)
LEMMA OneSent ==
  ASSUME IInv, NEW w \in Workers, NEW t, NEW x, NEW q, NEW r, WorkOf(w, t, x, q, r), NEW k,
         InHands(t) \in Where(k.item, k.index), NEW b, b = InFlightOf(w), MovesOne(w, t, x, q, r, k, b)
  PROVE  \A i \in Items : TokensGo(x, i)
<1>1. PICK a : a = InHands(t)
  OBVIOUS
<1>2. a \in {InItem, InHands(t), InFlightOf(w), InWrites(w)} /\ b \in {InItem, InHands(t), InFlightOf(w), InWrites(w)}
  BY <1>1
<1>3. a \in Where(k.item, k.index)
  BY <1>1
<1> QED
  BY <1>2, <1>3, OneGoes DEF MovesOne

\* What the invariant says of a worker.
LEMMA WorkerIs ==
  ASSUME IInv, NEW w \in Workers
  PROVE  /\ inflight[w] \in Seq(Task) /\ writes[w] \in Seq(Read) /\ Once(inflight[w]) /\ OnceRead(writes[w])
         /\ Len(inflight[w]) \in Nat /\ Len(inflight[w]) <= 2
         /\ Reader(w) \in Threads /\ Writer(w) \in Threads /\ Reader(w) # Writer(w)
         /\ at[Reader(w)] \in Thread /\ at[Writer(w)] \in Thread
         /\ ThreadOK(at[Reader(w)]) /\ ThreadOK(at[Writer(w)])
         /\ at[Reader(w)].op = "read" => inflight[w] # <<>>
         /\ \A n \in 1 .. Len(inflight[w]) : InQueue(inflight[w][n])
         /\ \A n \in 1 .. Len(writes[w]) : InQueue(writes[w][n].task) /\ writes[w][n].task.index # DigestIndex
<1>1. Reader(w) \in Threads /\ Writer(w) \in Threads /\ Reader(w) # Writer(w)
  BY DEF Threads, Reader, Writer
<1>2. inflight[w] \in Seq(Task) /\ writes[w] \in Seq(Read) /\ at[Reader(w)] \in Thread /\ at[Writer(w)] \in Thread
  BY <1>1 DEF IInv, TypeOK
<1>3. Len(inflight[w]) \in Nat
  BY <1>2
<1>4. Once(inflight[w]) /\ OnceRead(writes[w])
  BY DEF IInv, QueuedOnce, Once, OnceRead
<1> QED
  BY <1>1, <1>2, <1>3, <1>4 DEF IInv, Queues, ThreadsOK

\* A step that leaves the items alone.
LEMMA WorkQuiet ==
  ASSUME IInv, NEW w \in Workers, NEW t, NEW x, NEW q, NEW r, WorkOf(w, t, x, q, r), UNCHANGED <<item, disk>>,
         \A i \in Items : TokensGo(x, i), \A i : ~Marked(at[t], i) /\ ~Cared(at[t], i), x.op # "askAgain"
  PROVE  \A i \in Items : Grows(i) /\ TokensOK(i)' /\ ItemOK(i)'
<1>1. ASSUME NEW i \in Items PROVE Grows(i) /\ TokensOK(i)' /\ ItemOK(i)'
  <2>1. Same(i)
    BY DEF Same
  <2>2. AskedOnce(i)'
    BY AskedStays DEF IInv, TokensOK, WorkOf, StepOf
  <2> QED
    BY <2>1, <2>2, SameGrows, WorkItem
<1> QED
  BY <1>1

LEMMA DataKeeps ==
  ASSUME IInv, NEW w \in Workers, Data(w)
  PROVE  IInv'
<1>1. /\ at[Reader(w)].op = "read" /\ Head(inflight[w]).index # DigestIndex /\ Returns(Reader(w)) /\ Answered(w)
      /\ UNCHANGED <<item, disk, control, conn, batched, ending, room, acts, plan>>
  BY DEF Data
<1>2. PICK good \in BOOLEAN :
        /\ (\E kind : Fault(kind)) \/ UNCHANGED faults
        /\ writes' = [writes EXCEPT ![w] = Append(@, [task |-> Head(inflight[w]), good |-> good])]
  BY DEF Data
<1>3. PICK k, m, q, r, t, x : /\ k = Head(inflight[w]) /\ m = [task |-> k, good |-> good]
                              /\ q = Tail(inflight[w]) /\ r = Append(writes[w], m) /\ t = Reader(w) /\ x = Idle
  OBVIOUS
<1>4. /\ inflight[w] \in Seq(Task) /\ writes[w] \in Seq(Read) /\ Once(inflight[w]) /\ OnceRead(writes[w])
      /\ inflight[w] # <<>> /\ at[t] \in Thread /\ t \in Threads /\ ThreadOK(at[t]) /\ TypeOK /\ t # Writer(w)
      /\ Len(inflight[w]) <= 2
  BY <1>1, <1>3, WorkerIs DEF IInv
<1>5. /\ \A i, c : Requested(q, i, c) <=> Requested(inflight[w], i, c) /\ ~(k.item = i /\ k.index = c)
      /\ Once(q) /\ q \in Seq(Task) /\ Len(q) = Len(inflight[w]) - 1 /\ Len(inflight[w]) \in Nat \ {0}
      /\ k \in Task /\ k = inflight[w][1] /\ Requested(inflight[w], k.item, k.index)
      /\ \A n \in 1 .. Len(q) : \E l \in 1 .. Len(inflight[w]) : q[n] = inflight[w][l]
  BY <1>3, <1>4, RequestedTail
<1>6. InQueue(k)
  <2>1. 1 \in 1 .. Len(inflight[w])
    BY <1>5
  <2> QED
    BY <1>5, <2>1, WorkerIs
<1>7. k.item \in Items /\ k.index \in Index(k.item) /\ item[k.item].opened /\ Carried(k) /\ k.index # DigestIndex
  BY <1>1, <1>3, <1>6 DEF InQueue
<1>8. InFlightOf(w) \in Where(k.item, k.index) /\ Single(Where(k.item, k.index))
  <2>1. Located(k.item, k.index)
    BY WhereIs
  <2> QED
    BY <1>5, <1>7, <2>1 DEF Located, IInv, TokensOK
<1>9. ~Waits(writes[w], k.item, k.index) /\ ~Ahead(item[k.item], k.index)
  <2>1. Located(k.item, k.index)
    BY WhereIs
  <2>2. InWrites(w) \notin Where(k.item, k.index) /\ InItem \notin Where(k.item, k.index)
    BY <1>8, PlacesApart DEF Single
  <2> QED
    BY <2>1, <2>2 DEF Located
<1>10. m \in Read /\ m.task = k
  BY <1>3, <1>5 DEF Read
<1>11. /\ \A i, c : Waits(r, i, c) <=> Waits(writes[w], i, c) \/ (k.item = i /\ k.index = c)
       /\ OnceRead(r) /\ r \in Seq(Read)
       /\ \A n \in 1 .. Len(r) : r[n] = m \/ \E l \in 1 .. Len(writes[w]) : r[n] = writes[w][l]
  BY <1>3, <1>4, <1>9, <1>10, WaitsAppend
<1>12. x \in Thread /\ x.op = "idle" /\ StepOf(t, x) /\ faults' \in Nat
  BY <1>1, <1>2, <1>3, <1>4, ThreadTypes, Shapes, FaultsType
<1>13. WorkOf(w, t, x, q, r)
  BY <1>1, <1>2, <1>3, <1>4, <1>5, <1>11, <1>12 DEF WorkOf, Answered, TypeOK, ending
<1>14. \A i, c : ~Carries(x, i, c) /\ ~Carries(at[t], i, c)
  BY <1>1, <1>3, <1>12 DEF Carries, Moves, Closing
<1>15. ASSUME NEW i \in Items, NEW c \in Index(i)
       PROVE  MovesTo(w, t, x, q, r, i, c, InWrites(w), i = k.item /\ c = k.index)
  <2>1. InWrites(w) # InItem /\ InWrites(w) # InHands(t) /\ InWrites(w) # InFlightOf(w)
    BY PlacesApart
  <2> QED
    BY <1>1, <1>5, <1>9, <1>11, <1>14, <2>1 DEF MovesTo
<1>16. \A i \in Items : TokensGo(x, i)
  BY <1>8, <1>13, <1>15, OneGoes
<1>17. \A i : ~Marked(at[t], i) /\ ~Cared(at[t], i)
  BY <1>1, <1>3, <1>4 DEF Marked, Cared, ThreadOK, TaskOf, Ending
<1>18. \A i \in Items : Grows(i) /\ TokensOK(i)' /\ ItemOK(i)'
  BY <1>1, <1>12, <1>13, <1>16, <1>17, WorkQuiet
<1>19. ThreadOK(at[t])'
  BY <1>3, <1>4, <1>13, WorkTypes, IdleOK
<1>20. \A n \in 1 .. Len(r) : (Fitting(r[n].task) /\ r[n].task.index # DigestIndex)
                              \/ \E l \in 1 .. Len(writes[w]) : r[n] = writes[w][l]
  <2>1. Fitting(k)
    BY <1>1, <1>7 DEF Fitting, Carried, CarriedOf
  <2> QED
    BY <1>7, <1>10, <1>11, <2>1
<1> QED
  BY <1>4, <1>5, <1>11, <1>12, <1>13, <1>18, <1>19, <1>20, WorkKeeps

\* The request a worker reads the answer of, and those after it.
HeadOf(w, t, k, q) ==
  /\ \A i, c : Requested(q, i, c) <=> Requested(inflight[w], i, c) /\ ~(k.item = i /\ k.index = c)
  /\ Once(q) /\ q \in Seq(Task) /\ Len(q) <= 2
  /\ k \in Task /\ InQueue(k) /\ k.item \in Items /\ k.index \in Index(k.item)
  /\ InFlightOf(w) \in Where(k.item, k.index) /\ Single(Where(k.item, k.index))
  /\ \A n \in 1 .. Len(q) : \E l \in 1 .. Len(inflight[w]) : q[n] = inflight[w][l]
  /\ ~Waits(writes[w], k.item, k.index) /\ ~Ahead(item[k.item], k.index)
  /\ \A i, c : ~Carries(at[t], i, c)
  /\ \A i : ~Marked(at[t], i) /\ ~Cared(at[t], i)
LEMMA HeadIs ==
  ASSUME IInv, NEW w \in Workers, NEW t, t = Reader(w), at[t].op = "read", NEW k, k = Head(inflight[w]),
         NEW q, q = Tail(inflight[w])
  PROVE  HeadOf(w, t, k, q)
<1>1. /\ inflight[w] \in Seq(Task) /\ Once(inflight[w]) /\ inflight[w] # <<>> /\ Len(inflight[w]) <= 2
      /\ ThreadOK(at[t])
  BY WorkerIs
<1>2. /\ \A i, c : Requested(q, i, c) <=> Requested(inflight[w], i, c) /\ ~(k.item = i /\ k.index = c)
      /\ Once(q) /\ q \in Seq(Task) /\ Len(q) = Len(inflight[w]) - 1 /\ Len(inflight[w]) \in Nat \ {0}
      /\ k \in Task /\ k = inflight[w][1] /\ Requested(inflight[w], k.item, k.index)
      /\ \A n \in 1 .. Len(q) : \E l \in 1 .. Len(inflight[w]) : q[n] = inflight[w][l]
  BY <1>1, RequestedTail
<1>3. InQueue(k)
  <2>1. 1 \in 1 .. Len(inflight[w])
    BY <1>2
  <2> QED
    BY <1>2, <2>1, WorkerIs
<1>4. k.item \in Items /\ k.index \in Index(k.item)
  BY <1>3 DEF InQueue
<1>5. Located(k.item, k.index)
  BY WhereIs
<1>6. InFlightOf(w) \in Where(k.item, k.index) /\ Single(Where(k.item, k.index))
  BY <1>2, <1>4, <1>5 DEF Located, IInv, TokensOK
<1>7. ~Waits(writes[w], k.item, k.index) /\ ~Ahead(item[k.item], k.index)
  <2>1. InWrites(w) \notin Where(k.item, k.index) /\ InItem \notin Where(k.item, k.index)
    BY <1>6, PlacesApart DEF Single
  <2> QED
    BY <1>5, <2>1 DEF Located
<1>8. \A i, c : ~Carries(at[t], i, c)
  BY DEF Carries, Moves, Closing
<1>9. \A i : ~Marked(at[t], i) /\ ~Cared(at[t], i)
  BY <1>1 DEF Marked, Cared, ThreadOK, TaskOf, Ending
<1>10. Len(q) <= 2
  BY <1>1, <1>2
<1> QED
  BY <1>2, <1>3, <1>4, <1>6, <1>7, <1>8, <1>9, <1>10 DEF HeadOf

LEMMA GoneKeeps ==
  ASSUME IInv, NEW w \in Workers, Gone(w)
  PROVE  IInv'
<1>1. /\ at[Reader(w)].op = "read" /\ Ends(Reader(w), Head(inflight[w]).item, "failed") /\ Answered(w) /\ Fault("gone")
      /\ UNCHANGED <<item, disk, control, conn, writes, batched, ending, room, acts, plan>>
  BY DEF Gone
<1>2. PICK k, q, r, t, x : /\ k = Head(inflight[w]) /\ q = Tail(inflight[w]) /\ r = writes[w] /\ t = Reader(w)
                           /\ x = EndsWith(k.item, "failed")
  OBVIOUS
<1>3. /\ writes[w] \in Seq(Read) /\ OnceRead(r) /\ t \in Threads /\ t # Writer(w) /\ TypeOK
  BY <1>2, WorkerIs DEF IInv
<1>4. /\ \A i, c : Requested(q, i, c) <=> Requested(inflight[w], i, c) /\ ~(k.item = i /\ k.index = c)
      /\ Once(q) /\ q \in Seq(Task) /\ Len(q) <= 2 /\ k.item \in Items
      /\ InFlightOf(w) \in Where(k.item, k.index)
      /\ \A n \in 1 .. Len(q) : \E l \in 1 .. Len(inflight[w]) : q[n] = inflight[w][l]
      /\ ~Waits(writes[w], k.item, k.index) /\ ~Ahead(item[k.item], k.index)
      /\ \A i, c : ~Carries(at[t], i, c)
      /\ \A i : ~Marked(at[t], i) /\ ~Cared(at[t], i)
  <2>1. at[t].op = "read"
    BY <1>1, <1>2
  <2>2. HeadOf(w, t, k, q)
    BY <1>2, <2>1, HeadIs
  <2> QED
    BY <2>2 DEF HeadOf
<1>5. x \in Thread /\ x.op = "end" /\ x.task.item = k.item /\ StepOf(t, x) /\ faults' \in Nat
  BY <1>1, <1>2, <1>3, <1>4, ThreadTypes, Shapes, FaultsType DEF Outcomes
<1>6. WorkOf(w, t, x, q, r)
  BY <1>1, <1>2, <1>3, <1>4, <1>5 DEF WorkOf, Answered, TypeOK, ending
<1>7. \A i, c : ~Carries(x, i, c)
  BY <1>5 DEF Carries, Moves, Closing
<1>8. PICK b : b \notin {InItem, InHands(t), InFlightOf(w), InWrites(w)}
  <2>1. \E b : b \notin {InItem, InHands(t), InFlightOf(w), InWrites(w)}
    BY NoSetContainsEverything
  <2> QED
    BY <2>1
<1>9. ASSUME NEW i \in Items, NEW c \in Index(i) PROVE MovesTo(w, t, x, q, r, i, c, b, i = k.item /\ c = k.index)
  BY <1>1, <1>2, <1>4, <1>7, <1>8 DEF MovesTo
<1>10. \A i \in Items : TokensGo(x, i)
  BY <1>4, <1>5, <1>6, <1>9, OneGoes
<1>11. \A i \in Items : Grows(i) /\ TokensOK(i)' /\ ItemOK(i)'
  BY <1>1, <1>4, <1>5, <1>6, <1>10, WorkQuiet
<1>12. ThreadOK(at[t])'
  <2>1. UNCHANGED plan /\ at'[t] = x
    BY <1>3, <1>6, WorkTypes
  <2> QED
    BY <1>2, <1>3, <1>4, <2>1, EndsOK
<1>13. \A n \in 1 .. Len(r) : \E l \in 1 .. Len(writes[w]) : r[n] = writes[w][l]
  BY <1>2
<1> QED
  BY <1>3, <1>4, <1>5, <1>6, <1>11, <1>12, <1>13, WorkKeeps

LEMMA DigestKeeps ==
  ASSUME IInv, NEW w \in Workers, Digest(w)
  PROVE  IInv'
<1>1. /\ at[Reader(w)].op = "read" /\ Answered(w) /\ Head(inflight[w]).index = DigestIndex
      /\ UNCHANGED <<item, disk, control, conn, writes, batched, ending, room, acts, plan>>
  BY DEF Digest
<1>2. PICK k, q, r, t : k = Head(inflight[w]) /\ q = Tail(inflight[w]) /\ r = writes[w] /\ t = Reader(w)
  OBVIOUS
<1>3. /\ writes[w] \in Seq(Read) /\ OnceRead(r) /\ t \in Threads /\ t # Writer(w) /\ TypeOK
  BY <1>2, WorkerIs DEF IInv
<1>4. /\ \A i, c : Requested(q, i, c) <=> Requested(inflight[w], i, c) /\ ~(k.item = i /\ k.index = c)
      /\ Once(q) /\ q \in Seq(Task) /\ Len(q) <= 2 /\ k.item \in Items /\ k \in Task
      /\ InFlightOf(w) \in Where(k.item, k.index)
      /\ \A n \in 1 .. Len(q) : \E l \in 1 .. Len(inflight[w]) : q[n] = inflight[w][l]
      /\ ~Waits(writes[w], k.item, k.index) /\ ~Ahead(item[k.item], k.index)
      /\ \A i, c : ~Carries(at[t], i, c)
      /\ \A i : ~Marked(at[t], i) /\ ~Cared(at[t], i)
  <2>1. at[t].op = "read"
    BY <1>1, <1>2
  <2>2. HeadOf(w, t, k, q)
    BY <1>2, <2>1, HeadIs
  <2> QED
    BY <2>2 DEF HeadOf
<1>5. Current(k)
  BY <1>3, <1>4, HasRoom
<1>6. /\ (\E kind : Fault(kind)) \/ UNCHANGED faults
      /\ \/ /\ at' = [at EXCEPT ![t] = [Idle EXCEPT !.op = "finish", !.task = k]] /\ item[k.item].local = "same"
         \/ at' = [at EXCEPT ![t] = [Idle EXCEPT !.op = "startOver", !.task = k]]
  BY <1>2, <1>5 DEF Digest
<1>7. PICK op \in {"finish", "startOver"} : /\ at' = [at EXCEPT ![t] = [Idle EXCEPT !.op = op, !.task = k]]
                                            /\ op = "finish" => item[k.item].local = "same"
  BY <1>6
<1>8. PICK x : x = [Idle EXCEPT !.op = op, !.task = k]
  OBVIOUS
<1>9. x \in Thread /\ x.op = op /\ x.task = k /\ x.ends = {} /\ x.taken = {} /\ StepOf(t, x) /\ faults' \in Nat
  <2>1. Idle \in Thread /\ Idle.ends = {} /\ Idle.taken = {}
    BY <1>3, ThreadTypes
  <2>2. op \in Ops
    BY DEF Ops, Closing
  <2>3. x \in Thread /\ x.op = op /\ x.task = k /\ x.ends = {} /\ x.taken = {}
    BY <1>4, <1>8, <2>1, <2>2 DEF Thread
  <2> QED
    BY <1>1, <1>3, <1>6, <1>7, <1>8, <2>3, FaultsType DEF StepOf
<1>10. WorkOf(w, t, x, q, r)
  BY <1>1, <1>2, <1>3, <1>4, <1>9 DEF WorkOf, Answered, TypeOK, ending
<1>11. \A i, c : c \in Index(i) => (Carries(x, i, c) <=> (i = k.item /\ c = k.index))
  BY <1>1, <1>2, <1>9 DEF Carries, Closing, Moves
<1>12. ASSUME NEW i \in Items, NEW c \in Index(i)
       PROVE  MovesTo(w, t, x, q, r, i, c, InHands(t), i = k.item /\ c = k.index)
  <2>1. InHands(t) # InItem /\ InHands(t) # InWrites(w) /\ InHands(t) # InFlightOf(w)
    BY PlacesApart
  <2> QED
    BY <1>1, <1>2, <1>4, <1>11, <2>1 DEF MovesTo
<1>13. \A i \in Items : TokensGo(x, i)
  BY <1>4, <1>10, <1>12, OneGoes
<1>14. \A i \in Items : Grows(i) /\ TokensOK(i)' /\ ItemOK(i)'
  BY <1>1, <1>4, <1>9, <1>10, <1>13, WorkQuiet
<1>15. ThreadOK(at[t])'
  <2>1. UNCHANGED plan /\ at'[t] = x
    BY <1>3, <1>10, WorkTypes
  <2>2. op = "finish" => disk[k.item].old = {}
    BY <1>4, <1>7 DEF IInv, ItemOK, Verified, VerifiedOf
  <2>3. TaskOf(x, item'[x.task.item], disk'[x.task.item])
    BY <1>1, <1>4, <1>9, <2>2 DEF TaskOf, Moves, Closing
  <2> QED
    BY <1>9, <2>1, <2>3, ThreadFits
<1>16. \A n \in 1 .. Len(r) : \E l \in 1 .. Len(writes[w]) : r[n] = writes[w][l]
  BY <1>2
<1> QED
  BY <1>3, <1>4, <1>9, <1>10, <1>14, <1>15, <1>16, WorkKeeps

\* A step that changes only what is to be asked for.
LEMMA WorkAsks ==
  ASSUME IInv, NEW w \in Workers, NEW t, NEW x, NEW q, NEW r, WorkOf(w, t, x, q, r),
         \A i \in Items : Same(i) /\ AskedOnce(i)' /\ TokensGo(x, i),
         \A i : ~Marked(at[t], i) /\ ~Cared(at[t], i), x.op # "askAgain"
  PROVE  \A i \in Items : Grows(i) /\ TokensOK(i)' /\ ItemOK(i)'
<1>1. ASSUME NEW i \in Items PROVE Grows(i) /\ TokensOK(i)' /\ ItemOK(i)'
  BY SameGrows, WorkItem
<1> QED
  BY <1>1

\* What is handed out was to be asked for, and is not any more.
LEMMA HandedIs ==
  ASSUME IInv, NEW i \in Items, Requestable(i), NEW c, c = NextIndex(i), NEW s, s = Handed(item[i])
  PROVE  /\ c \in Index(i) /\ c \in Nat /\ Ahead(item[i], c) /\ ~Ahead(s, c)
         /\ \A d \in Index(i) : d # c => (Ahead(s, d) <=> Ahead(item[i], d))
         /\ s \in Item /\ s.next <= Target(i) /\ s.retries \subseteq Index(i)
         /\ \A d \in s.retries : d # DigestIndex => d < s.next
         /\ ~(s.digest /\ DigestIndex \in s.retries)
         /\ s.processed = item[i].processed /\ s.state = item[i].state /\ s.closed = item[i].closed
         /\ s.file = item[i].file /\ s.opened = item[i].opened /\ s.restarted = item[i].restarted
         /\ s.local = item[i].local /\ s.fresh = item[i].fresh
<1>1. item[i] \in Item /\ AskedOnce(i) /\ TypeOK
  BY DEF IInv, TypeOK, TokensOK
<1>2. /\ Target(i) \in Nat \ {0} /\ Target(i) <= DigestIndex /\ DigestIndex \in Nat
      /\ Asks(i) = {d \in Nat : d < Target(i)} /\ Index(i) \subseteq Nat /\ DigestIndex \notin Asks(i)
  BY <1>1, Offer DEF Index
<1>3. /\ item[i].next \in Nat /\ item[i].retries \in SUBSET Nat /\ item[i].digest \in BOOLEAN
  BY <1>1 DEF Item
<1>4. CASE item[i].digest
  <2>1. c = DigestIndex /\ s = [item[i] EXCEPT !.digest = FALSE]
    BY <1>4 DEF NextIndex, Handed
  <2>2. /\ s \in Item /\ s.next = item[i].next /\ s.retries = item[i].retries /\ ~s.digest
        /\ s.processed = item[i].processed /\ s.state = item[i].state /\ s.closed = item[i].closed
        /\ s.file = item[i].file /\ s.opened = item[i].opened /\ s.restarted = item[i].restarted
        /\ s.local = item[i].local /\ s.fresh = item[i].fresh
    BY <1>1, <2>1 DEF Item
  <2>3. c \in Index(i) /\ Ahead(item[i], c) /\ ~Ahead(s, c)
    BY <1>1, <1>4, <2>1, <2>2 DEF Index, Ahead, AskedOnce
  <2>4. \A d \in Index(i) : d # c => (Ahead(s, d) <=> Ahead(item[i], d))
    BY <2>1, <2>2 DEF Ahead
  <2> QED
    BY <1>1, <1>2, <2>1, <2>2, <2>3, <2>4 DEF AskedOnce
<1>5. CASE ~item[i].digest /\ item[i].retries # {}
  <2>1. c = Least(item[i].retries) /\ s = [item[i] EXCEPT !.retries = @ \ {Least(@)}]
    BY <1>5 DEF NextIndex, Handed
  <2>2. c \in item[i].retries
    BY <1>3, <1>5, <2>1, LeastIs
  <2>3. PICK z \in SUBSET Nat : z = item[i].retries \ {c}
    BY <1>3
  <2>4. s = [item[i] EXCEPT !.retries = z]
    BY <2>1, <2>3
  <2>5. /\ s \in Item /\ s.next = item[i].next /\ s.retries = z /\ ~s.digest
        /\ s.processed = item[i].processed /\ s.state = item[i].state /\ s.closed = item[i].closed
        /\ s.file = item[i].file /\ s.opened = item[i].opened /\ s.restarted = item[i].restarted
        /\ s.local = item[i].local /\ s.fresh = item[i].fresh
    BY <1>1, <1>5, <2>4 DEF Item
  <2>6. c \in Index(i) /\ c \in Nat /\ Ahead(item[i], c)
    BY <1>1, <1>2, <2>2 DEF Ahead, AskedOnce
  <2>7. ~Ahead(s, c)
    BY <1>1, <1>3, <2>2, <2>3, <2>5, <2>6 DEF Ahead, AskedOnce
  <2>8. \A d \in Index(i) : d # c => (Ahead(s, d) <=> Ahead(item[i], d))
    BY <1>5, <2>3, <2>5 DEF Ahead
  <2> QED
    BY <1>1, <2>3, <2>5, <2>6, <2>7, <2>8 DEF AskedOnce
<1>6. CASE ~item[i].digest /\ item[i].retries = {}
  <2>1. c = item[i].next /\ s = [item[i] EXCEPT !.next = @ + 1] /\ c < Target(i)
    BY <1>6 DEF NextIndex, Handed, Requestable
  <2>2. PICK n \in Nat : n = item[i].next + 1
    BY <1>3
  <2>3. s = [item[i] EXCEPT !.next = n]
    BY <2>1, <2>2
  <2>4. /\ s \in Item /\ s.next = n /\ s.retries = {} /\ ~s.digest
        /\ s.processed = item[i].processed /\ s.state = item[i].state /\ s.closed = item[i].closed
        /\ s.file = item[i].file /\ s.opened = item[i].opened /\ s.restarted = item[i].restarted
        /\ s.local = item[i].local /\ s.fresh = item[i].fresh
    BY <1>1, <1>6, <2>3 DEF Item
  <2>5. c \in Index(i) /\ c \in Nat /\ c # DigestIndex
    BY <1>2, <1>3, <2>1 DEF Index
  <2>6. Ahead(item[i], c) /\ ~Ahead(s, c)
    BY <1>3, <2>1, <2>2, <2>4, <2>5 DEF Ahead
  <2>7. ASSUME NEW d \in Index(i), d # c PROVE Ahead(s, d) <=> Ahead(item[i], d)
    BY <1>2, <1>3, <1>6, <2>1, <2>2, <2>4, <2>7 DEF Ahead
  <2>8. n <= Target(i)
    BY <1>2, <1>3, <2>1, <2>2
  <2> QED
    BY <2>4, <2>5, <2>6, <2>7, <2>8
<1> QED
  BY <1>4, <1>5, <1>6

\* Who is to be asked for the digest is open.
LEMMA AsksDigest ==
  ASSUME IInv, NEW i \in Items, InItem \in Where(i, DigestIndex)
  PROVE  item[i].opened
<1>1. TypeOK /\ TokensOK(i) /\ Counted(i) /\ FileOK(i)
  BY DEF IInv, ItemOK
<1>2. Located(i, DigestIndex)
  BY WhereIs
<1>3. Single(Where(i, DigestIndex))
  BY <1>1 DEF TokensOK, Index
<1>4. ~Is(i, {"askAgain"})
  <2>1. SUFFICES ASSUME NEW u \in Threads, at[u].op = "askAgain", at[u].task.item = i
                 PROVE  FALSE
    BY DEF Is
  <2>2. InHands(u) \in Where(i, DigestIndex)
    BY <1>2, <2>1 DEF Located, Carries, Closing
  <2> QED
    BY <1>3, <2>2, PlacesApart DEF Single
<1>5. item[i].processed = Target(i) /\ Target(i) > 0
  BY <1>1, <1>4, Offer DEF Counted
<1> QED
  BY <1>1, <1>5 DEF FileOK, FileOf

LEMMA FetchKeeps ==
  ASSUME IInv, NEW w \in Workers, Fetch(w)
  PROVE  IInv'
<1>1. /\ at[Reader(w)] = Idle /\ Len(inflight[w]) < 2 /\ ~Nothing
      /\ UNCHANGED <<disk, control, conn, writes, batched, ending, world>>
  BY DEF Fetch
<1>2. PICK i, c, k, s : /\ i = Least(Requests) /\ c = NextIndex(i) /\ s = Handed(item[i])
                        /\ k = [item |-> i, index |-> c, gen |-> item[i].gen]
  OBVIOUS
<1>3. PICK t, r : t = Reader(w) /\ r = writes[w]
  OBVIOUS
<1>4. /\ item' = [item EXCEPT ![i] = s]
      /\ IF c = DigestIndex
         THEN inflight' = [inflight EXCEPT ![w] = Append(@, k)] /\ UNCHANGED at
         ELSE /\ at' = [at EXCEPT ![t] = [Idle EXCEPT !.op = "prepare", !.task = k]]
              /\ UNCHANGED inflight
  BY <1>2, <1>3 DEF Fetch, InFlight
<1>5. i \in Items /\ Requestable(i) /\ TypeOK
  <2>1. Requests # {} /\ Requests \in SUBSET Nat
    BY <1>1, Offer DEF Nothing, Requests, IInv
  <2> QED
    BY <1>2, <2>1, LeastIs DEF Requests, IInv
<1>6. /\ c \in Index(i) /\ c \in Nat /\ Ahead(item[i], c) /\ ~Ahead(s, c)
      /\ \A d \in Index(i) : d # c => (Ahead(s, d) <=> Ahead(item[i], d))
      /\ s \in Item /\ s.next <= Target(i) /\ s.retries \subseteq Index(i)
      /\ \A d \in s.retries : d # DigestIndex => d < s.next
      /\ ~(s.digest /\ DigestIndex \in s.retries)
      /\ s.processed = item[i].processed /\ s.state = item[i].state /\ s.closed = item[i].closed
      /\ s.file = item[i].file /\ s.opened = item[i].opened /\ s.restarted = item[i].restarted
      /\ s.local = item[i].local /\ s.fresh = item[i].fresh
  BY <1>2, <1>5, HandedIs
<1>7. /\ inflight[w] \in Seq(Task) /\ writes[w] \in Seq(Read) /\ Once(inflight[w]) /\ OnceRead(writes[w])
      /\ Len(inflight[w]) \in Nat /\ t \in Threads /\ t # Writer(w) /\ at[t] = Idle
  BY <1>1, <1>3, WorkerIs
<1>8. InItem \in Where(i, c) /\ Single(Where(i, c))
  <2>1. Located(i, c)
    BY WhereIs
  <2> QED
    BY <1>5, <1>6, <2>1 DEF Located, IInv, TokensOK
<1>9. ~Requested(inflight[w], i, c) /\ ~Waits(writes[w], i, c)
  <2>1. Located(i, c)
    BY WhereIs
  <2>2. InFlightOf(w) \notin Where(i, c) /\ InWrites(w) \notin Where(i, c)
    BY <1>8, PlacesApart DEF Single
  <2> QED
    BY <2>1, <2>2 DEF Located
<1>10. k \in Task /\ k.item = i /\ k.index = c
  <2>1. item[i].gen = 0 /\ i \in Nat
    BY <1>5, Offer DEF TypeOK, Item
  <2> QED
    BY <1>2, <1>6, <2>1 DEF Task
<1>11. /\ Idle \in Thread /\ Idle.op = "idle" /\ Idle.ends = {} /\ Idle.taken = {}
       /\ \A j, d : ~Carries(Idle, j, d)
       /\ \A j : ~Marked(at[t], j) /\ ~Cared(at[t], j)
  <2>1. Idle \in Thread /\ Idle.op = "idle" /\ Idle.ends = {} /\ Idle.taken = {}
    BY <1>5, ThreadTypes
  <2> QED
    BY <1>7, <2>1 DEF Carries, Marked, Cared, Moves, Closing
<1>12. item' \in [Items -> Item] /\ disk' \in [Items -> Disk] /\ item'[i] = s /\ Items' = Items
  <2>1. UNCHANGED plan
    BY <1>1 DEF world
  <2> QED
    BY <1>1, <1>4, <1>5, <1>6, <2>1, SameOffer DEF TypeOK
<1>13. \A j \in Items : j # i => item'[j] = item[j]
  BY <1>4, <1>5 DEF TypeOK
<1>14. ASSUME NEW j \in Items PROVE Same(j) /\ AskedOnce(j)'
  <2>1. UNCHANGED plan
    BY <1>1 DEF world
  <2>2. CASE j = i
    <3>1. Target(i)' = Target(i) /\ Index(i)' = Index(i)
      BY <2>1, SameOffer
    <3> QED
      BY <1>1, <1>6, <1>12, <2>2, <3>1 DEF Same, AskedOnce
  <2>3. CASE j # i
    <3>1. item'[j] = item[j] /\ AskedOnce(j)
      BY <1>13, <2>3 DEF IInv, TokensOK
    <3> QED
      BY <1>1, <2>1, <3>1, AskedStays DEF Same
  <2> QED
    BY <2>2, <2>3
<1>15. PICK b, x, q :
         /\ \/ b = InFlightOf(w) /\ x = Idle /\ q = Append(inflight[w], k) /\ c = DigestIndex
            \/ b = InHands(t) /\ x = [Idle EXCEPT !.op = "prepare", !.task = k] /\ q = inflight[w] /\ c # DigestIndex
  <2>1. CASE c = DigestIndex
    BY <2>1
  <2>2. CASE c # DigestIndex
    BY <2>2
  <2> QED
    BY <2>1, <2>2
<1>16. /\ q \in Seq(Task) /\ Once(q) /\ Len(q) <= 2 /\ (x.op = "prepare" => Len(q) < 2)
       /\ \A j, d : Requested(q, j, d) <=> Requested(inflight[w], j, d) \/ (b = InFlightOf(w) /\ j = i /\ d = c)
       /\ \A n \in 1 .. Len(q) : (q[n] = k /\ c = DigestIndex) \/ \E m \in 1 .. Len(inflight[w]) : q[n] = inflight[w][m]
  <2>1. CASE c = DigestIndex
    <3>1. q = Append(inflight[w], k) /\ b = InFlightOf(w) /\ x = Idle
      BY <1>15, <2>1
    <3>2. /\ \A j, d : Requested(q, j, d) <=> Requested(inflight[w], j, d) \/ (k.item = j /\ k.index = d)
          /\ Once(q) /\ q \in Seq(Task) /\ Len(q) = Len(inflight[w]) + 1
          /\ \A n \in 1 .. Len(q) : q[n] = k \/ \E m \in 1 .. Len(inflight[w]) : q[n] = inflight[w][m]
      BY <1>7, <1>9, <1>10, <3>1, RequestedAppend
    <3>3. Len(q) <= 2
      BY <1>1, <1>7, <3>2
    <3> QED
      BY <1>10, <1>11, <2>1, <3>1, <3>2, <3>3
  <2>2. CASE c # DigestIndex
    <3>1. q = inflight[w] /\ b = InHands(t)
      BY <1>15, <2>2
    <3>2. b # InFlightOf(w)
      BY <3>1, PlacesApart
    <3>3. Len(q) <= 2 /\ Len(q) < 2
      BY <1>1, <1>7, <3>1
    <3> QED
      BY <1>7, <3>1, <3>2, <3>3
  <2> QED
    BY <2>1, <2>2
<1>17. /\ x \in Thread /\ x.op \in {"idle", "prepare"} /\ x.ends = {} /\ x.taken = {}
       /\ x.op = "prepare" => x.task = k /\ c # DigestIndex
       /\ \A j \in Items : \A d \in Index(j) : Carries(x, j, d) <=> b = InHands(t) /\ j = i /\ d = c
  <2>1. CASE c = DigestIndex
    <3>1. x = Idle /\ b # InHands(t)
      BY <1>15, <2>1, PlacesApart
    <3> QED
      BY <1>11, <3>1
  <2>2. CASE c # DigestIndex
    <3>1. x = [Idle EXCEPT !.op = "prepare", !.task = k] /\ b = InHands(t)
      BY <1>15, <2>2
    <3>2. x \in Thread /\ x.op = "prepare" /\ x.ends = {} /\ x.taken = {} /\ x.task = k
      BY <1>10, <1>11, <3>1 DEF Thread, Ops, Moves
    <3>3. \A j, d : Carries(x, j, d) <=> j = i /\ d = c
      BY <1>10, <2>2, <3>2 DEF Carries, Moves, Closing
    <3> QED
      BY <2>2, <3>1, <3>2, <3>3
  <2> QED
    BY <2>1, <2>2
<1>18. WorkOf(w, t, x, q, r)
  <2>1. at' = [at EXCEPT ![t] = x]
    <3>1. CASE c = DigestIndex
      BY <1>4, <1>5, <1>7, <1>15, <3>1 DEF TypeOK
    <3>2. CASE c # DigestIndex
      BY <1>4, <1>15, <3>2
    <3> QED
      BY <3>1, <3>2
  <2>2. inflight' = [inflight EXCEPT ![w] = q] /\ writes' = [writes EXCEPT ![w] = r]
    <3>1. writes = [writes EXCEPT ![w] = writes[w]] /\ inflight = [inflight EXCEPT ![w] = inflight[w]]
      BY <1>5 DEF TypeOK
    <3>2. CASE c = DigestIndex
      BY <1>1, <1>3, <1>4, <1>15, <3>1, <3>2
    <3>3. CASE c # DigestIndex
      BY <1>1, <1>3, <1>4, <1>15, <3>1, <3>3
    <3> QED
      BY <3>2, <3>3
  <2> QED
    BY <1>1, <1>3, <1>5, <1>7, <1>12, <1>16, <1>17, <2>1, <2>2 DEF WorkOf, StepOf, TypeOK, ending, world
<1>19. ASSUME NEW j \in Items, NEW d \in Index(j) PROVE MovesTo(w, t, x, q, r, j, d, b, j = k.item /\ d = k.index)
  <2>1. b # InItem /\ b # InWrites(w)
    BY <1>15, PlacesApart
  <2>2. Ahead(item'[j], d) <=> IF j = i /\ d = c THEN b = InItem ELSE Ahead(item[j], d)
    <3>1. CASE j = i
      BY <1>6, <1>12, <2>1, <3>1
    <3>2. CASE j # i
      BY <1>13, <3>2
    <3> QED
      BY <3>1, <3>2
  <2>3. ~Carries(at[t], j, d)
    BY <1>7, <1>11
  <2> QED
    BY <1>3, <1>9, <1>10, <1>16, <1>17, <2>1, <2>2, <2>3 DEF MovesTo
<1>20. \A j \in Items : TokensGo(x, j)
  BY <1>8, <1>10, <1>15, <1>18, <1>19, OneGoes
<1>21. \A j \in Items : Grows(j) /\ TokensOK(j)' /\ ItemOK(j)'
  BY <1>11, <1>14, <1>17, <1>18, <1>20, WorkAsks
<1>22. ThreadOK(at[t])'
  <2>1. UNCHANGED plan /\ at'[t] = x
    BY <1>5, <1>18, WorkTypes
  <2>2. x.op = "prepare" => i \in Items /\ c \in Asks(i)
    BY <1>5, <1>6, <1>17 DEF Index
  <2>3. TaskOf(x, item'[x.task.item], disk'[x.task.item])
    BY <1>10, <1>17, <2>2 DEF TaskOf, Moves, Closing
  <2> QED
    BY <1>17, <2>1, <2>3, ThreadFits
<1>23. c = DigestIndex => Fitting(k)
  BY <1>5, <1>6, <1>8, <1>10, <1>12, AsksDigest DEF Fitting
<1>24. \A n \in 1 .. Len(r) : \E m \in 1 .. Len(writes[w]) : r[n] = writes[w][m]
  BY <1>3
<1>25. \A n \in 1 .. Len(q) : Fitting(q[n]) \/ \E m \in 1 .. Len(inflight[w]) : q[n] = inflight[w][m]
  BY <1>16, <1>23
<1>26. x.op # "read"
  BY <1>17
<1> QED
  BY <1>3, <1>7, <1>16, <1>18, <1>21, <1>22, <1>24, <1>25, <1>26, WorkKeeps

\* All but what is asked again.
Unasked(a, b) ==
  /\ a.next = b.next /\ a.digest = b.digest /\ a.processed = b.processed /\ a.state = b.state
  /\ a.closed = b.closed /\ a.file = b.file /\ a.opened = b.opened /\ a.restarted = b.restarted
  /\ a.local = b.local /\ a.fresh = b.fresh

LEMMA RetriedIs ==
  ASSUME NEW f \in [Items -> Item], NEW k \in Task, k.item \in Items
  PROVE  /\ Retried(f, k) \in [Items -> Item]
         /\ \A i \in Items :
              /\ Unasked(Retried(f, k)[i], f[i])
              /\ \A c : c \in Retried(f, k)[i].retries <=>
                          c \in f[i].retries \/ (i = k.item /\ c = k.index /\ f[i].state = "pending")
<1>1. k.gen = 0 /\ k.index \in Nat /\ \A i \in Items : f[i] \in Item /\ f[i].gen = 0 /\ f[i].retries \in SUBSET Nat
  BY DEF Task, Item
<1>2. PICK z : z = f[k.item].retries \cup {k.index}
  OBVIOUS
<1>3. PICK h : h = [f[k.item] EXCEPT !.retries = z]
  OBVIOUS
<1>4. h \in Item /\ h.retries = z /\ Unasked(h, f[k.item])
  <2>1. z \in SUBSET Nat
    BY <1>1, <1>2
  <2> QED
    BY <1>1, <1>3, <2>1 DEF Item, Unasked
<1>5. CASE f[k.item].state = "pending"
  <2>1. Retried(f, k) = [f EXCEPT ![k.item] = h]
    BY <1>1, <1>2, <1>3, <1>5 DEF Retried
  <2>2. /\ Retried(f, k) \in [Items -> Item] /\ Retried(f, k)[k.item] = h
        /\ \A i \in Items : i # k.item => Retried(f, k)[i] = f[i]
    BY <1>4, <2>1
  <2> QED
    BY <1>2, <1>4, <1>5, <2>2 DEF Unasked
<1>6. CASE f[k.item].state # "pending"
  <2>1. Retried(f, k) = f
    BY <1>6 DEF Retried
  <2> QED
    BY <1>6, <2>1 DEF Unasked
<1> QED
  BY <1>5, <1>6

LEMMA AllRetriedIs ==
  ASSUME TypeOK, NEW q \in Seq(Task), Len(q) <= 2, \A n \in 1 .. Len(q) : q[n].item \in Items
  PROVE  /\ AllRetried(q) \in [Items -> Item]
         /\ \A i \in Items :
              /\ Unasked(AllRetried(q)[i], item[i])
              /\ \A c : c \in AllRetried(q)[i].retries <=> c \in item[i].retries \/ (Pending(i) /\ Requested(q, i, c))
<1>1. item \in [Items -> Item]
  BY DEF TypeOK
<1>2. CASE q = <<>>
  <2>1. AllRetried(q) = item /\ \A i, c : ~Requested(q, i, c)
    BY <1>2 DEF AllRetried, Requested
  <2> QED
    BY <1>1, <2>1 DEF Unasked
<1>3. CASE Len(q) = 1
  <2>1. q[1] \in Task /\ q[1].item \in Items /\ q # <<>> /\ (\A n : n \in 1 .. Len(q) <=> n = 1)
    BY <1>3
  <2>2. AllRetried(q) = Retried(item, q[1])
    BY <1>3, <2>1 DEF AllRetried
  <2>3. \A i, c : Requested(q, i, c) <=> i = q[1].item /\ c = q[1].index
    BY <2>1 DEF Requested
  <2> QED
    BY <1>1, <2>1, <2>2, <2>3, RetriedIs DEF Pending
<1>4. CASE Len(q) = 2
  <2>1. /\ q[1] \in Task /\ q[1].item \in Items /\ q[2] \in Task /\ q[2].item \in Items /\ q # <<>>
        /\ \A n : n \in 1 .. Len(q) <=> n = 1 \/ n = 2
    <3>1. \A n : n \in 1 .. 2 <=> n = 1 \/ n = 2
      OBVIOUS
    <3>2. q[1] \in Task /\ q[2] \in Task /\ q # <<>>
      <4>1. 1 \in 1 .. Len(q) /\ 2 \in 1 .. Len(q)
        BY <1>4
      <4>2. q[1] \in Task /\ q[2] \in Task
        BY <4>1
      <4>3. q # <<>>
        <5>1. ASSUME q = <<>> PROVE Len(q) = 0
          BY <5>1, EmptySeq
        <5> QED
          BY <1>4, <5>1
      <4> QED
        BY <4>2, <4>3
    <3>3. q[1].item \in Items /\ q[2].item \in Items
      BY <1>4, <3>1
    <3> QED
      BY <1>4, <3>1, <3>2, <3>3
  <2>2. PICK f : f = Retried(item, q[1])
    OBVIOUS
  <2>3. /\ f \in [Items -> Item]
        /\ \A i \in Items :
             /\ Unasked(f[i], item[i])
             /\ \A c : c \in f[i].retries <=>
                         c \in item[i].retries \/ (i = q[1].item /\ c = q[1].index /\ item[i].state = "pending")
    BY <1>1, <2>1, <2>2, RetriedIs
  <2>4. AllRetried(q) = Retried(f, q[2])
    BY <1>4, <2>1, <2>2 DEF AllRetried
  <2>5. /\ AllRetried(q) \in [Items -> Item]
        /\ \A i \in Items :
             /\ Unasked(AllRetried(q)[i], f[i])
             /\ \A c : c \in AllRetried(q)[i].retries <=>
                         c \in f[i].retries \/ (i = q[2].item /\ c = q[2].index /\ f[i].state = "pending")
    BY <2>1, <2>3, <2>4, RetriedIs
  <2>6. \A i, c : Requested(q, i, c) <=> (i = q[1].item /\ c = q[1].index) \/ (i = q[2].item /\ c = q[2].index)
    BY <2>1 DEF Requested
  <2> QED
    BY <2>3, <2>5, <2>6 DEF Pending, Unasked
<1>5. q = <<>> \/ Len(q) = 1 \/ Len(q) = 2
  <2>1. Len(q) \in Nat /\ (Len(q) = 0 => q = <<>>)
    OBVIOUS
  <2>2. \A n \in Nat : n <= 2 => n = 0 \/ n = 1 \/ n = 2
    OBVIOUS
  <2> QED
    BY <2>1, <2>2
<1> QED
  BY <1>2, <1>3, <1>4, <1>5

\* The connection of a worker goes: its requests are asked again, by whoever.
LEMMA DropKeeps ==
  ASSUME IInv, NEW w \in Workers, at[Reader(w)].op = "read", NEW next \in {"none", "left"}, Drop(w, next),
         UNCHANGED <<disk, control, writes, batched, ending, room, acts, plan>>, faults' \in Nat
  PROVE  IInv'
<1>1. PICK t, x, q, r : t = Reader(w) /\ x = Idle /\ q = <<>> /\ r = writes[w]
  OBVIOUS
<1>2. PICK old : old = inflight[w]
  OBVIOUS
<1>3. /\ old \in Seq(Task) /\ Len(old) <= 2 /\ writes[w] \in Seq(Read) /\ OnceRead(writes[w]) /\ TypeOK
      /\ t \in Threads /\ t # Writer(w) /\ ThreadOK(at[t]) /\ \A n \in 1 .. Len(old) : InQueue(old[n])
  BY <1>1, <1>2, WorkerIs DEF IInv
<1>4. /\ item' \in [Items -> Item]
      /\ \A i \in Items :
           /\ Unasked(item'[i], item[i])
           /\ \A c : c \in item'[i].retries <=> c \in item[i].retries \/ (Pending(i) /\ Requested(old, i, c))
  <2>1. item' = AllRetried(old)
    BY <1>2 DEF Drop
  <2>2. \A n \in 1 .. Len(old) : old[n].item \in Items
    BY <1>3 DEF InQueue
  <2> QED
    BY <1>3, <2>1, <2>2, AllRetriedIs
<1>5. q \in Seq(Task) /\ Len(q) = 0 /\ Once(q) /\ \A i, c : ~Requested(q, i, c)
  BY <1>1 DEF Once, Requested
<1>6. /\ x \in Thread /\ x.op = "idle" /\ \A i, c : ~Carries(x, i, c) /\ ~Carries(at[t], i, c)
  <2>1. x \in Thread /\ x.op = "idle"
    BY <1>1, <1>3, ThreadTypes
  <2> QED
    BY <1>1, <2>1 DEF Carries, Moves, Closing
<1>7. WorkOf(w, t, x, q, r)
  <2>1. at' = [at EXCEPT ![t] = x] /\ inflight' = [inflight EXCEPT ![w] = q] /\ conn' = [conn EXCEPT ![w] = next]
    BY <1>1 DEF Drop, Returns
  <2>2. writes' = [writes EXCEPT ![w] = r]
    BY <1>1, <1>3 DEF TypeOK
  <2>3. Items' = Items
    BY SameOffer
  <2> QED
    BY <1>1, <1>3, <1>4, <1>5, <1>6, <2>1, <2>2, <2>3 DEF WorkOf, StepOf, TypeOK, ending
<1>8. ASSUME NEW i \in Items, NEW c \in Index(i), Requested(old, i, c)
      PROVE  InFlightOf(w) \in Where(i, c) /\ ~Ahead(item[i], c) /\ ~Waits(r, i, c) /\ Single(Where(i, c))
  <2>1. Located(i, c)
    BY WhereIs
  <2>2. InFlightOf(w) \in Where(i, c) /\ Single(Where(i, c))
    BY <1>2, <1>8, <2>1 DEF Located, IInv, TokensOK
  <2>3. InItem \notin Where(i, c) /\ InWrites(w) \notin Where(i, c)
    BY <2>2, PlacesApart DEF Single
  <2> QED
    BY <1>1, <2>1, <2>2, <2>3 DEF Located
<1>9. ASSUME NEW i \in Items, NEW c PROVE Requested(old, i, c) => c \in Index(i)
  BY <1>3 DEF Requested, InQueue
<1>10. ASSUME NEW i \in Items PROVE AskedOnce(i)'
  <2>1. Target(i)' = Target(i) /\ Index(i)' = Index(i)
    BY SameOffer
  <2>2. AskedOnce(i) /\ item[i] \in Item /\ item'[i].next = item[i].next /\ item'[i].digest = item[i].digest
    BY <1>3, <1>4 DEF IInv, TokensOK, TypeOK, Unasked
  <2>3. item'[i].retries \subseteq Index(i)
    BY <1>4, <1>9, <2>2 DEF AskedOnce
  <2>4. ASSUME NEW c \in item'[i].retries, c # DigestIndex PROVE c < item[i].next
    <3>1. CASE c \in item[i].retries
      BY <2>2, <2>4, <3>1 DEF AskedOnce
    <3>2. CASE Requested(old, i, c)
      <4>1. ~Ahead(item[i], c) /\ c \in Nat /\ item[i].next \in Nat
        BY <1>3, <1>8, <1>9, <2>2, <3>2, Offer DEF Index, Item
      <4> QED
        BY <2>4, <4>1 DEF Ahead
    <3> QED
      BY <1>4, <3>1, <3>2
  <2>5. ~(item[i].digest /\ DigestIndex \in item'[i].retries)
    <3>1. Requested(old, i, DigestIndex) => ~item[i].digest
      BY <1>8 DEF Index, Ahead
    <3> QED
      BY <1>4, <2>2, <3>1 DEF AskedOnce
  <2> QED
    BY <2>1, <2>2, <2>3, <2>4, <2>5 DEF AskedOnce
<1>11. ASSUME NEW i \in Items, NEW c \in Index(i)
       PROVE  /\ Single(Where(i, c)')
              /\ Where(i, c) = {} => Where(i, c)' = {}
              /\ Where(i, c)' = {} => Where(i, c) = {} \/ item'[i].closed
  <2>1. Single(Where(i, c)) /\ Told(i)
    BY DEF IInv, TokensOK, ItemOK
  <2>2. Ahead(item'[i], c) <=> Ahead(item[i], c) \/ (Pending(i) /\ Requested(old, i, c))
    BY <1>4 DEF Ahead, Unasked
  <2>3. CASE ~Requested(old, i, c)
    <3>1. Where(i, c)' = Where(i, c)
      BY <1>1, <1>2, <1>5, <1>6, <1>7, <2>2, <2>3, WorkRests
    <3> QED
      BY <2>1, <3>1 DEF Single
  <2>4. CASE Requested(old, i, c) /\ Pending(i)
    <3>1. PICK a, b : a = InFlightOf(w) /\ b = InItem
      OBVIOUS
    <3>2. b # InHands(t) /\ b # InFlightOf(w) /\ b # InWrites(w)
      BY <3>1, PlacesApart
    <3>3. a \in Where(i, c) /\ Ahead(item'[i], c) /\ ~Waits(r, i, c)
      BY <1>8, <2>2, <2>4, <3>1
    <3>4. Where(i, c) = {a} /\ Where(i, c)' = {b}
      BY <1>5, <1>6, <1>7, <2>1, <3>1, <3>2, <3>3, WorkMoves
    <3> QED
      BY <3>4 DEF Single
  <2>5. CASE Requested(old, i, c) /\ ~Pending(i)
    <3>1. PICK a : a = InFlightOf(w)
      OBVIOUS
    <3>2. a \in Where(i, c) /\ ~Ahead(item'[i], c) /\ ~Waits(r, i, c)
      BY <1>8, <2>2, <2>5, <3>1
    <3>3. Where(i, c) = {a} /\ Where(i, c)' = {}
      BY <1>5, <1>6, <1>7, <2>1, <3>1, <3>2, WorkDrops
    <3>4. item'[i].closed
      BY <1>4, <2>1, <2>5 DEF Told, Unasked
    <3> QED
      BY <3>3, <3>4 DEF Single
  <2> QED
    BY <2>3, <2>4, <2>5
<1>12. \A i \in Items : Same(i) /\ AskedOnce(i)' /\ TokensGo(x, i)
  BY <1>4, <1>10, <1>11 DEF Same, Unasked, TokensGo
<1>13. \A i : ~Marked(at[t], i) /\ ~Cared(at[t], i)
  BY <1>1, <1>3 DEF Marked, Cared, ThreadOK, TaskOf, Ending
<1>14. \A i \in Items : Grows(i) /\ TokensOK(i)' /\ ItemOK(i)'
  BY <1>6, <1>7, <1>12, <1>13, WorkAsks
<1>15. ThreadOK(at[t])'
  BY <1>1, <1>3, <1>7, WorkTypes, IdleOK
<1>16. \A n \in 1 .. Len(r) : \E m \in 1 .. Len(writes[w]) : r[n] = writes[w][m]
  BY <1>1
<1>17. Len(q) <= 2 /\ (\A n \in 1 .. Len(q) : FALSE) /\ x.op # "read" /\ x.op # "prepare"
  BY <1>5, <1>6
<1> QED
  BY <1>1, <1>3, <1>5, <1>7, <1>14, <1>15, <1>16, <1>17, WorkKeeps

LEMMA LoseKeeps ==
  ASSUME IInv, NEW w \in Workers, Lose(w)
  PROVE  IInv'
<1>1. /\ at[Reader(w)].op = "read" /\ Drop(w, "none") /\ ((\E kind : Fault(kind)) \/ UNCHANGED faults)
      /\ UNCHANGED <<disk, control, writes, batched, ending, room, acts, plan>>
  BY DEF Lose
<1>2. faults' \in Nat
  BY <1>1, FaultsType DEF IInv
<1> QED
  BY <1>1, <1>2, DropKeeps

LEMMA LeaveCancelledKeeps ==
  ASSUME IInv, NEW w \in Workers, LeaveCancelled(w)
  PROVE  IInv'
<1>1. /\ at[Reader(w)].op = "read" /\ Drop(w, "left")
      /\ UNCHANGED <<disk, control, writes, batched, ending, world>>
  BY DEF LeaveCancelled
<1>2. faults' \in Nat /\ UNCHANGED <<room, acts, plan>>
  BY <1>1 DEF IInv, TypeOK, world
<1> QED
  BY <1>1, <1>2, DropKeeps

\* The chunk a writer takes, and those after it.
ReadOf(w, t, k, r) ==
  /\ \A i, c : Waits(r, i, c) <=> Waits(writes[w], i, c) /\ ~(k.item = i /\ k.index = c)
  /\ OnceRead(r) /\ r \in Seq(Read)
  /\ k \in Task /\ InQueue(k) /\ k.item \in Items /\ k.index \in Asks(k.item) /\ k.index # DigestIndex
  /\ InWrites(w) \in Where(k.item, k.index) /\ Single(Where(k.item, k.index))
  /\ \A n \in 1 .. Len(r) : \E l \in 1 .. Len(writes[w]) : r[n] = writes[w][l]
  /\ ~Requested(inflight[w], k.item, k.index) /\ ~Ahead(item[k.item], k.index)
  /\ \A i, c : ~Carries(at[t], i, c)
  /\ \A i : ~Marked(at[t], i) /\ ~Cared(at[t], i)
LEMMA ReadIs ==
  ASSUME IInv, NEW w \in Workers, writes[w] # <<>>, NEW t, t = Writer(w), at[t] = Idle,
         NEW k, k = Head(writes[w]).task, NEW r, r = Tail(writes[w])
  PROVE  ReadOf(w, t, k, r)
<1>1. writes[w] \in Seq(Read) /\ OnceRead(writes[w]) /\ TypeOK
  BY WorkerIs DEF IInv
<1>2. /\ \A i, c : Waits(r, i, c) <=> Waits(writes[w], i, c) /\ ~(k.item = i /\ k.index = c)
      /\ OnceRead(r) /\ r \in Seq(Read) /\ Len(writes[w]) \in Nat \ {0}
      /\ Head(writes[w]) \in Read /\ Head(writes[w]) = writes[w][1] /\ Waits(writes[w], k.item, k.index)
      /\ \A n \in 1 .. Len(r) : \E l \in 1 .. Len(writes[w]) : r[n] = writes[w][l]
  BY <1>1, WaitsTail
<1>3. k \in Task /\ InQueue(k) /\ k.index # DigestIndex
  <2>1. 1 \in 1 .. Len(writes[w])
    BY <1>2
  <2>2. InQueue(writes[w][1].task) /\ writes[w][1].task.index # DigestIndex
    BY <2>1, WorkerIs
  <2>3. k \in Task
    BY <1>2 DEF Read
  <2> QED
    BY <1>2, <2>2, <2>3
<1>4. k.item \in Items /\ k.index \in Index(k.item) /\ k.index \in Asks(k.item)
  BY <1>3 DEF InQueue, Index
<1>5. Located(k.item, k.index)
  BY WhereIs
<1>6. InWrites(w) \in Where(k.item, k.index) /\ Single(Where(k.item, k.index))
  BY <1>2, <1>4, <1>5 DEF Located, IInv, TokensOK
<1>7. ~Requested(inflight[w], k.item, k.index) /\ ~Ahead(item[k.item], k.index)
  <2>1. InFlightOf(w) \notin Where(k.item, k.index) /\ InItem \notin Where(k.item, k.index)
    BY <1>6, PlacesApart DEF Single
  <2> QED
    BY <1>5, <2>1 DEF Located
<1>8. (\A i, c : ~Carries(at[t], i, c)) /\ \A i : ~Marked(at[t], i) /\ ~Cared(at[t], i)
  <2>1. Idle.op = "idle" /\ Idle.ends = {} /\ Idle.taken = {}
    BY <1>1, ThreadTypes
  <2> QED
    BY <2>1 DEF Carries, Marked, Cared, Moves, Closing
<1> QED
  BY <1>2, <1>3, <1>4, <1>6, <1>7, <1>8 DEF ReadOf

\* The count of the bad chunks, with one more.
LEMMA CountsMore ==
  ASSUME NEW f \in Counts, NEW c \in Nat, NEW n \in Nat
  PROVE  [d \in DOMAIN f \cup {c} |-> IF d = c THEN n ELSE f[d]] \in Counts
<1>1. PICK s \in SUBSET Nat : f \in [s -> Nat]
  BY DEF Counts
<1>2. DOMAIN f = s /\ s \cup {c} \in SUBSET Nat
  BY <1>1
<1>3. [d \in DOMAIN f \cup {c} |-> IF d = c THEN n ELSE f[d]] \in [s \cup {c} -> Nat]
  BY <1>1, <1>2
<1> QED
  BY <1>2, <1>3 DEF Counts
LEMMA AttemptsAre ==
  ASSUME TypeOK, NEW i \in Items, NEW c
  PROVE  Attempts(i, c) \in Nat /\ item[i].bad \in Counts
<1>1. item[i].bad \in Counts
  BY DEF TypeOK, Item
<1>2. PICK s \in SUBSET Nat : item[i].bad \in [s -> Nat]
  BY <1>1 DEF Counts
<1> QED
  BY <1>1, <1>2 DEF Attempts

LEMMA TakeKeeps ==
  ASSUME IInv, NEW w \in Workers, Take(w)
  PROVE  IInv'
<1>1. /\ at[Writer(w)] = Idle /\ writes[w] # <<>> /\ writes' = [writes EXCEPT ![w] = Tail(@)]
      /\ UNCHANGED <<disk, control, conn, inflight, batched, ending, world>>
  BY DEF Take
<1>2. PICK k, q, r, t, i, c : /\ k = Head(writes[w]).task /\ q = inflight[w] /\ r = Tail(writes[w]) /\ t = Writer(w)
                              /\ i = k.item /\ c = k.index
  OBVIOUS
<1>3. /\ inflight[w] \in Seq(Task) /\ Once(inflight[w]) /\ Len(inflight[w]) <= 2 /\ t \in Threads /\ TypeOK
      /\ at[t] = Idle
  BY <1>1, <1>2, WorkerIs DEF IInv
<1>4. ReadOf(w, t, k, r)
  BY <1>1, <1>2, ReadIs
<1>5. /\ \A j, d : Waits(r, j, d) <=> Waits(writes[w], j, d) /\ ~(i = j /\ c = d)
      /\ OnceRead(r) /\ r \in Seq(Read) /\ k \in Task /\ InQueue(k) /\ i \in Items /\ c \in Asks(i) /\ c # DigestIndex
      /\ InWrites(w) \in Where(k.item, k.index)
      /\ \A n \in 1 .. Len(r) : \E l \in 1 .. Len(writes[w]) : r[n] = writes[w][l]
      /\ ~Requested(inflight[w], i, c) /\ ~Ahead(item[i], c)
      /\ \A j, d : ~Carries(at[t], j, d)
      /\ \A j : ~Marked(at[t], j) /\ ~Cared(at[t], j)
  BY <1>2, <1>4 DEF ReadOf
<1>6. Current(k) /\ item[i] \in Item /\ disk[i] \in Disk /\ c \in Nat /\ Told(i) /\ AskedOnce(i)
  <2>1. c \in Nat
    BY <1>3, <1>5, Offer
  <2> QED
    BY <1>2, <1>3, <1>5, <2>1, HasRoom DEF TypeOK, IInv, ItemOK, TokensOK
<1>7. PICK out : out \notin {InItem, InHands(t), InFlightOf(w), InWrites(w)}
  <2>1. \E out : out \notin {InItem, InHands(t), InFlightOf(w), InWrites(w)}
    BY NoSetContainsEverything
  <2> QED
    BY <2>1
<1>8. /\ Idle \in Thread /\ Idle.op = "idle" /\ Idle.ends = {} /\ Idle.taken = {}
      /\ \A j, d : ~Carries(Idle, j, d)
      /\ at = [at EXCEPT ![t] = Idle] /\ item = [item EXCEPT ![i] = item[i]]
  <2>1. Idle \in Thread /\ Idle.op = "idle" /\ Idle.ends = {} /\ Idle.taken = {}
    BY <1>3, ThreadTypes
  <2> QED
    BY <1>3, <1>5, <2>1 DEF TypeOK, Carries, Moves, Closing
<1>9. PICK x, s, b :
        /\ at' = [at EXCEPT ![t] = x] /\ x \in Thread /\ ThreadOK(x) /\ x.op \in {"idle", "write", "end"}
        /\ item' = [item EXCEPT ![i] = s] /\ s \in Item /\ Unasked(s, item[i])
        /\ s.retries = item[i].retries \cup (IF b = InItem THEN {c} ELSE {})
        /\ \A j, d : Carries(x, j, d) <=> b = InHands(t) /\ j = i /\ d = c
        /\ \/ b = InHands(t)
           \/ b = InItem
           \/ b = out /\ s.closed
           \/ b = out /\ x.op = "end" /\ x.task.item = i
  <2>1. CASE Head(writes[w]).good
    <3>1. PICK x : x = [Idle EXCEPT !.op = "write", !.task = k]
      OBVIOUS
    <3>2. at' = [at EXCEPT ![t] = x] /\ UNCHANGED item
      BY <1>2, <2>1, <3>1 DEF Take
    <3>3. x \in Thread /\ x.op = "write" /\ x.task = k /\ x.ends = {} /\ x.taken = {}
      BY <1>5, <1>8, <3>1 DEF Thread, Ops, Moves
    <3>4. ThreadOK(x)
      <4>1. CarriedOf(k, item[k.item], disk[k.item])
        BY <1>2, <1>5 DEF InQueue, Carried
      <4> QED
        BY <1>2, <1>5, <3>3, <4>1 DEF ThreadOK, TaskOf, Moves, Closing, Ending
    <3>5. \A j, d : Carries(x, j, d) <=> j = i /\ d = c
      BY <1>2, <1>5, <3>3 DEF Carries, Moves, Closing
    <3>6. InHands(t) # InItem
      BY PlacesApart
    <3>7. item' = [item EXCEPT ![i] = item[i]] /\ Unasked(item[i], item[i])
      BY <1>8, <3>2 DEF Unasked
    <3> QED
      BY <1>6, <3>2, <3>3, <3>4, <3>5, <3>6, <3>7
  <2>2. CASE ~Head(writes[w]).good /\ ~Pending(i)
    <3>1. UNCHANGED <<item, at>>
      BY <1>2, <2>2 DEF Take
    <3>2. item[i].closed
      BY <1>6, <2>2 DEF Told
    <3>3. ThreadOK(Idle)
      BY <1>8 DEF ThreadOK, TaskOf, Moves, Closing, Ending
    <3>4. out # InHands(t) /\ out # InItem
      BY <1>7
    <3>5. item' = [item EXCEPT ![i] = item[i]] /\ Unasked(item[i], item[i]) /\ at' = [at EXCEPT ![t] = Idle]
      BY <1>8, <3>1 DEF Unasked
    <3> QED
      BY <1>6, <1>8, <3>2, <3>3, <3>4, <3>5
  <2>3. CASE ~Head(writes[w]).good /\ Pending(i)
    <3>1. PICK n, bad : /\ n = Attempts(i, c) + 1
                        /\ bad = [d \in DOMAIN item[i].bad \cup {c} |-> IF d = c THEN n ELSE item[i].bad[d]]
      OBVIOUS
    <3>2. IF n >= MaxAttempts
          THEN /\ item' = [item EXCEPT ![i].bad = bad]
               /\ Ends(t, i, "failed")
          ELSE /\ item' = [item EXCEPT ![i].bad = bad, ![i].retries = @ \cup {c}]
               /\ UNCHANGED at
      BY <1>2, <1>6, <2>3, <3>1 DEF Take
    <3>3. bad \in Counts /\ n \in Nat
      <4>1. n \in Nat /\ item[i].bad \in Counts
        BY <1>3, <1>5, <3>1, AttemptsAre
      <4> QED
        BY <1>6, <3>1, <4>1, CountsMore
    <3>4. CASE n >= MaxAttempts
      <4>1. PICK x, s : x = EndsWith(i, "failed") /\ s = [item[i] EXCEPT !.bad = bad]
        OBVIOUS
      <4>2. at' = [at EXCEPT ![t] = x]
        BY <3>2, <3>4, <4>1 DEF Ends, EndsWith
      <4>3. x \in Thread /\ x.op = "end" /\ x.task.item = i /\ x.ends = {<<i, "failed">>} /\ x.taken = {}
        BY <1>3, <1>5, <4>1, ThreadTypes DEF Outcomes
      <4>4. ThreadOK(x)
        <5>1. \A e \in x.ends : EndOK(x, e)
          BY <1>5, <4>3 DEF EndOK
        <5> QED
          BY <1>5, <4>3, <5>1 DEF ThreadOK, TaskOf, Moves, Closing, Ending
      <4>5. item' = [item EXCEPT ![i] = s]
        BY <3>2, <3>4, <4>1
      <4>6. s \in Item /\ Unasked(s, item[i]) /\ s.retries = item[i].retries
        BY <1>6, <3>3, <4>1 DEF Item, Unasked
      <4>7. \A j, d : ~Carries(x, j, d)
        BY <4>3 DEF Carries, Moves, Closing
      <4>8. out # InItem /\ out # InHands(t)
        BY <1>7
      <4> QED
        BY <4>2, <4>3, <4>4, <4>5, <4>6, <4>7, <4>8
    <3>5. CASE ~(n >= MaxAttempts)
      <4>1. PICK z : z = item[i].retries \cup {c}
        OBVIOUS
      <4>2. PICK s : s = [item[i] EXCEPT !.bad = bad, !.retries = z]
        OBVIOUS
      <4>3. item' = [item EXCEPT ![i] = s] /\ at' = [at EXCEPT ![t] = Idle]
        BY <1>3, <1>5, <1>8, <3>2, <3>5, <4>1, <4>2 DEF TypeOK
      <4>4. z \in SUBSET Nat
        BY <1>6, <4>1 DEF Item
      <4>5. s \in Item /\ Unasked(s, item[i]) /\ s.retries = z
        BY <1>6, <3>3, <4>2, <4>4 DEF Item, Unasked
      <4>6. ThreadOK(Idle)
        BY <1>8 DEF ThreadOK, TaskOf, Moves, Closing, Ending
      <4>7. InItem # InHands(t)
        BY PlacesApart
      <4> QED
        BY <1>8, <4>1, <4>3, <4>5, <4>6, <4>7
    <3> QED
      BY <3>4, <3>5
  <2> QED
    BY <2>1, <2>2, <2>3
<1>10. item' \in [Items -> Item] /\ item'[i] = s /\ \A j \in Items : j # i => item'[j] = item[j]
  BY <1>3, <1>5, <1>9 DEF TypeOK
<1>11. WorkOf(w, t, x, q, r)
  <2>1. Items' = Items /\ UNCHANGED plan
    BY <1>1, SameOffer DEF world
  <2>2. inflight' = [inflight EXCEPT ![w] = q]
    BY <1>1, <1>2, <1>3 DEF TypeOK
  <2> QED
    BY <1>1, <1>2, <1>3, <1>5, <1>9, <1>10, <2>1, <2>2 DEF WorkOf, StepOf, TypeOK, ending, world
<1>12. ASSUME NEW j \in Items PROVE Same(j) /\ AskedOnce(j)'
  <2>1. UNCHANGED plan
    BY <1>1 DEF world
  <2>2. CASE j = i
    <3>1. Target(i)' = Target(i) /\ Index(i)' = Index(i)
      BY <2>1, SameOffer
    <3>2. c < item[i].next
      <4>1. item[i].next \in Nat
        BY <1>6 DEF Item
      <4> QED
        BY <1>5, <1>6, <4>1 DEF Ahead
    <3> QED
      BY <1>1, <1>5, <1>6, <1>9, <1>10, <2>2, <3>1, <3>2 DEF Same, Unasked, AskedOnce, Index
  <2>3. CASE j # i
    <3>1. item'[j] = item[j] /\ AskedOnce(j)
      BY <1>10, <2>3 DEF IInv, TokensOK
    <3> QED
      BY <1>1, <2>1, <3>1, AskedStays DEF Same
  <2> QED
    BY <2>2, <2>3
<1>13. b # InFlightOf(w) /\ b # InWrites(w)
  BY <1>7, <1>9, PlacesApart
<1>14. ASSUME NEW j \in Items, NEW d \in Index(j) PROVE MovesTo(w, t, x, q, r, j, d, b, j = k.item /\ d = k.index)
  <2>1. Ahead(item'[j], d) <=> IF j = i /\ d = c THEN b = InItem ELSE Ahead(item[j], d)
    <3>1. CASE j = i
      BY <1>5, <1>9, <1>10, <3>1 DEF Ahead, Unasked
    <3>2. CASE j # i
      BY <1>10, <3>2
    <3> QED
      BY <3>1, <3>2
  <2> QED
    BY <1>2, <1>5, <1>9, <1>13, <2>1 DEF MovesTo
<1>15. \A j \in Items : TokensGo(x, j)
  <2>1. \/ b \in {InItem, InHands(t), InFlightOf(w), InWrites(w)}
        \/ item'[k.item].closed
        \/ x.op = "end" /\ x.task.item = k.item
    BY <1>2, <1>9, <1>10
  <2> QED
    BY <1>5, <1>11, <1>14, <2>1, OneGoes
<1>16. \A j \in Items : Grows(j) /\ TokensOK(j)' /\ ItemOK(j)'
  BY <1>5, <1>9, <1>11, <1>12, <1>15, WorkAsks
<1>17. ThreadOK(at[t])'
  <2>1. Items' = Items /\ Asks(x.task.item)' = Asks(x.task.item) /\ Chunks(x.task.item)' = Chunks(x.task.item)
    BY <1>1, SameOffer DEF world
  <2>2. at'[t] = x
    BY <1>3, <1>11, WorkTypes
  <2>3. \A j \in Items : /\ item'[j].opened = item[j].opened /\ item'[j].closed = item[j].closed /\ disk'[j] = disk[j]
    BY <1>12 DEF Same
  <2>4. \A e \in x.ends : EndOK(x, e)'
    BY <1>9, <2>1, <2>3 DEF ThreadOK, EndOK
  <2> QED
    BY <1>9, <2>1, <2>2, <2>3, <2>4 DEF ThreadOK, TaskOf, CarriedOf, EndOK, BatchedOK, Moves, Closing, Ending
<1>18. Len(q) <= 2 /\ Once(q) /\ \A n \in 1 .. Len(q) : \E m \in 1 .. Len(inflight[w]) : q[n] = inflight[w][m]
  BY <1>2, <1>3
<1>19. x.op # "read" /\ x.op # "prepare" /\ q = inflight[w]
  BY <1>2, <1>9
<1>20. \A n \in 1 .. Len(r) : \E l \in 1 .. Len(writes[w]) : r[n] = writes[w][l]
  BY <1>5
<1>21. OnceRead(r)
  BY <1>5
<1> QED
  BY <1>11, <1>16, <1>17, <1>18, <1>19, <1>20, <1>21, WorkKeeps

\* The request of a thread that prepared it is sent; the item may have been opened.
LEMMA PreparedFlies ==
  ASSUME IInv, NEW w \in Workers, NEW t, t = Reader(w), at[t].op = "prepare", NEW k, k = at[t].task, NEW i, i = k.item,
         NEW s \in Item, NEW d \in Disk, item' = [item EXCEPT ![i] = s], disk' = [disk EXCEPT ![i] = d],
         Returns(t), InFlight(w, k),
         s.next = item[i].next, s.retries = item[i].retries, s.digest = item[i].digest,
         s.processed = item[i].processed, s.state = item[i].state, s.closed = item[i].closed,
         item[i].file # "none" => disk[i].has \subseteq d.has /\ s.file # "none",
         s.opened, k.index \notin d.old, Fits(i, s, d), FileOf(i, s, d), VerifiedOf(s, d),
         UNCHANGED <<control, conn, writes, batched, ending, world>>
  PROVE  IInv'
<1>1. PICK x, q, r, c, b : x = Idle /\ q = Append(inflight[w], k) /\ r = writes[w] /\ c = k.index /\ b = InFlightOf(w)
  OBVIOUS
<1>2. /\ inflight[w] \in Seq(Task) /\ writes[w] \in Seq(Read) /\ Once(inflight[w]) /\ OnceRead(writes[w])
      /\ Len(inflight[w]) \in Nat /\ t \in Threads /\ t # Writer(w) /\ TypeOK
  BY WorkerIs DEF IInv
<1>3. /\ at[t] \in Thread /\ i \in Items /\ at[t].ends = {} /\ at[t].taken = {} /\ (\A j : ~Cared(at[t], j)) /\ ThreadOK(at[t])
  BY <1>2, HasNoEnds DEF Moves
<1>4. k \in Task /\ c \in Asks(i) /\ c \in Index(i) /\ c # DigestIndex
  <2>1. k \in Task
    BY <1>3 DEF Thread
  <2>2. c \in Asks(i)
    BY <1>1, <1>3 DEF ThreadOK, TaskOf, Moves
  <2>3. DigestIndex \notin Asks(i)
    BY <1>2, <1>3, Offer
  <2> QED
    BY <2>1, <2>2, <2>3 DEF Index
<1>5. \A j, e : Carries(at[t], j, e) <=> j = i /\ e = c /\ e # DigestIndex
  BY <1>1 DEF Carries, Moves, Closing
<1>6. InHands(t) \in Where(i, c) /\ Single(Where(i, c)) /\ Located(i, c)
  <2>1. Located(i, c)
    BY WhereIs
  <2> QED
    BY <1>2, <1>3, <1>4, <1>5, <2>1 DEF Located, IInv, TokensOK
<1>7. ~Requested(inflight[w], i, c) /\ ~Waits(writes[w], i, c) /\ ~Ahead(item[i], c)
  <2>1. InFlightOf(w) \notin Where(i, c) /\ InWrites(w) \notin Where(i, c) /\ InItem \notin Where(i, c)
    BY <1>6, PlacesApart DEF Single
  <2> QED
    BY <1>6, <2>1 DEF Located
<1>8. /\ \A j, e : Requested(q, j, e) <=> Requested(inflight[w], j, e) \/ (i = j /\ c = e)
      /\ Once(q) /\ q \in Seq(Task) /\ Len(q) <= 2
      /\ \A n \in 1 .. Len(q) : q[n] = k \/ \E m \in 1 .. Len(inflight[w]) : q[n] = inflight[w][m]
  <2>1. /\ \A j, e : Requested(q, j, e) <=> Requested(inflight[w], j, e) \/ (k.item = j /\ k.index = e)
        /\ Once(q) /\ q \in Seq(Task) /\ Len(q) = Len(inflight[w]) + 1
        /\ \A n \in 1 .. Len(q) : q[n] = k \/ \E m \in 1 .. Len(inflight[w]) : q[n] = inflight[w][m]
    <3>1. ~Requested(inflight[w], k.item, k.index)
      BY <1>1, <1>7
    <3>2. inflight[w] \in Seq(Task) /\ k \in Task /\ Once(inflight[w])
      BY <1>2, <1>4
    <3>3. q = Append(inflight[w], k)
      BY <1>1
    <3> QED
      <4>1. AppendsTo(Append(inflight[w], k), inflight[w], k)
        BY <3>1, <3>2, AppendIs
      <4> QED
        BY <3>3, <4>1 DEF AppendsTo
  <2>2. Len(inflight[w]) < 2
    <3>1. Queues
      BY DEF IInv
    <3> QED
      BY <3>1 DEF Queues
  <2>3. Len(q) <= 2
    BY <1>2, <2>1, <2>2
  <2> QED
    BY <1>1, <2>1, <2>3
<1>9. x \in Thread /\ x.op = "idle" /\ \A j, e : ~Carries(x, j, e)
  <2>1. x \in Thread /\ x.op = "idle"
    BY <1>1, <1>2, ThreadTypes
  <2> QED
    BY <2>1 DEF Carries, Moves, Closing
<1>10. /\ item' \in [Items -> Item] /\ disk' \in [Items -> Disk] /\ item'[i] = s /\ disk'[i] = d
       /\ \A j \in Items : j # i => item'[j] = item[j] /\ disk'[j] = disk[j]
  BY <1>2, <1>3 DEF TypeOK
<1>11. WorkOf(w, t, x, q, r)
  <2>1. Items' = Items /\ UNCHANGED plan
    BY SameOffer DEF world
  <2>2. at' = [at EXCEPT ![t] = x] /\ inflight' = [inflight EXCEPT ![w] = q] /\ writes' = [writes EXCEPT ![w] = r]
    BY <1>1, <1>2 DEF Returns, InFlight, TypeOK
  <2> QED
    BY <1>2, <1>8, <1>9, <1>10, <2>1, <2>2, <1>1 DEF WorkOf, StepOf, TypeOK, ending, world
<1>12. ASSUME NEW j \in Items, NEW e \in Index(j)
       PROVE  MovesTo(w, t, x, q, r, j, e, b, j = k.item /\ e = k.index)
  <2>1. b # InItem /\ b # InHands(t) /\ b # InWrites(w) /\ b = InFlightOf(w)
    BY <1>1, PlacesApart
  <2>2. Ahead(item'[j], e) <=> Ahead(item[j], e)
    BY <1>10 DEF Ahead
  <2> QED
    <3>1. Carries(x, j, e) <=> IF j = k.item /\ e = k.index THEN b = InHands(t) ELSE Carries(at[t], j, e)
      BY <1>1, <1>5, <1>9, <2>1
    <3>2. Requested(q, j, e) <=> IF j = k.item /\ e = k.index THEN b = InFlightOf(w)
                                 ELSE Requested(inflight[w], j, e)
      BY <1>1, <1>8, <2>1
    <3>3. Waits(r, j, e) <=> IF j = k.item /\ e = k.index THEN b = InWrites(w) ELSE Waits(writes[w], j, e)
      BY <1>1, <1>7, <2>1
    <3>4. Ahead(item'[j], e) <=> IF j = k.item /\ e = k.index THEN b = InItem ELSE Ahead(item[j], e)
      BY <1>1, <1>7, <2>1, <2>2
    <3> QED
      BY <3>1, <3>2, <3>3, <3>4 DEF MovesTo
<1>13. \A j \in Items : TokensGo(x, j)
  <2>1. InHands(t) \in Where(k.item, k.index)
    BY <1>1, <1>6
  <2> QED
    <3>1. MovesOne(w, t, x, q, r, k, b)
      BY <1>12 DEF MovesOne
    <3>2. b = InFlightOf(w)
      BY <1>1
    <3> QED
      BY <1>11, <2>1, <3>1, <3>2, OneSent
<1>14. \A j : ~Marked(at[t], j)
  BY DEF Marked
<1>15. /\ TypeOK' /\ UNCHANGED <<plan, phase, batched>> /\ StepOf(t, x) /\ at'[t] = x
  <2>1. StepOf(t, x)
    BY <1>11 DEF WorkOf
  <2> QED
    BY <1>2, <1>11, <2>1, WorkTypes
<1>16. Grows(i) /\ TokensOK(i)' /\ ItemOK(i)'
  <2>1. Grows(i)
    BY <1>10 DEF Grows, Fits, Pending
  <2>2. AskedOnce(i)'
    BY <1>3, <1>10, <1>15, AskedStays DEF IInv, TokensOK
  <2>3. TokensOK(i)' /\ Counted(i)' /\ Stored(i)'
    <3>1. LeavesOff(t, x, i)
      BY <1>9, <1>14 DEF LeavesOff
    <3>2. /\ item'[i].processed = item[i].processed /\ (item[i].closed => item'[i].closed)
          /\ ~item'[i].closed /\ item[i].file # "none" => disk[i].has \subseteq disk'[i].has /\ item'[i].file # "none"
      BY <1>10
    <3> QED
      BY <1>2, <1>3, <1>13, <1>15, <2>2, <3>1, <3>2, MovesOK
  <2>4. FileOK(i)' /\ Verified(i)'
    <3>1. FileOf(i, item'[i], disk'[i]) /\ VerifiedOf(item'[i], disk'[i])
      BY <1>10
    <3> QED
      BY <1>15, <3>1, FilesOK
  <2>5. Told(i)'
    <3>1. Told(i)
      BY <1>3 DEF IInv, ItemOK
    <3> QED
      BY <1>2, <1>3, <1>10, <1>15, <3>1, ToldStays
  <2> QED
    BY <2>1, <2>3, <2>4, <2>5 DEF ItemOK
<1>17. ASSUME NEW j \in Items PROVE Grows(j) /\ TokensOK(j)' /\ ItemOK(j)'
  <2>1. CASE j = i
    BY <1>16, <2>1
  <2>2. CASE j # i
    <3>1. item'[j] = item[j] /\ disk'[j] = disk[j] /\ AskedOnce(j)
      BY <1>10, <2>2 DEF IInv, TokensOK
    <3>2. Same(j)
      BY <3>1 DEF Same
    <3>3. AskedOnce(j)'
      BY <1>15, <3>1, AskedStays
    <3>4. x.op # "askAgain" /\ ~Cared(at[t], j) /\ TokensGo(x, j)
      BY <1>3, <1>9, <1>13
    <3> QED
      BY <1>11, <1>14, <3>2, <3>3, <3>4, SameGrows, WorkItem
  <2> QED
    BY <2>1, <2>2
<1>18. ThreadOK(at[t])'
  BY <1>1, <1>2, <1>15, IdleOK
<1>19. Fitting(k)
  BY <1>1, <1>3, <1>4, <1>10 DEF Fitting
<1>20. \A n \in 1 .. Len(q) : Fitting(q[n]) \/ \E m \in 1 .. Len(inflight[w]) : q[n] = inflight[w][m]
  BY <1>8, <1>19
<1>21. OnceRead(r) /\ \A n \in 1 .. Len(r) : \E m \in 1 .. Len(writes[w]) : r[n] = writes[w][m]
  BY <1>1, <1>2
<1>22. x.op # "read" /\ x.op # "prepare" /\ Len(q) <= 2 /\ Once(q)
  BY <1>8, <1>9
<1> QED
  BY <1>2, <1>11, <1>17, <1>18, <1>20, <1>21, <1>22, WorkKeeps

\* What open makes of an item and its files.
OpenAs(i, s, d) ==
  /\ s \in Item /\ d \in Disk /\ item[i].file = "none"
  /\ s.next = item[i].next /\ s.retries = item[i].retries /\ s.digest = item[i].digest
  /\ s.processed = item[i].processed /\ s.state = item[i].state /\ s.closed = item[i].closed
  /\ s.opened /\ s.file = (IF disk[i].kept # {} THEN "open" ELSE "none") /\ d.has = disk[i].kept
  /\ d.old = disk[i].old /\ d.old \subseteq disk[i].kept
  /\ Fits(i, s, d) /\ FileOf(i, s, d) /\ VerifiedOf(s, d)
LEMMA OpenIs ==
  ASSUME IInv, NEW i \in Items, ~item[i].opened, ~item[i].closed,
         NEW s, s = [item[i] EXCEPT !.opened = TRUE, !.file = IF disk[i].kept # {} THEN "open" ELSE "none"],
         NEW d, d = [disk[i] EXCEPT !.has = disk[i].kept]
  PROVE  OpenAs(i, s, d)
<1>1. item[i] \in Item /\ disk[i] \in Disk /\ FileOK(i) /\ Verified(i)
  BY DEF IInv, TypeOK, ItemOK
<1>2. /\ s \in Item /\ s.next = item[i].next /\ s.retries = item[i].retries /\ s.digest = item[i].digest
      /\ s.processed = item[i].processed /\ s.state = item[i].state /\ s.closed = item[i].closed
      /\ s.opened /\ s.file = (IF disk[i].kept # {} THEN "open" ELSE "none") /\ s.restarted = item[i].restarted
      /\ s.local = item[i].local /\ s.fresh = item[i].fresh
  <2>1. (IF disk[i].kept # {} THEN "open" ELSE "none") \in {"none", "open", "sealed"}
    OBVIOUS
  <2> QED
    BY <1>1, <2>1 DEF Item
<1>3. d \in Disk /\ d.has = disk[i].kept /\ d.kept = disk[i].kept /\ d.old = disk[i].old /\ d.named = disk[i].named
  BY <1>1 DEF Disk
<1>4. /\ item[i].file = "none" /\ disk[i].old \subseteq disk[i].kept /\ disk[i].kept \subseteq Chunks(i)
      /\ ~(item[i].processed > 0)
  BY <1>1 DEF FileOK, FileOf
<1>5. Fits(i, s, d)
  BY <1>2, <1>3, <1>4 DEF Fits
<1>6. FileOf(i, s, d)
  BY <1>2, <1>3, <1>4 DEF FileOf
<1>7. VerifiedOf(s, d)
  BY <1>1, <1>2, <1>3 DEF Verified, VerifiedOf
<1> QED
  BY <1>2, <1>3, <1>4, <1>5, <1>6, <1>7 DEF OpenAs

LEMMA PrepareKeeps ==
  ASSUME IInv, NEW w \in Workers, Prepare(w)
  PROVE  IInv'
<1>1. PICK t, k, i, s : t = Reader(w) /\ k = at[t].task /\ i = k.item /\ s = item[i]
  OBVIOUS
<1>2. at[t].op = "prepare" /\ UNCHANGED <<control, conn, writes, batched, ending, room, acts, plan>>
  BY <1>1 DEF Prepare
<1>3. /\ t \in Threads /\ at[t] \in Thread /\ ThreadOK(at[t]) /\ i \in Items /\ at[t].ends = {} /\ at[t].taken = {}
      /\ (\A j : ~Cared(at[t], j)) /\ TypeOK /\ k.index \in Asks(i)
  <2>1. t \in Threads /\ TypeOK
    BY <1>1, WorkerIs DEF IInv
  <2>2. /\ at[t] \in Thread /\ ThreadOK(at[t]) /\ i \in Items /\ at[t].ends = {} /\ at[t].taken = {}
        /\ \A j : ~Cared(at[t], j)
    BY <1>1, <1>2, <2>1, HasNoEnds DEF Moves
  <2> QED
    BY <1>1, <1>2, <2>1, <2>2 DEF ThreadOK, TaskOf, Moves
<1>4. s \in Item /\ disk[i] \in Disk /\ FileOK(i) /\ Verified(i) /\ Current(k)
  <2>1. s \in Item /\ disk[i] \in Disk /\ FileOK(i) /\ Verified(i)
    BY <1>1, <1>3 DEF IInv, TypeOK, ItemOK
  <2>2. k \in Task
    BY <1>1, <1>3 DEF Thread
  <2> QED
    BY <1>1, <1>3, <2>1, <2>2, HasRoom
<1>5. UNCHANGED <<item, disk, inflight, faults>> => \A x : StepOf(t, x) => Rests(t, x)
  BY <1>2, <1>3 DEF Rests, TypeOK, Moves, ending
<1>6. CASE s.closed /\ Returns(t) /\ UNCHANGED <<item, disk, inflight, faults>>
  <2>1. Rests(t, Idle)
    BY <1>2, <1>5, <1>6, Shapes
  <2> QED
    BY <1>1, <1>3, <1>6, <2>1, CallReturns
<1>7. CASE ~s.closed /\ s.opened /\ s.file # "none" /\ k.index \in disk[i].has /\ Step(t, "count")
           /\ UNCHANGED <<item, disk, inflight, faults>>
  <2>1. Rests(t, StepsTo(at[t], "count"))
    BY <1>2, <1>5, <1>7, Shapes
  <2>2. s.file = "open"
    BY <1>1, <1>4, <1>7 DEF FileOK, FileOf, Item
  <2>3. StepsTo(at[t], "count").op = "count" /\ StepsTo(at[t], "count").task = k
    BY <1>1, <1>3, ThreadTypes DEF Ops, Moves
  <2>4. TaskOf(StepsTo(at[t], "count"), item[i], disk[i])
    BY <1>1, <1>3, <1>7, <2>2, <2>3 DEF TaskOf, Moves, Closing
  <2>5. Alike(at[t].op, "count")
    BY <1>2 DEF Alike, Moves
  <2> QED
    BY <1>1, <1>3, <2>1, <2>4, <2>5, CallSteps
<1>8. CASE ~s.closed /\ s.opened /\ ~(s.file # "none" /\ k.index \in disk[i].has) /\ Returns(t) /\ InFlight(w, k)
           /\ UNCHANGED <<item, disk, faults>>
  <2>1. PICK d : d = disk[i]
    OBVIOUS
  <2>2. item' = [item EXCEPT ![i] = s] /\ disk' = [disk EXCEPT ![i] = d]
    BY <1>1, <1>3, <1>8, <2>1 DEF TypeOK
  <2>3. k.index \notin d.old
    BY <1>1, <1>4, <1>8, <2>1 DEF FileOK, FileOf, Item
  <2>4. Fits(i, s, d) /\ FileOf(i, s, d) /\ VerifiedOf(s, d)
    BY <1>1, <1>4, <2>1 DEF Fits, FileOK, Verified
  <2>5. UNCHANGED <<control, conn, writes, batched, ending, world>>
    BY <1>2, <1>8 DEF world
  <2>6. /\ s.next = item[i].next /\ s.retries = item[i].retries /\ s.digest = item[i].digest
        /\ s.processed = item[i].processed /\ s.state = item[i].state /\ s.closed = item[i].closed
        /\ item[i].file # "none" => disk[i].has \subseteq d.has /\ s.file # "none"
        /\ s \in Item /\ d \in Disk /\ s.opened
    BY <1>1, <1>4, <1>8, <2>1
  <2> QED
    BY <1>1, <1>2, <1>8, <2>2, <2>3, <2>4, <2>5, <2>6, PreparedFlies
<1>9. CASE /\ ~s.closed /\ ~s.opened /\ OpensDone(i) /\ Marks(t, i, "done")
           /\ item' = [item EXCEPT ![i].opened = TRUE, ![i].closed = TRUE] /\ UNCHANGED <<disk, inflight, faults>>
  <2>1. PICK z, x, d : z = [s EXCEPT !.opened = TRUE, !.closed = TRUE] /\ x = MarksWith(i, "done") /\ d = disk[i]
    OBVIOUS
  <2>2. /\ z \in Item /\ z.opened /\ z.closed /\ z.next = s.next /\ z.retries = s.retries /\ z.digest = s.digest
        /\ z.processed = s.processed /\ z.state = s.state /\ z.file = s.file /\ z.restarted = s.restarted
        /\ z.local = s.local /\ z.fresh = s.fresh
    BY <1>4, <2>1 DEF Item
  <2>3. x \in Thread /\ x.op = "mark" /\ x.ends = {<<i, "done">>} /\ x.taken = {}
    BY <1>3, <2>1, ThreadTypes DEF Outcomes
  <2>4. CallOf(t, x, i, z, d)
    <3>1. item' = [item EXCEPT ![i] = z] /\ disk' = [disk EXCEPT ![i] = d]
      BY <1>1, <1>3, <1>9, <2>1 DEF TypeOK
    <3>2. StepOf(t, x)
      BY <1>2, <1>9, <2>1, Shapes
    <3> QED
      BY <1>2, <1>3, <1>4, <1>9, <2>1, <2>2, <2>3, <3>1, <3>2 DEF CallOf, TypeOK, ending
  <2>5. item'[i] = z /\ disk'[i] = d /\ at'[t] = x /\ UNCHANGED plan
    BY <1>2, <1>3, <2>4, CallTypes
  <2>6. ThreadOK(at[t])'
    <3>1. disk'[i].named \in Good
      BY <1>9, <2>1, <2>5 DEF OpensDone, Good
    <3> QED
      BY <1>3, <2>1, <2>2, <2>5, <3>1, MarksOK DEF Outcomes
  <2>7. Cared(x, i) /\ Own(x, i)
    BY <2>3 DEF Cared, Own, Moves, Closing
  <2>8. Fits(i, z, d) /\ FileOf(i, z, d) /\ VerifiedOf(z, d)
    BY <1>1, <1>4, <2>1, <2>2 DEF Fits, FileOK, FileOf, Verified, VerifiedOf
  <2>9. batched' = batched /\ at[t].op \in (Moves \cup Closing) \ {"discard", "askAgain"}
    BY <1>2 DEF Moves
  <2> QED
    BY <1>1, <1>3, <2>2, <2>3, <2>4, <2>6, <2>7, <2>8, <2>9, CallLetsGo
<1>10. CASE ~s.closed /\ ~s.opened /\ Open(i) /\ UNCHANGED faults
            /\ (IF k.index \in disk[i].kept THEN Step(t, "count") /\ UNCHANGED inflight ELSE Returns(t) /\ InFlight(w, k))
  <2>1. PICK z, d : /\ z = [item[i] EXCEPT !.opened = TRUE, !.file = IF disk[i].kept # {} THEN "open" ELSE "none"]
                    /\ d = [disk[i] EXCEPT !.has = disk[i].kept]
    OBVIOUS
  <2>2. /\ z \in Item /\ d \in Disk /\ item[i].file = "none"
        /\ z.next = item[i].next /\ z.retries = item[i].retries /\ z.digest = item[i].digest
        /\ z.processed = item[i].processed /\ z.state = item[i].state /\ z.closed = item[i].closed
        /\ z.opened /\ z.file = (IF disk[i].kept # {} THEN "open" ELSE "none") /\ d.has = disk[i].kept
        /\ d.old = disk[i].old /\ d.old \subseteq disk[i].kept
        /\ Fits(i, z, d) /\ FileOf(i, z, d) /\ VerifiedOf(z, d)
    <3>1. ~item[i].opened /\ ~item[i].closed
      BY <1>1, <1>10
    <3>2. OpenAs(i, z, d)
      BY <1>3, <2>1, <3>1, OpenIs
    <3> QED
      BY <3>2 DEF OpenAs
  <2>3. item' = [item EXCEPT ![i] = z] /\ disk' = [disk EXCEPT ![i] = d]
    BY <1>10, <2>1 DEF Open
  <2>4. CASE k.index \in disk[i].kept
    <3>1. Alike(at[t].op, "count") /\ at[t].op \notin {"discard", "askAgain"} /\ "count" \notin {"prepare", "askAgain"}
      BY <1>2 DEF Alike, Moves
    <3>2. /\ StepsTo(at[t], "count") \in Thread /\ StepsTo(at[t], "count").op = "count"
          /\ StepsTo(at[t], "count").task = k
      BY <1>1, <1>3, ThreadTypes DEF Ops, Moves
    <3>3. CallOf(t, StepsTo(at[t], "count"), i, z, d)
      <4>1. StepOf(t, StepsTo(at[t], "count"))
        BY <1>2, <1>10, <2>4, Shapes
      <4> QED
        BY <1>2, <1>3, <1>10, <2>2, <2>3, <2>4, <3>2, <4>1 DEF CallOf, TypeOK, ending
    <3>4. TaskOf(StepsTo(at[t], "count"), z, d)
      BY <1>1, <1>3, <2>2, <2>4, <3>2 DEF TaskOf, Moves, Closing
    <3>5. UNCHANGED batched
      BY <1>2
    <3> QED
      BY <1>1, <1>3, <2>2, <3>1, <3>3, <3>4, <3>5, CallStepsOn
  <2>5. CASE k.index \notin disk[i].kept
    <3>1. Returns(t) /\ InFlight(w, k) /\ k.index \notin d.old
      BY <1>10, <2>2, <2>5
    <3> QED
      BY <1>1, <1>2, <1>10, <2>2, <2>3, <3>1, PreparedFlies DEF world
  <2> QED
    BY <2>4, <2>5
<1>11. CASE Fault("open") /\ Ends(t, i, "failed") /\ UNCHANGED <<item, disk, inflight>>
  <2>1. StepOf(t, EndsWith(i, "failed")) /\ faults' \in Nat
    BY <1>2, <1>3, <1>11, Shapes, FaultsType
  <2>2. Rests(t, EndsWith(i, "failed"))
    BY <1>2, <1>3, <1>11, <2>1 DEF Rests, TypeOK, Moves, ending
  <2> QED
    BY <1>1, <1>3, <2>2, CallFails
<1>12. \/ s.closed /\ Returns(t) /\ UNCHANGED <<item, disk, inflight, faults>>
       \/ /\ ~s.closed /\ s.opened /\ UNCHANGED <<item, disk, faults>>
          /\ IF s.file # "none" /\ k.index \in disk[i].has
             THEN Step(t, "count") /\ UNCHANGED inflight ELSE Returns(t) /\ InFlight(w, k)
       \/ /\ ~s.closed /\ ~s.opened /\ OpensDone(i) /\ Marks(t, i, "done")
          /\ item' = [item EXCEPT ![i].opened = TRUE, ![i].closed = TRUE] /\ UNCHANGED <<disk, inflight, faults>>
       \/ /\ ~s.closed /\ ~s.opened /\ Open(i) /\ UNCHANGED faults
          /\ (IF k.index \in disk[i].kept THEN Step(t, "count") /\ UNCHANGED inflight ELSE Returns(t) /\ InFlight(w, k))
       \/ Fault("open") /\ Ends(t, i, "failed") /\ UNCHANGED <<item, disk, inflight>>
  BY <1>1, <1>4 DEF Prepare
<1> QED
  BY <1>6, <1>7, <1>8, <1>9, <1>10, <1>11, <1>12

-----------------------------------------------------------------------------
(* The steps that leave the items and their tokens alone.                  *)

LEMMA StillKeeps ==
  ASSUME IInv, TypeOK', UNCHANGED <<item, disk, inflight, writes, at, batched, plan, phase>>, DoneOK'
  PROVE  IInv'
<1>1. PICK t, x : t = User /\ x = at[t]
  OBVIOUS
<1>2. t \in Threads /\ TypeOK /\ \A w : t # Reader(w)
  BY <1>1 DEF IInv, Threads, User, Reader
<1>3. StepOf(t, x) /\ at'[t] = at[t]
  BY <1>1, <1>2 DEF StepOf, TypeOK
<1>4. ThreadOK(at[t])'
  <2>1. ThreadOK(at[t])
    BY <1>2 DEF IInv, ThreadsOK
  <2>2. Items' = Items /\ \A i : Asks(i)' = Asks(i) /\ Chunks(i)' = Chunks(i)
    BY SameOffer
  <2> QED
    BY <2>1, <2>2 DEF ThreadOK, TaskOf, CarriedOf, EndOK, BatchedOK
<1> QED
  BY <1>1, <1>2, <1>3, <1>4, QuietKeeps

\* Nothing but the control, the connections and the counts of what happened.
LEMMA ControlKeeps ==
  ASSUME IInv, UNCHANGED <<item, disk, inflight, writes, at, batched, ending, room, plan>>,
         conn' \in [Workers -> {"none", "up", "left"}], paused' \in BOOLEAN, pausedItems' \subseteq Items,
         cancelled' \in BOOLEAN, faults' \in Nat, acts' \in Nat
  PROVE  IInv'
<1>1. Items' = Items /\ Workers' = Workers /\ Threads' = Threads
  BY SameOffer
<1>2. TypeOK'
  BY <1>1 DEF IInv, TypeOK, ending
<1>3. DoneOK'
  BY <1>1 DEF IInv, DoneOK, AllEnded, Pending, ending
<1>4. UNCHANGED phase
  BY DEF ending
<1> QED
  BY <1>2, <1>3, <1>4, StillKeeps

LEMMA ConnectKeeps ==
  ASSUME IInv, NEW w \in Workers, Connect(w) \/ ConnectFails(w)
  PROVE  IInv'
<1>1. /\ UNCHANGED <<item, disk, control, inflight, writes, at, batched, ending, room, acts, plan>>
      /\ (\E kind : Fault(kind)) \/ UNCHANGED faults
  BY DEF Connect, ConnectFails, world
<1>2. conn' \in [Workers -> {"none", "up", "left"}]
  BY DEF Connect, ConnectFails, IInv, TypeOK
<1>3. faults' \in Nat
  BY <1>1, FaultsType DEF IInv
<1> QED
  BY <1>1, <1>2, <1>3, ControlKeeps DEF control, IInv, TypeOK

LEMMA LeaveKeeps ==
  ASSUME IInv, NEW w \in Workers, Leave(w)
  PROVE  IInv'
<1>1. /\ UNCHANGED <<item, disk, control, inflight, writes, at, batched, marked, phase, world>>
      /\ conn' = [conn EXCEPT ![w] = "left"]
      /\ doneSent' = IF conn[w] = "none" \/ cancelled \/ ~AllEnded THEN doneSent ELSE Status
  BY DEF Leave
<1>2. Items' = Items /\ Workers' = Workers /\ Threads' = Threads /\ TypeOK /\ DoneOK
  BY <1>1, SameOffer DEF world, IInv
<1>3. Status \in {"complete", "partial"} /\ (Status = "complete" => \A i \in Items : item[i].state = "done")
  BY DEF Status
<1>4. TypeOK'
  BY <1>1, <1>2, <1>3 DEF TypeOK, control, world
<1>5. DoneOK'
  BY <1>1, <1>2, <1>3 DEF DoneOK, AllEnded, Pending
<1> QED
  BY <1>1, <1>4, <1>5, StillKeeps DEF world

\* The user, but for a skip.
LEMMA UserKeeps ==
  ASSUME IInv, Pause \/ Cancel \/ Resume \/ \E i \in Items : PauseItem(i) \/ ResumeItem(i)
  PROVE  IInv'
<1>1. /\ UNCHANGED <<item, disk, net, at, batched, ending, room, faults, plan>>
      /\ paused' \in BOOLEAN /\ pausedItems' \subseteq Items /\ cancelled' \in BOOLEAN
      /\ acts' = acts + 1 \/ acts' = acts
  BY DEF Pause, Cancel, Resume, PauseItem, ResumeItem, Act, world, IInv, TypeOK
<1>2. acts' \in Nat
  BY <1>1 DEF IInv, TypeOK
<1> QED
  BY <1>1, <1>2, ControlKeeps DEF net, IInv, TypeOK

LEMMA FillEndsKeeps ==
  ASSUME IInv, NEW w \in Workers, FillEnds(w)
  PROVE  IInv'
<1>1. /\ at[Reader(w)] = Idle /\ inflight[w] # <<>> /\ Step(Reader(w), "read")
      /\ UNCHANGED <<item, disk, control, net, batched, ending, world>>
  BY DEF FillEnds
<1>2. PICK t, x : t = Reader(w) /\ x = StepsTo(Idle, "read")
  OBVIOUS
<1>3. /\ t \in Threads /\ TypeOK /\ DoneOK /\ \A v : t = Reader(v) => v = w
  BY <1>2 DEF IInv, Threads, Reader
<1>4. /\ x \in Thread /\ x.op = "read" /\ x.ends = {} /\ x.taken = {} /\ at[t].op = "idle" /\ \A j : ~Cared(at[t], j)
  BY <1>1, <1>2, <1>3, ThreadTypes DEF Ops, Cared
<1>5. StepOf(t, x)
  BY <1>1, <1>2 DEF Step, StepOf, StepsTo, world
<1>6. at'[t] = x /\ \A u \in Threads : u # t => at'[u] = at[u]
  BY <1>3, <1>5, ThreadsAre
<1>7. UNCHANGED <<plan, phase, batched, inflight, writes, doneSent>> /\ Items' = Items
  BY <1>1, SameOffer DEF net, ending, world
<1>8. TypeOK'
  <2>1. at' \in [Threads -> Thread] /\ Threads' = Threads /\ Workers' = Workers
    BY <1>3, <1>4, <1>5, SameOffer DEF StepOf, TypeOK
  <2> QED
    BY <1>1, <1>3, <1>7, <2>1 DEF TypeOK, control, net, ending, world
<1>9. ThreadOK(at[t])'
  <2>1. TaskOf(x, item'[x.task.item], disk'[x.task.item])
    BY <1>4 DEF TaskOf, Moves, Closing
  <2> QED
    BY <1>4, <1>6, <1>7, <2>1, ThreadFits
<1>10. (\A i, c : ~Carries(x, i, c) /\ ~Carries(at[t], i, c)) /\ \A i : ~Marked(x, i) /\ ~Marked(at[t], i)
  BY <1>4 DEF Carries, Marked, Moves, Closing
<1>11. phase' = "runs" => phase = "runs" /\ at'[Main] = at[Main]
  BY <1>2, <1>6, <1>7 DEF Threads, Main, Reader
<1>12. DoneOK'
  BY <1>1, <1>3, <1>7 DEF DoneOK, AllEnded, Pending
<1>13. x.op = "read" => \A v \in Workers : t = Reader(v) => inflight[v] # <<>>
  BY <1>1, <1>3
<1>14. x.op # "prepare" /\ (phase' # "returned" => phase # "returned") /\ batched' \subseteq batched
       /\ \A i \in Items : i \in batched \/ Cared(at[t], i) => i \in batched' \/ Cared(x, i)
  BY <1>4, <1>7
<1>15. UNCHANGED <<item, disk, inflight, writes>>
  BY <1>1, <1>7
<1> QED
  BY <1>3, <1>5, <1>8, <1>9, <1>10, <1>11, <1>12, <1>13, <1>14, <1>15, QuietKeeps

\* The batch's timer and the end of the run both flush the batch.
LEMMA ForceKeeps ==
  ASSUME IInv, NEW t \in Threads, at[t] = Idle, StepOf(t, StepsTo(Idle, "force")),
         UNCHANGED <<item, disk, net, batched, marked, doneSent, room, faults, acts, paused, pausedItems>>,
         cancelled' \in BOOLEAN, (phase' = phase /\ t # Main) \/ (phase' = "flushes" /\ phase = "runs")
  PROVE  IInv'
<1>1. PICK x : x = StepsTo(Idle, "force")
  OBVIOUS
<1>2. TypeOK /\ DoneOK /\ StepOf(t, x) /\ UNCHANGED plan
  BY <1>1 DEF IInv, StepOf
<1>3. /\ x \in Thread /\ x.op = "force" /\ x.ends = {} /\ x.taken = {} /\ at[t].op = "idle" /\ \A j : ~Cared(at[t], j)
  BY <1>1, <1>2, ThreadTypes DEF Ops, Ending, Cared
<1>4. at'[t] = x /\ \A u \in Threads : u # t => at'[u] = at[u]
  BY <1>2, ThreadsAre
<1>5. Items' = Items /\ Threads' = Threads /\ Workers' = Workers
  BY <1>2, SameOffer
<1>6. TypeOK'
  <2>1. at' \in [Threads -> Thread]
    BY <1>2, <1>3, <1>5 DEF StepOf, TypeOK
  <2> QED
    BY <1>2, <1>5, <2>1 DEF TypeOK, net
<1>7. ThreadOK(at[t])'
  <2>1. TaskOf(x, item'[x.task.item], disk'[x.task.item])
    BY <1>3 DEF TaskOf, Moves, Closing
  <2> QED
    BY <1>2, <1>3, <1>4, <2>1, ThreadFits
<1>8. (\A i, c : ~Carries(x, i, c) /\ ~Carries(at[t], i, c)) /\ \A i : ~Marked(x, i) /\ ~Marked(at[t], i)
  BY <1>3 DEF Carries, Marked, Moves, Closing
<1>9. phase' = "runs" => phase = "runs" /\ at'[Main] = at[Main]
  BY <1>4 DEF Threads
<1>10. DoneOK'
  BY <1>2, <1>5 DEF DoneOK, AllEnded, Pending
<1>11. x.op # "prepare" /\ x.op # "read" /\ (phase' # "returned" => phase # "returned") /\ batched' \subseteq batched
       /\ \A i \in Items : i \in batched \/ Cared(at[t], i) => i \in batched' \/ Cared(x, i)
  BY <1>3
<1>12. UNCHANGED <<item, disk, inflight, writes>>
  BY DEF net
<1> QED
  BY <1>2, <1>6, <1>7, <1>8, <1>9, <1>10, <1>11, <1>12, QuietKeeps

LEMMA TimerFiresKeeps ==
  ASSUME IInv, TimerFires
  PROVE  IInv'
<1>1. /\ at[Timer] = Idle /\ at' = [at EXCEPT ![Timer] = [Idle EXCEPT !.op = "force"]]
      /\ UNCHANGED <<item, disk, control, net, batched, ending, world>>
  BY DEF TimerFires
<1>2. StepOf(Timer, StepsTo(Idle, "force"))
  BY <1>1 DEF StepOf, StepsTo, world
<1>3. Timer \in Threads /\ Timer # Main
  BY DEF Threads, Timer, Main
<1>4. UNCHANGED <<item, disk, net, batched, marked, doneSent, room, faults, acts, paused, pausedItems>>
  BY <1>1 DEF control, ending, world
<1>5. cancelled' \in BOOLEAN /\ phase' = phase
  BY <1>1 DEF control, ending, IInv, TypeOK
<1> QED
  BY <1>1, <1>2, <1>3, <1>4, <1>5, ForceKeeps

LEMMA RunFlushesKeeps ==
  ASSUME IInv, RunFlushes
  PROVE  IInv'
<1>1. /\ phase = "runs" /\ phase' = "flushes" /\ cancelled' = TRUE
      /\ at' = [at EXCEPT ![Main] = [Idle EXCEPT !.op = "force"]]
      /\ UNCHANGED <<item, disk, paused, pausedItems, net, batched, marked, doneSent, world>>
  BY DEF RunFlushes
<1>2. StepOf(Main, StepsTo(Idle, "force")) /\ UNCHANGED <<room, faults, acts>>
  BY <1>1 DEF StepOf, StepsTo, world
<1>3. Main \in Threads /\ at[Main] = Idle
  BY <1>1 DEF Threads, IInv, ThreadsOK
<1> QED
  BY <1>1, <1>2, <1>3, ForceKeeps

-----------------------------------------------------------------------------
(* A skip, and the end of the run.                                         *)

LEMMA SkipKeeps ==
  ASSUME IInv, NEW i \in Items, SkipItem(i)
  PROVE  IInv'
<1>1. /\ at[User] = Idle /\ Ends(User, i, "skipped") /\ acts' = acts + 1 /\ UNCHANGED phase
      /\ UNCHANGED <<item, disk, control, net, batched, ending, room, faults, plan>>
  BY DEF SkipItem, Act, ending
<1>2. PICK t, x : t = User /\ x = EndsWith(i, "skipped")
  OBVIOUS
<1>3. t \in Threads /\ t # Main /\ TypeOK /\ DoneOK /\ acts' \in Nat
  BY <1>1, <1>2 DEF IInv, TypeOK, Threads, User, Main
<1>4. /\ x \in Thread /\ x.op = "end" /\ x.task.item = i /\ x.taken = {} /\ at[t].op = "idle"
      /\ \A j : ~Cared(at[t], j)
  BY <1>1, <1>2, <1>3, ThreadTypes DEF Cared, Outcomes
<1>5. StepOf(t, x) /\ UNCHANGED <<inflight, writes, plan, doneSent>>
  BY <1>1, <1>2, Shapes DEF net, ending
<1>6. at'[t] = x /\ \A u \in Threads : u # t => at'[u] = at[u]
  BY <1>3, <1>5, ThreadsAre
<1>7. TypeOK'
  <2>1. Items' = Items /\ Threads' = Threads /\ Workers' = Workers
    BY <1>5, SameOffer
  <2>2. at' \in [Threads -> Thread]
    BY <1>3, <1>4, <1>5, <2>1 DEF StepOf, TypeOK
  <2> QED
    BY <1>1, <1>3, <1>5, <2>1, <2>2 DEF TypeOK, control, net, ending
<1>8. \A j \in Items : Grows(j)
  BY <1>1, Stands
<1>9. ThreadOK(at[t])'
  BY <1>2, <1>3, <1>5, <1>6, EndsOK
<1>10. QueuedOnce' /\ Queues'
  BY <1>3, <1>4, <1>5, <1>8, QueuesStay
<1>11. ASSUME NEW j \in Items PROVE TokensOK(j)' /\ ItemOK(j)'
  <2>1. TokensOK(j) /\ ItemOK(j)
    BY DEF IInv
  <2>2. AskedOnce(j)' /\ \A c : Ahead(item'[j], c) <=> Ahead(item[j], c)
    BY <1>1, <1>5, <2>1, AskedStays DEF TokensOK
  <2>3. \A c : ~Carries(x, j, c) /\ ~Carries(at[t], j, c)
    BY <1>4 DEF Carries, Moves, Closing
  <2>4. \A c : Where(j, c)' = Where(j, c)
    BY <1>3, <1>5, <2>2, <2>3, ThreadKeeps
  <2>5. TokensGo(x, j)
    BY <2>1, <2>4 DEF TokensGo, TokensOK, Single
  <2>6. LeavesOff(t, x, j)
    BY <1>4 DEF LeavesOff, Marked
  <2>7. /\ item'[j].processed = item[j].processed /\ (item[j].closed => item'[j].closed)
        /\ ~item'[j].closed /\ item[j].file # "none" => disk[j].has \subseteq disk'[j].has /\ item'[j].file # "none"
    BY <1>1
  <2>8. TokensOK(j)' /\ Counted(j)' /\ Stored(j)'
    BY <1>3, <1>5, <1>7, <2>2, <2>5, <2>6, <2>7, MovesOK
  <2>9. FileOK(j)' /\ Verified(j)'
    BY <1>1, <2>1, FilesOK DEF ItemOK, FileOK, Verified
  <2>10. Told(j)'
    BY <1>1, <1>3, <1>4, <1>5, <2>1, ToldStays DEF ItemOK
  <2> QED
    BY <2>8, <2>9, <2>10 DEF ItemOK
<1>12. DoneOK'
  BY <1>3, <1>5, <1>8, DoneStays
<1>13. phase' = "runs" => phase = "runs" /\ at'[Main] = at[Main]
  BY <1>1, <1>3, <1>6 DEF Threads
<1>14. \A j \in batched' : j \in batched \/ BatchedOK(j)'
  BY <1>1
<1> QED
  BY <1>3, <1>5, <1>7, <1>8, <1>9, <1>10, <1>11, <1>12, <1>13, <1>14, StepKeeps

\* What closing at the end of the run makes of an item.
ClosedAs(s, z) ==
  /\ z \in Item /\ z.next = s.next /\ z.retries = s.retries /\ z.digest = s.digest
  /\ z.processed = s.processed /\ z.state = s.state /\ z.opened = s.opened /\ z.restarted = s.restarted
  /\ z.local = s.local /\ z.fresh = s.fresh
  /\ IF ~s.closed /\ s.file # "none" THEN z.closed /\ z.file = "none" ELSE z.closed = s.closed /\ z.file = s.file
LEMMA ClosedIs ==
  ASSUME NEW s \in Item
  PROVE  ClosedAs(s, Closed(s))
<1>1. CASE ~s.closed /\ s.file # "none"
  <2>1. Closed(s) = [s EXCEPT !.closed = TRUE, !.file = "none"]
    BY <1>1 DEF Closed
  <2> QED
    BY <1>1, <2>1 DEF Item, ClosedAs
<1>2. CASE ~(~s.closed /\ s.file # "none")
  <2>1. Closed(s) = s
    BY <1>2 DEF Closed
  <2> QED
    BY <1>2, <2>1 DEF ClosedAs
<1> QED
  BY <1>1, <1>2

LEMMA RunReturnsKeeps ==
  ASSUME IInv, RunReturns
  PROVE  IInv'
<1>1. /\ phase = "flushes" /\ phase' = "returned" /\ at[Main] = Idle
      /\ item' = [i \in Items |-> Closed(item[i])]
      /\ disk' = [i \in Items |-> IF ~item[i].closed /\ item[i].file # "none" /\ room
                                  THEN [disk[i] EXCEPT !.kept = disk[i].has] ELSE disk[i]]
      /\ UNCHANGED <<control, net, at, batched, marked, doneSent, world>>
  BY DEF RunReturns
<1>2. PICK t, x : t = Main /\ x = at[t]
  OBVIOUS
<1>3. t \in Threads /\ TypeOK /\ DoneOK /\ room
  BY <1>2 DEF IInv, TypeOK, Threads
<1>4. UNCHANGED <<plan, inflight, writes, batched, doneSent, at>> /\ StepOf(t, x)
  BY <1>1, <1>2, <1>3 DEF StepOf, TypeOK, net, world
<1>5. Items' = Items /\ Threads' = Threads /\ Workers' = Workers /\ at'[t] = Idle /\ x = Idle
  BY <1>1, <1>2, <1>4, SameOffer
<1>6. /\ Idle.op = "idle" /\ Idle.ends = {} /\ Idle.taken = {} /\ \A j : ~Cared(Idle, j) /\ ~Marked(Idle, j)
  BY <1>3, ThreadTypes DEF Cared, Marked
<1>7. ASSUME NEW i \in Items
      PROVE  /\ item[i] \in Item /\ disk[i] \in Disk /\ item'[i] = Closed(item[i])
             /\ disk'[i] = IF ~item[i].closed /\ item[i].file # "none" THEN [disk[i] EXCEPT !.kept = disk[i].has] ELSE disk[i]
             /\ disk'[i] \in Disk /\ disk'[i].has = disk[i].has /\ disk'[i].old = disk[i].old
             /\ disk'[i].named = disk[i].named
             /\ disk'[i].kept = IF ~item[i].closed /\ item[i].file # "none" THEN disk[i].has ELSE disk[i].kept
             /\ ClosedAs(item[i], item'[i])
  <2>1. item[i] \in Item /\ disk[i] \in Disk
    BY <1>3 DEF TypeOK
  <2>2. /\ item'[i] = Closed(item[i])
        /\ disk'[i] = IF ~item[i].closed /\ item[i].file # "none" THEN [disk[i] EXCEPT !.kept = disk[i].has] ELSE disk[i]
    BY <1>1, <1>3
  <2>3. ClosedAs(item[i], item'[i])
    BY <2>1, <2>2, ClosedIs
  <2> QED
    BY <2>1, <2>2, <2>3 DEF Disk
<1>8. TypeOK'
  <2>1. item' \in [Items -> Item]
    BY <1>1, <1>7 DEF ClosedAs
  <2>2. disk' \in [Items -> Disk]
    BY <1>1, <1>7
  <2> QED
    BY <1>1, <1>3, <1>4, <1>5, <2>1, <2>2 DEF TypeOK, control, net, world
<1>9. ASSUME NEW i \in Items PROVE Grows(i)
  <2>1. FileOK(i)
    BY DEF IInv, ItemOK
  <2> QED
    BY <1>7, <2>1 DEF Grows, Pending, ClosedAs
<1>10. ThreadOK(at[t])'
  BY <1>3, <1>5, IdleOK
<1>11. QueuedOnce' /\ Queues'
  <2>1. x.op \notin {"read", "prepare"}
    BY <1>5, <1>6
  <2> QED
    BY <1>3, <1>4, <1>9, <2>1, QueuesStay
<1>12. ASSUME NEW i \in Items PROVE TokensOK(i)' /\ ItemOK(i)'
  <2>1. TokensOK(i) /\ ItemOK(i)
    BY DEF IInv
  <2>2. /\ item'[i].next = item[i].next /\ item'[i].retries = item[i].retries
        /\ item'[i].digest = item[i].digest /\ item'[i].processed = item[i].processed /\ item'[i].state = item[i].state
        /\ item'[i].opened = item[i].opened /\ item'[i].restarted = item[i].restarted /\ item'[i].local = item[i].local
        /\ item'[i].fresh = item[i].fresh
        /\ IF ~item[i].closed /\ item[i].file # "none" THEN item'[i].closed /\ item'[i].file = "none"
           ELSE item'[i].closed = item[i].closed /\ item'[i].file = item[i].file
    BY <1>7 DEF ClosedAs
  <2>3. AskedOnce(i)' /\ \A c : Ahead(item'[i], c) <=> Ahead(item[i], c)
    BY <1>4, <2>1, <2>2, AskedStays DEF TokensOK
  <2>4. \A c : Where(i, c)' = Where(i, c)
    BY <1>2, <1>3, <1>4, <2>3, ThreadKeeps
  <2>5. TokensGo(x, i)
    BY <2>1, <2>4 DEF TokensGo, TokensOK, Single
  <2>6. LeavesOff(t, x, i)
    BY <1>2, <1>5, <1>6 DEF LeavesOff
  <2>7. /\ item[i].closed => item'[i].closed
        /\ ~item'[i].closed /\ item[i].file # "none" => disk[i].has \subseteq disk'[i].has /\ item'[i].file # "none"
    BY <2>2
  <2>8. TokensOK(i)' /\ Counted(i)' /\ Stored(i)'
    BY <1>3, <1>4, <1>8, <2>2, <2>3, <2>5, <2>6, <2>7, MovesOK
  <2>9. FileOf(i, item'[i], disk'[i])
    BY <1>7, <2>1, <2>2 DEF ItemOK, FileOK, FileOf, Item
  <2>10. VerifiedOf(item'[i], disk'[i])
    BY <1>7, <2>1, <2>2 DEF ItemOK, Verified, VerifiedOf
  <2>11. FileOK(i)' /\ Verified(i)'
    BY <1>4, <2>9, <2>10, FilesOK
  <2>12. Told(i)'
    BY <1>1, <2>1, <2>2 DEF ItemOK, Told, Pending
  <2> QED
    BY <2>8, <2>11, <2>12 DEF ItemOK
<1>13. DoneOK'
  BY <1>3, <1>4, <1>9, DoneStays
<1>14. phase' = "runs" => phase = "runs" /\ at'[Main] = at[Main]
  BY <1>1
<1>15. \A j \in batched' : j \in batched \/ BatchedOK(j)'
  BY <1>4
<1> QED
  BY <1>3, <1>4, <1>8, <1>9, <1>10, <1>11, <1>12, <1>13, <1>14, <1>15, StepKeeps

-----------------------------------------------------------------------------
(* The first state.                                                        *)

LEMMA InitTypes ==
  ASSUME Init
  PROVE  /\ TypeOK /\ QueuedOnce /\ Queues /\ ThreadsOK /\ BatchOK /\ DoneOK /\ phase = "runs"
         /\ \A t \in Threads : at[t].op = "idle" /\ \A i : ~Cared(at[t], i)
         /\ \A w \in Workers : inflight[w] = <<>> /\ writes[w] = <<>>
         /\ \A i \in Items : item[i] = Fresh /\ disk[i] \in Left(i)
<1>1. /\ plan \in Plans /\ item = [i \in Items |-> Fresh]
      /\ disk \in [Items -> UNION {Left(i) : i \in Items}] /\ \A i \in Items : disk[i] \in Left(i)
      /\ paused = FALSE /\ pausedItems = {} /\ cancelled = FALSE
      /\ conn = [w \in Workers |-> "none"]
      /\ inflight = [w \in Workers |-> <<>>] /\ writes = [w \in Workers |-> <<>>]
      /\ at = [t \in Threads |-> Idle] /\ batched = {}
      /\ marked = "no" /\ phase = "runs" /\ doneSent = "none"
      /\ room = TRUE /\ faults = 0 /\ acts = 0
  BY DEF Init
<1>2. Idle \in Thread /\ Idle.op = "idle" /\ Idle.ends = {} /\ Idle.taken = {}
  <2>1. NoTask \in Task
    BY DEF NoTask, Task
  <2> QED
    BY <2>1 DEF Idle, Thread, Ops
<1>3. Fresh \in Item
  <2>1. [c \in {} |-> 0] \in Counts
    <3>1. [c \in {} |-> 0] \in [{} -> Nat] /\ {} \in SUBSET Nat
      OBVIOUS
    <3> QED
      BY <3>1 DEF Counts
  <2>2. \A b \in Counts :
          [state |-> "pending", next |-> 0, retries |-> {}, bad |-> b,
           opened |-> FALSE, closed |-> FALSE, file |-> "none", processed |-> 0,
           fresh |-> {}, local |-> "none", digest |-> FALSE, restarted |-> FALSE, gen |-> 0] \in Item
    BY DEF Item, States
  <2> QED
    BY <2>1, <2>2 DEF Fresh
<1>4. ASSUME NEW i \in Items PROVE disk[i] \in Disk
  <2>1. Total(i) \in Nat
    BY <1>1, PlansAssumption DEF Items, Total
  <2>2. Chunks(i) \subseteq Nat
    BY <2>1 DEF Chunks
  <2> QED
    BY <1>1, <2>2 DEF Left, Disk
<1>5. TypeOK
  <2>1. item \in [Items -> Item] /\ at \in [Threads -> Thread]
    BY <1>1, <1>2, <1>3
  <2>2. disk \in [Items -> Disk]
    BY <1>1, <1>4
  <2>3. <<>> \in Seq(Task) /\ <<>> \in Seq(Read)
    OBVIOUS
  <2> QED
    BY <1>1, <2>1, <2>2, <2>3 DEF TypeOK
<1>6. \A t \in Threads : at[t] = Idle
  BY <1>1
<1>7. \A w \in Workers : inflight[w] = <<>> /\ writes[w] = <<>> /\ Reader(w) \in Threads
  BY <1>1 DEF Threads
<1>8. QueuedOnce /\ Queues
  <2>1. Len(<<>>) = 0
    OBVIOUS
  <2>2. \A n \in 1 .. 0 : FALSE
    OBVIOUS
  <2> QED
    BY <1>2, <1>6, <1>7, <2>1, <2>2 DEF QueuedOnce, Queues
<1>9. ThreadsOK
  BY <1>2, <1>6 DEF ThreadsOK, ThreadOK, TaskOf, Moves, Closing, Ending, Threads
<1>10. BatchOK /\ DoneOK
  BY <1>1 DEF BatchOK, DoneOK
<1> QED
  BY <1>1, <1>2, <1>5, <1>6, <1>7, <1>8, <1>9, <1>10 DEF Cared

LEMMA InitHolds ==
  ASSUME Init
  PROVE  IInv
<1>1. /\ TypeOK /\ QueuedOnce /\ Queues /\ ThreadsOK /\ BatchOK /\ DoneOK /\ phase = "runs"
      /\ \A t \in Threads : at[t].op = "idle" /\ \A i : ~Cared(at[t], i)
      /\ \A w \in Workers : inflight[w] = <<>> /\ writes[w] = <<>>
      /\ \A i \in Items : item[i] = Fresh /\ disk[i] \in Left(i)
  BY InitTypes
<1>2. ASSUME NEW i \in Items PROVE TokensOK(i) /\ ItemOK(i)
  <2>1. /\ Target(i) \in Nat \ {0} /\ DigestIndex \in Nat
        /\ Asks(i) = {c \in Nat : c < Target(i)} /\ DigestIndex \notin Asks(i)
    BY <1>1, Offer
  <2>2. /\ item[i].state = "pending" /\ item[i].next = 0 /\ item[i].retries = {} /\ ~item[i].opened /\ ~item[i].closed
        /\ item[i].file = "none" /\ item[i].processed = 0 /\ item[i].fresh = {} /\ item[i].local = "none"
        /\ ~item[i].digest
    BY <1>1 DEF Fresh
  <2>3. /\ disk[i].has = {} /\ disk[i].old \subseteq disk[i].kept /\ disk[i].kept \subseteq Chunks(i)
        /\ disk[i].named \in {"no", "earlier"}
    BY <1>1 DEF Left
  <2>4. ASSUME NEW c PROVE \A p \in Where(i, c) : p = InItem /\ Ahead(item[i], c)
    <3>1. Located(i, c)
      BY WhereIs
    <3>2. \A t \in Threads : ~Carries(at[t], i, c)
      BY <1>1 DEF Carries, Moves, Closing
    <3>3. \A w \in Workers : ~Requested(inflight[w], i, c) /\ ~Waits(writes[w], i, c)
      <4>1. Len(<<>>) = 0 /\ \A n \in 1 .. 0 : FALSE
        OBVIOUS
      <4> QED
        BY <1>1, <4>1 DEF Requested, Waits
    <3> QED
      BY <3>1, <3>2, <3>3 DEF Located
  <2>5. ASSUME NEW c \in Asks(i) PROVE InItem \in Where(i, c)
    <3>1. Ahead(item[i], c)
      BY <2>1, <2>2 DEF Ahead
    <3>2. Located(i, c)
      BY WhereIs
    <3> QED
      BY <3>1, <3>2 DEF Located
  <2>6. Where(i, DigestIndex) = {}
    <3>1. ~Ahead(item[i], DigestIndex)
      BY <2>2 DEF Ahead
    <3> QED
      BY <2>4, <3>1
  <2>7. TokensOK(i)
    BY <2>1, <2>2, <2>4 DEF TokensOK, AskedOnce, Single
  <2>8. Handled(i) = {} /\ Cardinality(Handled(i)) = 0
    BY <2>5, FS_EmptySet DEF Handled
  <2>9. Counted(i)
    BY <2>1, <2>2, <2>6, <2>8 DEF Counted
  <2>10. FileOK(i)
    BY <2>2, <2>3 DEF FileOK, FileOf
  <2>11. Stored(i)
    <3>1. Chunks(i) \subseteq Asks(i)
      BY <1>1, Offer
    <3> QED
      BY <2>5, <3>1 DEF Stored
  <2>12. Verified(i)
    BY <2>2, <2>3 DEF Verified, VerifiedOf
  <2>13. Told(i)
    BY <2>2 DEF Told, Pending
  <2> QED
    BY <2>7, <2>9, <2>10, <2>11, <2>12, <2>13 DEF ItemOK
<1> QED
  BY <1>1, <1>2 DEF IInv

-----------------------------------------------------------------------------
(* Every step.                                                             *)

\* The disk does not fill, and no thread looks at a full one.
LEMMA NeverFull ==
  ASSUME NoFullDisk, IInv
  PROVE  ~DiskFills /\ ~DiskFreed /\ \A t \in Threads : ~DiskFull(t)
<1>1. ~DiskFills
  BY DEF DiskFills, Fault, May, NoFullDisk, IInv, TypeOK
<1>2. ~DiskFreed
  BY DEF DiskFreed, IInv, TypeOK
<1>3. ASSUME NEW t \in Threads PROVE ~DiskFull(t)
  <2>1. at[t].op \in Ops
    BY DEF IInv, TypeOK, Thread
  <2>2. at[t].op # "diskFull"
    BY <2>1 DEF Ops, Moves, Closing, Ending
  <2> QED
    BY <2>2 DEF DiskFull
<1> QED
  BY <1>1, <1>2, <1>3

LEMMA StaysTrue ==
  ASSUME NoFullDisk, IInv, [Next]_vars
  PROVE  IInv'
<1>1. CASE UNCHANGED vars
  <2>1. UNCHANGED <<item, disk, control, net, at, batched, ending, world>>
    BY <1>1 DEF vars
  <2>2. /\ UNCHANGED <<item, disk, conn, inflight, writes, at, batched, paused, pausedItems, cancelled>>
        /\ UNCHANGED <<ending, room, faults, acts, plan>>
    BY <2>1 DEF control, net, world
  <2> QED
    BY <2>2, ControlKeeps DEF IInv, TypeOK
<1>2. ASSUME NEW w \in Workers, ReaderSteps(w) \/ Network(w) \/ Trouble(w) \/ Take(w) PROVE IInv'
  <2>1. CASE ReaderSteps(w)
    BY <2>1, FetchKeeps, FillEndsKeeps, ConnectKeeps, LeaveKeeps, LeaveCancelledKeeps, PrepareKeeps DEF ReaderSteps
  <2>2. CASE Network(w)
    BY <2>2, DataKeeps, DigestKeeps DEF Network
  <2>3. CASE Trouble(w)
    BY <2>3, ConnectKeeps, LoseKeeps, GoneKeeps DEF Trouble
  <2>4. CASE Take(w)
    BY <2>4, TakeKeeps
  <2> QED
    BY <1>2, <2>1, <2>2, <2>3, <2>4
<1>3. ASSUME NEW t \in Threads, Call(t) PROVE IInv'
  <2>1. CASE Write(t) \/ Create(t) \/ Count(t) \/ Complete(t) \/ Arm(t)
    BY <2>1, WriteKeeps, CreateKeeps, CountKeeps, CompleteKeeps, ArmKeeps
  <2>2. CASE StartOver(t) \/ DiscardItem(t) \/ AskAgain(t) \/ Finish(t)
    BY <2>2, StartOverKeeps, DiscardKeeps, AskAgainKeeps, FinishKeeps
  <2>3. CASE End(t) \/ Mark(t) \/ Flush(t) \/ Names(t)
    BY <2>3, EndKeeps, MarkKeeps, FlushKeeps, NamesKeeps
  <2> QED
    BY <1>3, <2>1, <2>2, <2>3, NeverFull DEF Call
<1>4. CASE TimerFires \/ RunFlushes \/ RunReturns
  BY <1>4, TimerFiresKeeps, RunFlushesKeeps, RunReturnsKeeps
<1>5. CASE UserMoves \/ UserResumes
  BY <1>5, UserKeeps, SkipKeeps DEF UserMoves, UserResumes
<1> QED
  BY <1>1, <1>2, <1>3, <1>4, <1>5, NeverFull DEF Next

\* The places of the tokens, the counts and the files agree in every state of a
\* run on a disk that does not fill.
THEOREM Invariant == NoFullDisk => (Spec => []IInv)
<1> SUFFICES ASSUME NoFullDisk PROVE Spec => []IInv
  OBVIOUS
<1>1. Init => IInv
  BY InitHolds
<1>2. IInv /\ [Next]_vars => IInv'
  BY StaysTrue
<1> QED
  BY <1>1, <1>2, PTL DEF Spec

-----------------------------------------------------------------------------
(* What follows.                                                           *)

\* The variables of a run have their types, and the disk always has room.
THEOREM TypeCorrect == NoFullDisk => (Spec => []TypeOK)
<1>1. IInv => TypeOK
  BY DEF IInv
<1> QED
  BY <1>1, Invariant, PTL

\* What has its name is the sender's file, whatever was left by earlier runs and
\* whatever the sender's source became (finish, flushBatch, Batch.Flush).
THEOREM NamesVerifiedFiles == NoFullDisk => (Spec => []NamedIsVerified)
<1>1. IInv => NamedIsVerified
  BY DEF IInv, ItemOK, Verified, VerifiedOf, NamedIsVerified, Good
<1> QED
  BY <1>1, Invariant, PTL

\* DONE is sent once every item ended, and says complete when every file has its
\* name (sendDone).
THEOREM DoneSaysWhatHappened == NoFullDisk => (Spec => []DoneFrameIsTrue)
<1>1. IInv => DoneFrameIsTrue
  BY DEF IInv, DoneOK, ItemOK, Verified, VerifiedOf, DoneFrameIsTrue, Good
<1> QED
  BY <1>1, Invariant, PTL

\* At most two chunks wait for a worker's writer (its two buffers).
ShortWrites == \A w \in Workers : Len(writes[w]) <= 2

LEMMA ShortStays ==
  ASSUME NoFullDisk, IInv, ShortWrites, [Next]_vars
  PROVE  ShortWrites'
<1>1. UNCHANGED plan => Workers' = Workers
  BY SameOffer
<1>2. \A w \in Workers : writes[w] \in Seq(Read)
  BY DEF IInv, TypeOK
<1>3. ASSUME NEW w \in Workers, Data(w) PROVE ShortWrites'
  <2>1. PICK y : writes' = [writes EXCEPT ![w] = Append(@, y)]
    BY <1>3 DEF Data
  <2>2. Len(writes[w]) < 2
    <3>1. Buffers(w) < 2 /\ Len(writes[w]) \in Nat
      BY <1>2, <1>3 DEF Data
    <3>2. \E b \in {0, 1} : Buffers(w) = Len(writes[w]) + b
      BY DEF Buffers
    <3> QED
      BY <3>1, <3>2
  <2>3. Len(Append(writes[w], y)) = Len(writes[w]) + 1 /\ Len(writes[w]) \in Nat
    BY <1>2
  <2>4. UNCHANGED plan
    BY <1>3 DEF Data
  <2>5. ASSUME NEW v \in Workers PROVE Len(writes'[v]) <= 2
    <3>1. writes'[v] = IF v = w THEN Append(writes[w], y) ELSE writes[v]
      BY <2>1 DEF IInv, TypeOK
    <3> QED
      BY <2>2, <2>3, <3>1 DEF ShortWrites
  <2> QED
    BY <1>1, <2>4, <2>5 DEF ShortWrites
<1>4. ASSUME NEW w \in Workers, Take(w) PROVE ShortWrites'
  <2>1. writes' = [writes EXCEPT ![w] = Tail(@)] /\ writes[w] # <<>> /\ UNCHANGED plan
    BY <1>4 DEF Take, world
  <2>2. Len(Tail(writes[w])) = Len(writes[w]) - 1 /\ Len(writes[w]) \in Nat
    BY <1>2, <2>1
  <2>3. ASSUME NEW v \in Workers PROVE Len(writes'[v]) <= 2
    <3>1. writes'[v] = IF v = w THEN Tail(writes[w]) ELSE writes[v]
      BY <2>1 DEF IInv, TypeOK
    <3> QED
      BY <2>2, <3>1 DEF ShortWrites
  <2> QED
    BY <1>1, <2>1, <2>3 DEF ShortWrites
<1>5. UNCHANGED <<writes, plan>> => ShortWrites'
  BY <1>1 DEF ShortWrites
<1>6. ASSUME NEW w \in Workers, ReaderSteps(w) \/ Digest(w) \/ Trouble(w) PROVE UNCHANGED <<writes, plan>>
  BY <1>6 DEF ReaderSteps, Trouble, Fetch, FillEnds, Connect, Leave, LeaveCancelled, Prepare, Digest, ConnectFails,
              Lose, Gone, net, world
<1>7. ASSUME NEW t \in Threads, Call(t) PROVE UNCHANGED <<writes, plan>>
  BY <1>7 DEF Call, Write, Create, DiskFull, Count, Complete, Arm, StartOver, DiscardItem, AskAgain, Finish, End,
              Mark, Flush, Names, net, world
<1>8. TimerFires \/ RunFlushes \/ RunReturns \/ UserMoves \/ UserResumes => UNCHANGED <<writes, plan>>
  BY DEF TimerFires, RunFlushes, RunReturns, UserMoves, UserResumes, Pause, Cancel, PauseItem, SkipItem, Resume,
         ResumeItem, net, world
<1>9. UNCHANGED vars => UNCHANGED <<writes, plan>>
  BY DEF vars, net, world
<1> QED
  BY <1>3, <1>4, <1>5, <1>6, <1>7, <1>8, <1>9, NeverFull DEF Next, Network

\* A set with a member has a size.
LEMMA HasSize ==
  ASSUME NEW s, IsFiniteSet(s)
  PROVE  Cardinality(s) \in Nat /\ (s # {} => Cardinality(s) > 0)
<1>1. Cardinality(s) \in Nat /\ (Cardinality(s) = 0 <=> s = {})
  BY FS_CardinalityType, FS_EmptySet
<1> QED
  BY <1>1

\* A token that has a place is counted among those asked for.
LEMMA PlaceIsAsked ==
  ASSUME IInv, ShortWrites, NEW i \in Items, NEW c \in Asks(i), Where(i, c) # {}
  PROVE  Asked(i, c) > 0
<1> DEFINE here(k) == k.item = i /\ k.index = c /\ Current(k)
           calls == {t \in Threads : /\ here(at[t].task)
                                     /\ at[t].op \in {"prepare", "write", "writeMade", "create", "count", "diskFull"}}
           flying == {q \in Workers \X {1, 2} : q[2] <= Len(inflight[q[1]]) /\ here(inflight[q[1]][q[2]])}
           read == {q \in Workers \X {1, 2} : q[2] <= Len(writes[q[1]]) /\ here(writes[q[1]][q[2]].task)}
           again == IF c \in item[i].retries THEN 1 ELSE 0
           first == IF c >= item[i].next THEN 1 ELSE 0
<1>1. TypeOK /\ Located(i, c) /\ c \in Nat /\ c # DigestIndex
  BY WhereIs, Offer DEF IInv
<1>2. IsFiniteSet(Workers) /\ IsFiniteSet(Workers \X {1, 2})
  <2>1. IsFiniteSet(Workers)
    BY <1>1, PlansAssumption DEF TypeOK, Workers
  <2>2. IsFiniteSet({1, 2})
    <3>1. IsFiniteSet({1}) /\ IsFiniteSet({2})
      BY FS_Singleton
    <3>2. IsFiniteSet({1} \cup {2})
      BY <3>1, FS_Union
    <3>3. {1, 2} = {1} \cup {2}
      OBVIOUS
    <3> QED
      BY <3>2, <3>3
  <2> QED
    BY <2>1, <2>2, FS_Product
<1>3. IsFiniteSet(Threads)
  <2>1. IsFiniteSet({Reader(w) : w \in Workers}) /\ IsFiniteSet({Writer(w) : w \in Workers})
    <3>1. [w \in Workers |-> Reader(w)] \in Surjection(Workers, {Reader(w) : w \in Workers})
      BY DEF Surjection
    <3>2. [w \in Workers |-> Writer(w)] \in Surjection(Workers, {Writer(w) : w \in Workers})
      BY DEF Surjection
    <3> QED
      BY <1>2, <3>1, <3>2, FS_Surjection
  <2>2. IsFiniteSet({Timer, User, Main})
    <3>1. IsFiniteSet({Timer}) /\ IsFiniteSet({User}) /\ IsFiniteSet({Main})
      BY FS_Singleton
    <3>2. IsFiniteSet({Timer} \cup {User})
      BY <3>1, FS_Union
    <3>3. IsFiniteSet(({Timer} \cup {User}) \cup {Main})
      BY <3>1, <3>2, FS_Union
    <3>4. {Timer, User, Main} = ({Timer} \cup {User}) \cup {Main}
      OBVIOUS
    <3> QED
      BY <3>3, <3>4
  <2> QED
    BY <2>1, <2>2, FS_Union DEF Threads
<1>4. IsFiniteSet(calls) /\ IsFiniteSet(flying) /\ IsFiniteSet(read)
  BY <1>2, <1>3, FS_Subset
<1>5. /\ Cardinality(calls) \in Nat /\ (calls # {} => Cardinality(calls) > 0)
      /\ Cardinality(flying) \in Nat /\ (flying # {} => Cardinality(flying) > 0)
      /\ Cardinality(read) \in Nat /\ (read # {} => Cardinality(read) > 0)
  BY <1>4, HasSize
<1>6. again \in {0, 1} /\ first \in {0, 1}
  OBVIOUS
<1>7. Asked(i, c) = Cardinality(calls) + Cardinality(flying) + Cardinality(read) + again + first
  BY DEF Asked
<1>8. \A k \in Task : k.item = i => Current(k)
  BY <1>1 DEF Task, TypeOK, Item, Current
<1>9. \/ calls # {} \/ flying # {} \/ read # {} \/ again = 1 \/ first = 1
  <2>1. CASE Ahead(item[i], c)
    <3>1. item[i].next \in Nat
      BY <1>1 DEF TypeOK, Item
    <3> QED
      BY <1>1, <2>1, <3>1 DEF Ahead
  <2>2. CASE \E t \in Threads : Carries(at[t], i, c)
    <3>1. PICK t \in Threads : Carries(at[t], i, c)
      BY <2>2
    <3>2. at[t].task \in Task
      BY <1>1 DEF TypeOK, Thread
    <3>3. t \in calls
      BY <1>1, <1>8, <3>1, <3>2 DEF Carries, Moves
    <3> QED
      BY <3>3
  <2>3. CASE \E w \in Workers : Requested(inflight[w], i, c)
    <3>1. PICK w \in Workers : \E n \in 1 .. Len(inflight[w]) : inflight[w][n].item = i /\ inflight[w][n].index = c
      BY <2>3 DEF Requested
    <3>2. inflight[w] \in Seq(Task) /\ Len(inflight[w]) <= 2
      BY <1>1 DEF IInv, Queues, TypeOK
    <3>3. PICK n \in 1 .. Len(inflight[w]) : inflight[w][n].item = i /\ inflight[w][n].index = c
      BY <3>1
    <3>4. inflight[w][n] \in Task /\ n <= Len(inflight[w]) /\ n \in {1, 2}
      BY <3>2
    <3>5. <<w, n>> \in flying
      BY <1>8, <3>3, <3>4
    <3> QED
      BY <3>5
  <2>4. CASE \E w \in Workers : Waits(writes[w], i, c)
    <3>1. PICK w \in Workers : \E n \in 1 .. Len(writes[w]) : writes[w][n].task.item = i /\ writes[w][n].task.index = c
      BY <2>4 DEF Waits
    <3>2. writes[w] \in Seq(Read) /\ Len(writes[w]) <= 2
      BY <1>1 DEF TypeOK, ShortWrites
    <3>3. PICK n \in 1 .. Len(writes[w]) : writes[w][n].task.item = i /\ writes[w][n].task.index = c
      BY <3>1
    <3>4. writes[w][n].task \in Task /\ n <= Len(writes[w]) /\ n \in {1, 2}
      <4>1. writes[w][n] \in Read /\ n <= Len(writes[w]) /\ n \in {1, 2}
        BY <3>2
      <4> QED
        BY <4>1 DEF Read
    <3>5. <<w, n>> \in read
      BY <1>8, <3>3, <3>4
    <3> QED
      BY <3>5
  <2> QED
    BY <1>1, <2>1, <2>2, <2>3, <2>4 DEF Located
<1> HIDE DEF calls, flying, read, again, first
<1> QED
  BY <1>5, <1>6, <1>7, <1>9

LEMMA NoneForgotten ==
  ASSUME IInv, ShortWrites
  PROVE  NoItemForgotten
<1> SUFFICES ASSUME NEW i \in Items, Pending(i), phase = "runs"
             PROVE  /\ \/ \E c \in 0..(Target(i) - 1) : Asked(i, c) > 0
                       \/ item[i].digest \/ DigestIndex \in item[i].retries
                       \/ \E w \in Workers : \E n \in 1..Len(inflight[w]) :
                            inflight[w][n].item = i /\ inflight[w][n].index = DigestIndex /\ Current(inflight[w][n])
                       \/ i \in batched
                       \/ \E t \in Threads : \/ i \in at[t].taken \/ \E e \in at[t].ends : e[1] = i
                                             \/ at[t].task.item = i /\ at[t].op # "idle"
                    /\ item[i].closed \/ Restarts(i)
                       \/ \A c \in Chunks(i) : \/ Asked(i, c) > 0
                                               \/ item[i].file # "none" /\ c \in disk[i].has
  BY DEF NoItemForgotten
<1>1. TypeOK /\ Counted(i) /\ Stored(i) /\ Told(i)
  BY DEF IInv, ItemOK
<1>2. \A c \in Asks(i) : Where(i, c) # {} => Asked(i, c) > 0
  BY PlaceIsAsked
<1>3. Asks(i) = 0..(Target(i) - 1) /\ Chunks(i) \subseteq Asks(i)
  BY <1>1, Offer DEF Asks
<1>4. CASE item[i].closed
  BY <1>1, <1>4 DEF Told, Cared
<1>5. CASE ~item[i].closed
  <2>1. Restarts(i) \/ \A c \in Chunks(i) : Asked(i, c) > 0 \/ (item[i].file # "none" /\ c \in disk[i].has)
    <3>1. Is(i, {"discard", "askAgain", "end"}) => Restarts(i)
      BY DEF Is, Restarts
    <3> QED
      BY <1>1, <1>2, <1>3, <1>5, <3>1 DEF Stored
  <2>2. CASE \E c \in Asks(i) : Where(i, c) # {}
    BY <1>2, <1>3, <2>1, <2>2
  <2>3. CASE Is(i, {"end", "askAgain"})
    BY <2>1, <2>3 DEF Is
  <2>4. CASE Handled(i) = Asks(i) /\ ~Is(i, {"end", "askAgain"})
    <3>1. ~Is(i, {"end"}) /\ ~Is(i, {"askAgain"})
      BY <2>4 DEF Is
    <3>2. item[i].processed = Target(i)
      BY <1>1, <1>5, <2>4, HandledIs DEF Counted
    <3>3. Where(i, DigestIndex) # {}
      BY <1>1, <1>5, <3>1, <3>2 DEF Counted
    <3>4. Located(i, DigestIndex)
      BY WhereIs
    <3>5. CASE Ahead(item[i], DigestIndex)
      BY <2>1, <3>5 DEF Ahead
    <3>6. CASE \E t \in Threads : Carries(at[t], i, DigestIndex)
      BY <2>1, <3>6 DEF Carries, Closing
    <3>7. CASE \E w \in Workers : Requested(inflight[w], i, DigestIndex)
      <4>1. PICK w \in Workers : \E n \in 1 .. Len(inflight[w]) :
              inflight[w][n].item = i /\ inflight[w][n].index = DigestIndex
        BY <3>7 DEF Requested
      <4>2. PICK n \in 1 .. Len(inflight[w]) : inflight[w][n].item = i /\ inflight[w][n].index = DigestIndex
        BY <4>1
      <4>3. inflight[w][n] \in Task /\ item[i] \in Item
        BY <1>1 DEF TypeOK
      <4>4. Current(inflight[w][n])
        BY <4>2, <4>3 DEF Task, Item, Current
      <4> QED
        BY <2>1, <4>2, <4>4
    <3>8. ~\E w \in Workers : Waits(writes[w], i, DigestIndex)
      BY DEF IInv, Queues, Waits
    <3> QED
      BY <3>3, <3>4, <3>5, <3>6, <3>7, <3>8 DEF Located
  <2> QED
    BY <2>2, <2>3, <2>4 DEF Handled
<1> QED
  BY <1>4, <1>5

\* No item is forgotten: one that did not end is in someone's hands, and a chunk that
\* is not on disk is on its way (next, drop, retry, startOver, complete, flushBatch).
THEOREM NoneIsForgotten == NoFullDisk => (Spec => []NoItemForgotten)
<1> SUFFICES ASSUME NoFullDisk PROVE Spec => []NoItemForgotten
  OBVIOUS
<1>1. Init => ShortWrites
  <2> SUFFICES ASSUME Init PROVE ShortWrites
    OBVIOUS
  <2>1. \A w \in Workers : writes[w] = <<>>
    BY InitTypes
  <2>2. Len(<<>>) <= 2
    OBVIOUS
  <2> QED
    BY <2>1, <2>2 DEF ShortWrites
<1>2. IInv /\ ShortWrites /\ [Next]_vars => ShortWrites'
  BY ShortStays
<1>3. IInv /\ ShortWrites => NoItemForgotten
  BY NoneForgotten
<1> QED
  BY <1>1, <1>2, <1>3, Invariant, PTL DEF Spec

\* What a step leaves in the journal of an item.
KeptOn(i) == disk[i].kept \subseteq disk'[i].kept \/ disk'[i].named # "no" \/ item[i].restarted

LEMMA KeptAlone ==
  ASSUME IInv, NEW i \in Items, NEW d, disk' = [disk EXCEPT ![i] = d] \/ disk' = disk,
         disk[i].kept \subseteq d.kept \/ d.named # "no" \/ item[i].restarted
  PROVE  \A j \in Items : KeptOn(j)
<1>1. disk \in [Items -> Disk]
  BY DEF IInv, TypeOK
<1> QED
  BY <1>1 DEF KeptOn

\* The file of an item that goes on has what its journal keeps.
LEMMA KeptIsThere ==
  ASSUME IInv, NEW i \in Items, ~item[i].closed, item[i].file # "none"
  PROVE  disk[i].kept \subseteq disk[i].has
<1>1. FileOf(i, item[i], disk[i]) /\ item[i].file \in {"none", "open", "sealed"}
  BY DEF IInv, ItemOK, FileOK, TypeOK, Item
<1> QED
  BY <1>1 DEF FileOf

\* The chunk of k is on disk, and durable or not.
StoredAs(i, c) ==
  LET noted == [disk[i] EXCEPT !.has = @ \cup {c}] IN
  \E durable \in {disk[i].kept, noted.has} : disk' = [disk EXCEPT ![i] = [noted EXCEPT !.kept = durable]]
LEMMA StoredIs ==
  ASSUME room, NEW t, NEW k, StoreChunk(t, k), disk' # disk
  PROVE  StoredAs(k.item, k.index)
  BY DEF StoreChunk, StoredAs

LEMMA KeepsOn ==
  ASSUME NoFullDisk, IInv, [Next]_vars
  PROVE  \A i \in Items : KeptOn(i)
<1>1. disk \in [Items -> Disk]
  BY DEF IInv, TypeOK
<1>2. UNCHANGED disk => \A i \in Items : KeptOn(i)
  BY DEF KeptOn
<1>3. ASSUME NEW w \in Workers, Prepare(w) PROVE \A i \in Items : KeptOn(i)
  <2>1. CASE UNCHANGED disk
    BY <1>2, <2>1
  <2>2. CASE Open(at[Reader(w)].task.item)
    <3>1. Reader(w) \in Threads /\ at[Reader(w)].op \in Moves \cup Closing
      BY <1>3 DEF Threads, Prepare, Moves
    <3>2. PICK i \in Items : i = at[Reader(w)].task.item
      BY <3>1, HasNoEnds
    <3>3. disk' = [disk EXCEPT ![i] = [disk[i] EXCEPT !.has = disk[i].kept]]
      BY <1>1, <2>2, <3>2 DEF Open
    <3>4. disk[i].kept \subseteq [disk[i] EXCEPT !.has = disk[i].kept].kept
      BY <1>1 DEF Disk
    <3> QED
      BY <3>3, <3>4, KeptAlone
  <2> QED
    BY <1>3, <2>1, <2>2 DEF Prepare
<1>4. ASSUME NEW t \in Threads, Write(t) PROVE \A i \in Items : KeptOn(i)
  <2>1. CASE UNCHANGED disk
    BY <1>2, <2>1
  <2>2. CASE disk' # disk
    <3>1. PICK k, i, c : k = at[t].task /\ i = k.item /\ c = k.index
      OBVIOUS
    <3>2. at[t].op \in Moves \cup Closing /\ item[i].file # "none" /\ ~item[i].closed /\ StoreChunk(t, k)
      BY <1>4, <2>2, <3>1 DEF Write, Moves
    <3>3. i \in Items /\ disk[i].kept \subseteq disk[i].has
      BY <3>1, <3>2, HasNoEnds, KeptIsThere
    <3>4. room
      BY DEF IInv, TypeOK
    <3>5. disk[i] \in Disk
      BY <1>1, <3>3
    <3> DEFINE noted == [disk[i] EXCEPT !.has = @ \cup {c}]
    <3>6. noted.has = disk[i].has \cup {c}
      BY <3>5 DEF Disk
    <3>7. \E durable \in {disk[i].kept, noted.has} : disk' = [disk EXCEPT ![i] = [noted EXCEPT !.kept = durable]]
      <4>1. StoredAs(k.item, k.index)
        BY <2>2, <3>2, <3>4, StoredIs
      <4>2. StoredAs(i, c)
        BY <3>1, <4>1
      <4> QED
        BY <4>2 DEF StoredAs
    <3>8. PICK durable \in {disk[i].kept, noted.has} : disk' = [disk EXCEPT ![i] = [noted EXCEPT !.kept = durable]]
      BY <3>7
    <3>9. disk[i].kept \subseteq durable
      BY <3>3, <3>6
    <3>10. [noted EXCEPT !.kept = durable].kept = durable
      BY <3>5 DEF Disk
    <3>11. PICK d : d = [noted EXCEPT !.kept = durable]
      OBVIOUS
    <3> QED
      BY <3>3, <3>8, <3>9, <3>10, <3>11, KeptAlone
  <2> QED
    BY <2>1, <2>2
<1>5. ASSUME NEW t \in Threads, Create(t) PROVE \A i \in Items : KeptOn(i)
  <2>1. PICK i : i = at[t].task.item
    OBVIOUS
  <2>2. i \in Items /\ disk[i] \in Disk
    BY <1>1, <1>5, <2>1, HasNoEnds DEF Create, Moves
  <2>3. PICK d : d = [disk[i] EXCEPT !.has = disk[i].kept]
    OBVIOUS
  <2>4. disk' = [disk EXCEPT ![i] = d] \/ disk' = disk
    BY <1>1, <1>5, <2>1, <2>3 DEF Create
  <2>5. d.kept = disk[i].kept
    BY <2>2, <2>3 DEF Disk
  <2> QED
    BY <2>2, <2>4, <2>5, KeptAlone
<1>6. ASSUME NEW t \in Threads, DiscardItem(t) PROVE \A i \in Items : KeptOn(i)
  <2>1. PICK i : i = at[t].task.item
    OBVIOUS
  <2>2. at[t].op = "discard" /\ i \in Items /\ ThreadOK(at[t])
    BY <1>6, <2>1, HasNoEnds DEF DiscardItem, Closing
  <2>3. item[i].restarted
    BY <2>1, <2>2 DEF ThreadOK, TaskOf
  <2>4. PICK d : d = [disk[i] EXCEPT !.has = {}, !.kept = {}, !.old = {}]
    OBVIOUS
  <2>5. disk' = [disk EXCEPT ![i] = d] \/ disk' = disk
    BY <1>6, <2>1, <2>4 DEF DiscardItem
  <2> QED
    BY <2>2, <2>3, <2>5, KeptAlone
<1>7. \A d : Named(d).named # "no"
  BY DEF Named
<1>8. ASSUME NEW t \in Threads, Finish(t) PROVE \A i \in Items : KeptOn(i)
  <2>1. PICK i : i = at[t].task.item
    OBVIOUS
  <2>2. i \in Items
    BY <1>8, <2>1, HasNoEnds DEF Finish, Closing
  <2>3. PICK d : d = Named(disk[i])
    OBVIOUS
  <2>4. disk' = [disk EXCEPT ![i] = d] \/ disk' = disk
    BY <1>8, <2>1, <2>3 DEF Finish
  <2> QED
    BY <1>7, <2>2, <2>3, <2>4, KeptAlone
<1>9. ASSUME NEW t \in Threads, End(t) PROVE \A i \in Items : KeptOn(i)
  <2>1. PICK i : i = at[t].task.item
    OBVIOUS
  <2>2. at[t].op = "end" /\ i \in Items
    BY <1>9, <2>1 DEF End, IInv, ThreadsOK, ThreadOK
  <2>3. PICK kept \in {disk[i].kept, disk[i].has} : CloseFile(i, kept)
    BY <1>9, <2>1 DEF End
  <2>4. CASE UNCHANGED disk
    BY <1>2, <2>4
  <2>5. CASE disk' # disk
    <3>1. ~item[i].closed /\ item[i].file # "none" /\ disk' = [disk EXCEPT ![i].kept = kept]
      BY <2>3, <2>5 DEF CloseFile
    <3>2. disk[i].kept \subseteq kept
      BY <2>2, <2>3, <3>1, KeptIsThere
    <3>3. PICK d : d = [disk[i] EXCEPT !.kept = kept]
      OBVIOUS
    <3>4. d.kept = kept
      BY <1>1, <2>2, <3>3 DEF Disk
    <3>5. disk' = [disk EXCEPT ![i] = d]
      BY <3>1, <3>3
    <3> QED
      BY <2>2, <3>2, <3>4, <3>5, KeptAlone
  <2> QED
    BY <2>4, <2>5
<1>10. ASSUME NEW t \in Threads, Names(t) PROVE \A i \in Items : KeptOn(i)
  <2>1. PICK lost : disk' = [i \in Items |-> IF i \in at[t].taken \ lost THEN Named(disk[i]) ELSE disk[i]]
    BY <1>10 DEF Names
  <2> QED
    BY <1>7, <2>1 DEF KeptOn
<1>11. ASSUME RunReturns PROVE \A i \in Items : KeptOn(i)
  <2>1. ASSUME NEW i \in Items PROVE KeptOn(i)
    <3>1. disk'[i] = IF ~item[i].closed /\ item[i].file # "none" /\ room
                     THEN [disk[i] EXCEPT !.kept = disk[i].has] ELSE disk[i]
      BY <1>11 DEF RunReturns
    <3>2. [disk[i] EXCEPT !.kept = disk[i].has].kept = disk[i].has
      BY <1>1 DEF Disk
    <3> QED
      BY <3>1, <3>2, KeptIsThere DEF KeptOn
  <2> QED
    BY <2>1
<1>12. ASSUME NEW w \in Workers,
              \/ Fetch(w) \/ FillEnds(w) \/ Connect(w) \/ Leave(w) \/ LeaveCancelled(w)
              \/ Network(w) \/ Trouble(w) \/ Take(w)
       PROVE  UNCHANGED disk
  BY <1>12 DEF Fetch, FillEnds, Connect, Leave, LeaveCancelled, Network, Data, Digest, Trouble, ConnectFails, Lose,
               Gone, Take
<1>13. ASSUME NEW t \in Threads, \/ Count(t) \/ Complete(t) \/ Arm(t) \/ StartOver(t) \/ AskAgain(t) \/ Mark(t)
                                 \/ Flush(t)
       PROVE  UNCHANGED disk
  BY <1>13 DEF Count, Complete, Arm, StartOver, AskAgain, Mark, Flush
<1>14. TimerFires \/ RunFlushes \/ UserMoves \/ UserResumes => UNCHANGED disk
  BY DEF TimerFires, RunFlushes, UserMoves, UserResumes, Pause, Cancel, PauseItem, SkipItem, Resume, ResumeItem
<1>15. UNCHANGED vars => UNCHANGED disk
  BY DEF vars
<1> QED
  BY <1>2, <1>3, <1>4, <1>5, <1>6, <1>8, <1>9, <1>10, <1>11, <1>12, <1>13, <1>14, <1>15, NeverFull
     DEF Next, ReaderSteps, Call

\* What an interrupted item has in its journal stays there until the file has its name,
\* unless its digest did not match (endItem, CommitIfDue, closeAll, discard).
THEOREM KeepsForResume == NoFullDisk => (Spec => KeptForResume)
<1> SUFFICES ASSUME NoFullDisk PROVE Spec => KeptForResume
  OBVIOUS
<1>1. IInv /\ [Next]_vars =>
        [\A i \in Items : \/ disk[i].kept \subseteq disk'[i].kept
                          \/ disk'[i].named # "no"
                          \/ item[i].restarted]_vars
  BY KeepsOn DEF KeptOn
<1> QED
  BY <1>1, Invariant, PTL DEF Spec, KeptForResume
=============================================================================
