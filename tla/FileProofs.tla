----------------------------- MODULE FileProofs -----------------------------
(***************************************************************************)
(* The files at both ends of a transfer.                                   *)
(*                                                                         *)
(* Sender, for every number of items, chunks and connections, every queue  *)
(* and every limit of open files: SendIInv.  A connection is in one place  *)
(* (QueueOK), the request it answers stays where it is while the answers   *)
(* before it are written (ConnOK); what is hashed is what was offered      *)
(* while the source is (SendHashes); a goroutine has one role towards a    *)
(* file, and the entry counts those who read it (EntriesOK).  A step of    *)
(* one changes one role: a lemma for each change.                          *)
(*                                                                         *)
(* The part file: Invariant J, the completeness of what has its name, and  *)
(* the refinement of ResumableFile, for every number of chunks, writers    *)
(* and files, every policy and every failing call, on a system whose       *)
(* failed fsync keeps the pages it could not write.  IInv is DiskInv and   *)
(* MemoryInv.  The first lemmas say what each kind of change to the disk   *)
(* does to DiskInv: nothing, a sync, a new journal, a name removed.  The   *)
(* step lemma then goes through the actions.  The same kinds of change are *)
(* then shown to keep what was told durable (Keeps), with KeptOK for the   *)
(* calls that remove a name; a step that Keeps is one of the promise.      *)
(***************************************************************************)
EXTENDS PartFileInv, Sender, FiniteSetTheorems, SequenceTheorems, TLAPS

-----------------------------------------------------------------------------
(* The sender's inductive invariant.                                       *)

Hash == SUBSET {0, 1}
FileEntry == [st : {"none", "opening", "open"}, refs : Nat]
Connection ==
  [st : {"none", "joins", "queued", "listed", "gone"}, link : {"up", "lost", "closed"}, asked : Seq(Request), taken : Nat,
   at : {"none", "reads", "acquires", "opens", "serves", "checks", "sums", "puts", "reports", "tells", "ended"}, sum : Seq(Hash),
   pre : BOOLEAN, ready : Seq(BOOLEAN), out : {"none", "waits", "drains", "over"}, now : BOOLEAN, free : Nat]
Ahead(n) == [upTo : Nat, st : {"none", "queued", "hashed", "failed"}, hash : [0 .. n - 1 -> Hash]]

SendTypeOK ==
  /\ plan \in Plans
  /\ port \in [registered : BOOLEAN, closed : BOOLEAN, done : BOOLEAN, queue : Seq(Conns)]
  /\ serve \in [at : {"accepts", "lists", "waits", "returned"}, conn : Conns \cup {0}]
  /\ conn \in [Conns -> Connection]
  /\ entry \in [Items -> FileEntry]
  /\ source \in [Items -> {"offered", "written", "replaced"}]
  /\ served = [i \in Items |-> served[i]]
  /\ \A i \in Items : served[i] \in [Index(i) -> Hash]
  /\ ahead = [i \in Items |-> ahead[i]]
  /\ \A i \in Items : ahead[i] \in Ahead(ahead[i].upTo) /\ ahead[i].upTo <= ChunksOf[i]
  /\ hasher.at \in {"waits", "acquires", "opens", "hashes", "over"}
  /\ hasher = [at |-> hasher.at, item |-> hasher.item, queue |-> hasher.queue, k |-> hasher.k]
  /\ hasher.queue \in Seq(Items) /\ hasher.k \in Nat
  /\ hasher.at \in {"acquires", "opens", "hashes"} => hasher.item \in Items

\* Each connection delivered is in the queue once, until it is listed.
QueueOK ==
  /\ \A n \in 1 .. Len(port.queue) : conn[port.queue[n]].st = "queued"
  /\ \A n, m \in 1 .. Len(port.queue) : port.queue[n] = port.queue[m] => n = m
  /\ serve.at = "lists" => /\ serve.conn \in Conns /\ conn[serve.conn].st = "queued"
                           /\ \A n \in 1 .. Len(port.queue) : port.queue[n] # serve.conn
  /\ serve.at = "returned" => Listed = {}

\* A request being answered is asked still, behind those whose answers are prepared.
Answering == {"acquires", "opens", "serves", "checks", "sums", "puts"}
RecOK(r) ==
  /\ r.taken <= Len(r.asked) /\ Len(r.ready) <= r.taken
  /\ r.at \in Answering => Len(r.ready) < r.taken
  /\ r.at \notin {"none", "ended"} => r.st = "listed"
  /\ r.at = "serves" => r.asked[r.taken].chunk # DigestIndex
  /\ r.at # "sums" => r.sum = <<>>
ConnOK(c) == RecOK(conn[c])

\* Hashes of what was offered while the source is; those ahead are complete when it is said.
Filled(i) == \A k \in 0 .. ahead[i].upTo - 1 : served[i][k] # {} \/ ahead[i].hash[k] # {}
HashesOK(i) ==
  /\ Unchanged(i) => /\ \A k \in Index(i) : served[i][k] \subseteq {0}
                     /\ \A k \in 0 .. ahead[i].upTo - 1 : ahead[i].hash[k] \subseteq {0}
  /\ ahead[i].st # "none" => \E k \in Index(i) : served[i][k] # {}
  /\ ahead[i].st = "hashed" => Filled(i)
HasherOK ==
  /\ \A n \in 1 .. Len(hasher.queue) : ahead[hasher.queue[n]].st # "none"
  /\ hasher.at \in {"acquires", "opens", "hashes"} =>
       /\ ahead[hasher.item].st # "none"
       /\ hasher.k <= ahead[hasher.item].upTo
       /\ \A k \in 0 .. hasher.k - 1 : served[hasher.item][k] # {} \/ ahead[hasher.item].hash[k] # {}
SumOK(c) ==
  conn[c].at = "sums" =>
    LET i == Now(c).item IN
    /\ conn[c].pre => ahead[i].st # "none" /\ Filled(i)
    /\ Unchanged(i) => \A n \in 1 .. Len(conn[c].sum) : conn[c].sum[n] = {0}

\* What a goroutine does with a file: 0 is the one that hashes ahead.
Goers == Conns \cup {0}
Role(x) ==
  IF x = 0 THEN IF hasher.at = "hashes" THEN <<"reads", hasher.item>> ELSE IF hasher.at = "opens" THEN <<"opens", hasher.item>> ELSE <<"none", 0>>
  ELSE IF conn[x].at \in {"serves", "checks", "sums"} THEN <<"reads", Now(x).item>>
  ELSE IF conn[x].at = "opens" THEN <<"opens", Now(x).item>> ELSE <<"none", 0>>
ReadersOf(i) == {x \in Goers : Role(x) = <<"reads", i>>}
EntryOK(i) ==
  /\ \A x \in Goers : Role(x) = <<"opens", i>> => entry[i].st = "opening"
  /\ \A x, y \in Goers : Role(x) = <<"opens", i>> /\ Role(y) = <<"opens", i>> => x = y
  /\ \A x \in Goers : Role(x) = <<"reads", i>> => entry[i].st = "open"
  /\ entry[i].st = "open" => entry[i].refs = Cardinality(ReadersOf(i))
EntriesOK == serve.at # "returned" => \A i \in Items \ plan.fixed : EntryOK(i)

SendHashes == (\A i \in Items : HashesOK(i)) /\ HasherOK /\ \A c \in Conns : SumOK(c)
SendIInv == SendTypeOK /\ QueueOK /\ (\A c \in Conns : ConnOK(c)) /\ SendHashes /\ DigestIsOffered /\ EntriesOK

-----------------------------------------------------------------------------
LEMMA SendRequests ==
  ASSUME NEW r \in Request
  PROVE  r.item \in Items /\ (r.chunk # DigestIndex => r.chunk \in Index(r.item))
<1>1. CASE r \in [item : Items, chunk : {DigestIndex}]
  BY <1>1
<1>2. CASE r \in UNION {{[item |-> i, chunk |-> k] : k \in Index(i)} : i \in Items}
  <2>1. PICK i \in Items : r \in {[item |-> i, chunk |-> k] : k \in Index(i)}
    BY <1>2
  <2>2. PICK k \in Index(i) : r = [item |-> i, chunk |-> k]
    BY <2>1
  <2> QED
    BY <2>2
<1> QED
  BY <1>1, <1>2 DEF Request

\* The request a goroutine answers.
LEMMA SendNow ==
  ASSUME SendTypeOK, NEW c \in Conns, ConnOK(c), conn[c].at \in Answering
  PROVE  /\ conn[c].taken \in 1 .. Len(conn[c].asked) /\ Now(c) \in Request
         /\ Now(c).item \in Items /\ (conn[c].at = "serves" => Now(c).chunk \in Index(Now(c).item))
<1>1. conn[c] \in Connection
  BY DEF SendTypeOK
<1>2. conn[c].taken \in Nat /\ conn[c].asked \in Seq(Request) /\ conn[c].ready \in Seq(BOOLEAN)
  BY <1>1 DEF Connection
<1>3. conn[c].taken \in 1 .. Len(conn[c].asked)
  BY <1>2 DEF ConnOK, RecOK
<1>4. Now(c) \in Request
  BY <1>2, <1>3 DEF Now
<1> QED
  BY <1>3, <1>4, SendRequests DEF ConnOK, RecOK, Now

\* A step of one connection.
LEMMA SendSet ==
  ASSUME SendTypeOK, NEW c \in Conns, NEW r, Set(c, r)
  PROVE  conn'[c] = r /\ (\A d \in Conns \ {c} : conn'[d] = conn[d]) /\ (r \in Connection => conn' \in [Conns -> Connection])
BY DEF SendTypeOK, Set

LEMMA SendTypeConn ==
  ASSUME SendTypeOK, NEW c \in Conns, NEW r \in Connection, Set(c, r), UNCHANGED <<port, serve, entry, source, served, ahead, hasher, plan>>
  PROVE  SendTypeOK'
BY SendSet DEF SendTypeOK, Index, Unchanged

LEMMA SendTypeFrame ==
  ASSUME SendTypeOK, conn' \in [Conns -> Connection], entry' \in [Items -> FileEntry],
         port' \in [registered : BOOLEAN, closed : BOOLEAN, done : BOOLEAN, queue : Seq(Conns)],
         serve' \in [at : {"accepts", "lists", "waits", "returned"}, conn : Conns \cup {0}],
         UNCHANGED <<source, served, ahead, hasher, plan>>
  PROVE  SendTypeOK'
BY DEF SendTypeOK, Index, Unchanged

LEMMA LinkCloses ==
  ASSUME NEW r \in Connection
  PROVE  [r EXCEPT !.link = "closed"] \in Connection
BY DEF Connection

LEMMA StQueued ==
  ASSUME NEW r \in Connection, NEW l
  PROVE  [r EXCEPT !.st = "queued", !.link = l].st = "queued"
BY DEF Connection

LEMMA SendTypeClosing ==
  ASSUME SendIInv, EndContext \/ Closing \/ Serving
  PROVE  SendTypeOK'
<1> USE DEF SendIInv, files, done, bounds, ends
<1>0. /\ port \in [registered : BOOLEAN, closed : BOOLEAN, done : BOOLEAN, queue : Seq(Conns)]
      /\ serve \in [at : {"accepts", "lists", "waits", "returned"}, conn : Conns \cup {0}]
      /\ conn \in [Conns -> Connection] /\ entry \in [Items -> FileEntry] /\ SendTypeOK
  BY DEF SendTypeOK
<1>L. \A cs : CloseLink(cs) \in [Conns -> Connection]
  <2> SUFFICES ASSUME NEW cs, NEW c \in Conns
               PROVE  (IF c \in cs /\ conn[c].link = "up" THEN [conn[c] EXCEPT !.link = "closed"] ELSE conn[c]) \in Connection
    BY DEF CloseLink
  <2>1. conn[c] \in Connection
    BY <1>0
  <2>2. [conn[c] EXCEPT !.link = "closed"] \in Connection
    BY <2>1, LinkCloses
  <2> QED
    BY ONLY <2>1, <2>2
<1>1. CASE EndContext \/ Quits
  BY <1>1, <1>0, SendTypeFrame DEF EndContext, Quits
<1>2. CASE Refuses
  BY <1>2, <1>0, SendTypeFrame DEF Refuses
<1>3. CASE Unregisters
  BY <1>3, <1>0, SendTypeFrame DEF Unregisters
<1>4. CASE FailsAccept
  BY <1>4, <1>0, SendTypeFrame DEF FailsAccept
<1>5. CASE Drains
  <2>1. port' \in [registered : BOOLEAN, closed : BOOLEAN, done : BOOLEAN, queue : Seq(Conns)]
    BY <1>5, <1>0 DEF Drains
  <2>2. conn' \in [Conns -> Connection]
    BY <1>5, <1>0, <1>L DEF Drains
  <2> QED
    BY <1>5, <1>0, <2>1, <2>2, SendTypeFrame DEF Drains
<1>6. CASE ClosesConns
  BY <1>6, <1>0, <1>L, SendTypeFrame DEF ClosesConns
<1>7. CASE Accepts
  <2>1. port.queue \in Seq(Conns) /\ port.queue # <<>>
    BY <1>7, <1>0 DEF Accepts
  <2>2. Head(port.queue) \in Conns /\ Tail(port.queue) \in Seq(Conns)
    BY <2>1
  <2> QED
    BY <1>7, <1>0, <2>2, SendTypeFrame DEF Accepts
<1>8. CASE Lists
  <2>1. serve.conn \in Conns
    BY <1>8 DEF Lists, QueueOK
  <2>2. [conn[serve.conn] EXCEPT !.st = "listed", !.at = "reads", !.out = "waits"] \in Connection
    <3>1. conn[serve.conn] \in Connection
      BY <1>0, <2>1
    <3> QED
      BY <3>1 DEF Connection
  <2>3. conn' \in [Conns -> Connection]
    BY <1>8, <1>0, <2>1, <2>2, SendSet DEF Lists
  <2> QED
    BY <1>8, <1>0, <2>3, SendTypeFrame DEF Lists
<1>9. CASE StopsAccepting
  BY <1>9, <1>0, SendTypeFrame DEF StopsAccepting
<1>10. CASE Returns
  BY <1>10, <1>0, SendTypeFrame DEF Returns, ClosesFiles, FileEntry
<1> QED
  BY <1>1, <1>2, <1>3, <1>4, <1>5, <1>6, <1>7, <1>8, <1>9, <1>10 DEF Closing, Serving

\* The entries, whoever acquires, opens or releases one.
LEMMA SendTypeEntry ==
  ASSUME SendTypeOK, NEW i \in Items, NEW ok \in BOOLEAN
  PROVE  /\ Released(i) \in [Items -> FileEntry]
         /\ entry[i].st = "open" => Held(i) \in [Items -> FileEntry]
         /\ Opened(i, ok) => entry' \in [Items -> FileEntry]
         /\ \A G, F, O \in BOOLEAN : Acquires(i, G, F, O) => entry' \in [Items -> FileEntry]
<1>1. entry \in [Items -> FileEntry]
  BY DEF SendTypeOK
<1>2. Released(i) \in [Items -> FileEntry] /\ Held(i) \in [Items -> FileEntry]
  BY <1>1 DEF Released, Held, FileEntry
<1>3. Opened(i, ok) => entry' \in [Items -> FileEntry]
  BY <1>1 DEF Opened, FileEntry, NoEntry, Evictable
<1>4. \A G, F, O \in BOOLEAN : Acquires(i, G, F, O) => entry' \in [Items -> FileEntry]
  BY <1>1, <1>2 DEF Acquires, FileEntry
<1> QED
  BY <1>2, <1>3, <1>4

\* The connections, and what each step makes of one.
LEMMA SendTypeRec ==
  ASSUME SendTypeOK, NEW c \in Conns, ConnOK(c)
  PROVE  /\ conn[c] \in Connection
         /\ \A at \in {"reads", "acquires", "opens", "serves", "checks", "sums", "puts", "reports", "tells", "ended"}, ok \in BOOLEAN,
               l \in {"up", "lost", "closed"} :
              /\ [conn[c] EXCEPT !.at = at] \in Connection
              /\ [conn[c] EXCEPT !.at = "sums", !.pre = ok] \in Connection
              /\ [conn[c] EXCEPT !.at = "puts", !.now = ok, !.sum = <<>>, !.pre = FALSE] \in Connection
              /\ conn[c].free > 0 => /\ [[conn[c] EXCEPT !.free = @ - 1] EXCEPT !.at = at] \in Connection
                                     /\ [[conn[c] EXCEPT !.free = @ - 1] EXCEPT !.at = at, !.now = ok] \in Connection
              /\ [conn[c] EXCEPT !.taken = @ + 1, !.at = at] \in Connection
              /\ [conn[c] EXCEPT !.at = at, !.ready = Append(@, conn[c].now)] \in Connection
              /\ [conn[c] EXCEPT !.link = l] \in Connection
              /\ [conn[c] EXCEPT !.st = "gone", !.out = "none", !.link = l] \in Connection
              /\ [conn[c] EXCEPT !.st = "queued", !.link = l] \in Connection
<1> DEFINE r == conn[c]
<1>1. r \in Connection
  BY DEF SendTypeOK
<1>2. r.taken \in Nat /\ r.free \in Nat /\ r.ready \in Seq(BOOLEAN) /\ r.now \in BOOLEAN /\ <<>> \in Seq(Hash)
  BY <1>1 DEF Connection
<1>3. Append(r.ready, r.now) \in Seq(BOOLEAN)
  BY <1>2, AppendProperties
<1> SUFFICES ASSUME NEW at \in {"reads", "acquires", "opens", "serves", "checks", "sums", "puts", "reports", "tells", "ended"},
                    NEW ok \in BOOLEAN, NEW l \in {"up", "lost", "closed"}
             PROVE  /\ [r EXCEPT !.at = at] \in Connection
                    /\ [r EXCEPT !.at = "sums", !.pre = ok] \in Connection
                    /\ [r EXCEPT !.at = "puts", !.now = ok, !.sum = <<>>, !.pre = FALSE] \in Connection
                    /\ r.free > 0 => /\ [[r EXCEPT !.free = @ - 1] EXCEPT !.at = at] \in Connection
                                     /\ [[r EXCEPT !.free = @ - 1] EXCEPT !.at = at, !.now = ok] \in Connection
                    /\ [r EXCEPT !.taken = @ + 1, !.at = at] \in Connection
                    /\ [r EXCEPT !.at = at, !.ready = Append(@, r.now)] \in Connection
                    /\ [r EXCEPT !.link = l] \in Connection
                    /\ [r EXCEPT !.st = "gone", !.out = "none", !.link = l] \in Connection
                    /\ [r EXCEPT !.st = "queued", !.link = l] \in Connection
  BY <1>1
<1> HIDE DEF r
<1>4. [r EXCEPT !.at = at] \in Connection /\ [r EXCEPT !.at = "sums", !.pre = ok] \in Connection
  BY <1>1 DEF Connection
<1>5. [r EXCEPT !.at = "puts", !.now = ok, !.sum = <<>>, !.pre = FALSE] \in Connection
  BY <1>1, <1>2 DEF Connection
<1>N. \A n \in Nat : /\ [[r EXCEPT !.free = n] EXCEPT !.at = at] \in Connection
                     /\ [[r EXCEPT !.free = n] EXCEPT !.at = at, !.now = ok] \in Connection
                     /\ [r EXCEPT !.taken = n, !.at = at] \in Connection
  BY <1>1 DEF Connection
<1>M. (r.free > 0 => r.free - 1 \in Nat) /\ r.taken + 1 \in Nat
  BY <1>2
<1>6. r.free > 0 => [[r EXCEPT !.free = @ - 1] EXCEPT !.at = at] \in Connection
  BY <1>N, <1>M
<1>7. r.free > 0 => [[r EXCEPT !.free = @ - 1] EXCEPT !.at = at, !.now = ok] \in Connection
  BY <1>N, <1>M
<1>8. [r EXCEPT !.taken = @ + 1, !.at = at] \in Connection
  BY <1>N, <1>M
<1>9. [r EXCEPT !.at = at, !.ready = Append(@, r.now)] \in Connection
  BY <1>1, <1>3 DEF Connection
<1>10. [r EXCEPT !.link = l] \in Connection /\ [r EXCEPT !.st = "gone", !.out = "none", !.link = l] \in Connection
  BY <1>1 DEF Connection
<1>11. [r EXCEPT !.st = "queued", !.link = l] \in Connection
  BY <1>1 DEF Connection
<1> QED
  BY <1>4, <1>5, <1>6, <1>7, <1>8, <1>9, <1>10, <1>11

LEMMA SendTypePreparer ==
  ASSUME SendIInv, NEW c \in Conns,
         Reads(c) \/ Acquire(c) \/ Opens(c) \/ Checks(c) \/ Sums(c) \/ Digests(c) \/ Puts(c) \/ Finishes(c) \/ StoresPartial(c) \/ Tells(c)
  PROVE  SendTypeOK'
<1> USE DEF SendIInv, files, done, bounds, ends
<1>0. SendTypeOK /\ ConnOK(c) /\ conn[c] \in Connection
  BY DEF SendTypeOK
<1>E. ASSUME entry' \in [Items -> FileEntry], NEW r \in Connection, Set(c, r), UNCHANGED <<port, serve, source, served, ahead, hasher, plan>>
      PROVE  SendTypeOK'
  <2>1. conn' \in [Conns -> Connection] /\ port' = port /\ serve' = serve
    BY <1>E, <1>0, SendSet
  <2> QED
    BY <2>1, <1>E, <1>0, SendTypeFrame DEF SendTypeOK
<1>A. /\ conn[c].at \in Answering => Now(c).item \in Items
      /\ entry \in [Items -> FileEntry]
  BY <1>0, SendNow DEF SendTypeOK
<1>1. CASE Reads(c)
  BY <1>1, <1>0, <1>E, <1>A, SendTypeRec DEF Reads, To
<1>2. CASE Acquire(c)
  <2>1. Now(c).item \in Items /\ conn[c].free > 0 /\ UNCHANGED <<port, serve, source, served, ahead, hasher, plan>>
    BY <1>2, <1>A DEF Acquire, Answering
  <2>2. entry' \in [Items -> FileEntry]
    BY <1>2, <2>1, <1>0, SendTypeEntry DEF Acquire, Acquires, SendTypeOK, FileEntry
  <2>3. \E r \in Connection : Set(c, r)
    BY <1>2, <2>1, <1>0, SendTypeRec DEF Acquire, Acquires, First
  <2> QED
    BY <2>1, <2>2, <2>3, <1>E
<1>3. CASE Opens(c)
  <2>1. Now(c).item \in Items /\ UNCHANGED <<port, serve, source, served, ahead, hasher, plan>>
    BY <1>3, <1>A DEF Opens, Answering
  <2>2. entry' \in [Items -> FileEntry]
    BY <1>3, <2>1, <1>0, SendTypeEntry DEF Opens, AtPath
  <2>3. \E r \in Connection : Set(c, r)
    BY <1>3, <2>1, <1>0, SendTypeRec DEF Opens, First, To, Answers
  <2> QED
    BY <2>1, <2>2, <2>3, <1>E
<1>4. CASE Checks(c)
  <2>1. Now(c).item \in Items /\ UNCHANGED <<port, serve, source, served, ahead, hasher, plan>>
    BY <1>4, <1>A DEF Checks, Answering
  <2>2. entry' \in [Items -> FileEntry]
    BY <1>4, <2>1, <1>0, <1>A, SendTypeEntry DEF Checks
  <2>3. \E r \in Connection : Set(c, r)
    BY <1>4, <2>1, <1>0, SendTypeRec DEF Checks, Answers
  <2> QED
    BY <2>1, <2>2, <2>3, <1>E
<1>5. CASE Sums(c)
  <2> DEFINE i == Now(c).item
             k == Len(conn[c].sum)
             h == HashOf(i, k, conn[c].pre)
  <2>1. i \in Items /\ UNCHANGED <<port, serve, entry, source, served, ahead, hasher, plan>> /\ k < ChunksOf[i]
        /\ Set(c, [conn[c] EXCEPT !.sum = Append(@, h)])
    BY <1>5, <1>A DEF Sums, Answering
  <2>2. k \in Index(i)
    BY <2>1, <1>0, ChunksAssumption DEF Index, Connection
  <2>3. h \in Hash
    <3>1. served[i][k] \in Hash /\ {ContentOf(i)} \in Hash
      BY <2>1, <2>2, <1>0 DEF SendTypeOK, ContentOf, Hash
    <3>2. k < ahead[i].upTo => ahead[i].hash[k] \in Hash
      <4>1. ahead[i] \in Ahead(ahead[i].upTo) /\ ahead[i].upTo \in Nat
        BY <2>1, <1>0 DEF SendTypeOK, Ahead
      <4>2. ahead[i].hash \in [0 .. ahead[i].upTo - 1 -> Hash]
        BY <4>1 DEF Ahead
      <4>3. k \in Nat
        BY <1>0 DEF Connection
      <4> QED
        BY <4>1, <4>2, <4>3
    <3> QED
      BY <3>1, <3>2 DEF HashOf
  <2>4. [conn[c] EXCEPT !.sum = Append(@, h)] \in Connection
    <3> HIDE DEF h
    <3>1. conn[c].sum \in Seq(Hash)
      BY <1>0 DEF Connection
    <3>2. Append(conn[c].sum, h) \in Seq(Hash)
      BY <3>1, <2>3, AppendProperties
    <3> QED
      BY <3>2, <1>0 DEF Connection
  <2> QED
    BY <2>1, <2>4, <1>0, SendTypeConn
<1>6. CASE Digests(c)
  <2>1. Now(c).item \in Items /\ UNCHANGED <<port, serve, source, served, ahead, hasher, plan>>
    BY <1>6, <1>A DEF Digests, Answering
  <2>2. entry' \in [Items -> FileEntry]
    BY <1>6, <2>1, <1>0, SendTypeEntry DEF Digests
  <2>3. \E r \in Connection : Set(c, r)
    BY <1>6, <2>1, <1>0, SendTypeRec DEF Digests, Answers, StillUnchanged, Unchanged
  <2> QED
    BY <2>1, <2>2, <2>3, <1>E
<1>7. CASE Puts(c)
  BY <1>7, <1>0, <1>E, <1>A, SendTypeRec DEF Puts
<1>8. CASE Finishes(c)
  BY <1>8, <1>0, <1>E, <1>A, SendTypeRec DEF Finishes, To
<1>9. CASE StoresPartial(c)
  BY <1>9, <1>0, <1>E, <1>A, SendTypeRec DEF StoresPartial, To
<1>10. CASE Tells(c)
  BY <1>10, <1>0, <1>E, <1>A, SendTypeRec DEF Tells, To
<1> QED
  BY <1>1, <1>2, <1>3, <1>4, <1>5, <1>6, <1>7, <1>8, <1>9, <1>10

LEMMA SendTypeWorld ==
  ASSUME SendIInv, NEW c \in Conns, Joins(c) \/ Delivers(c) \/ Writer(c) \/ Asks(c) \/ Loses(c)
  PROVE  SendTypeOK'
<1> USE DEF SendIInv, files, done, bounds, ends
<1>0. SendTypeOK /\ ConnOK(c) /\ conn[c] \in Connection
  BY DEF SendTypeOK
<1>R. \A r \in Connection : Set(c, r) /\ UNCHANGED <<port, serve, entry, source, served, ahead, hasher, plan>> => SendTypeOK'
  BY <1>0, SendTypeConn
<1>1. CASE Joins(c)
  <2>1. [NoConn EXCEPT !.st = "joins"] \in Connection
    <3>1. <<>> \in Seq(Request) /\ <<>> \in Seq(Hash) /\ <<>> \in Seq(BOOLEAN)
      OBVIOUS
    <3> QED
      BY <3>1 DEF NoConn, Connection, Frames
  <2> QED
    BY <1>1, <2>1, <1>R DEF Joins
<1>2. CASE Delivers(c)
  <2>1. port' \in [registered : BOOLEAN, closed : BOOLEAN, done : BOOLEAN, queue : Seq(Conns)]
    <3>1. port.queue \in Seq(Conns) /\ port \in [registered : BOOLEAN, closed : BOOLEAN, done : BOOLEAN, queue : Seq(Conns)]
      BY <1>0 DEF SendTypeOK
    <3>2. Append(port.queue, c) \in Seq(Conns)
      BY <3>1, AppendProperties
    <3> QED
      BY <1>2, <3>1, <3>2 DEF Delivers, Delivered
  <2>2. \E r \in Connection : Set(c, r)
    <3>1. conn[c].link \in {"up", "lost", "closed"}
      BY <1>0 DEF Connection
    <3> QED
      BY <1>2, <1>0, <3>1, SendTypeRec DEF Delivers
  <2>3. conn' \in [Conns -> Connection]
    BY <2>2, <1>0, SendSet
  <2> QED
    BY <1>2, <2>1, <2>3, <1>0, SendTypeFrame DEF Delivers, SendTypeOK
<1>3. CASE Writes(c)
  <2>1. conn[c].ready # <<>> /\ conn[c].ready \in Seq(BOOLEAN) /\ conn[c].asked \in Seq(Request) /\ conn[c].taken \in Nat
    BY <1>3, <1>0 DEF Writes, Writing, Connection
  <2>2. Len(conn[c].ready) > 0 /\ conn[c].taken > 0 /\ conn[c].asked # <<>>
    <3>1. Len(conn[c].ready) \in Nat /\ Len(conn[c].ready) # 0 /\ Len(conn[c].asked) \in Nat
      BY <2>1, EmptySeq, LenProperties
    <3>2. conn[c].taken > 0 /\ Len(conn[c].asked) > 0
      BY <3>1, <2>1, <1>0 DEF ConnOK, RecOK
    <3> QED
      BY <3>1, <3>2
  <2>3. /\ Tail(conn[c].asked) \in Seq(Request) /\ Tail(conn[c].ready) \in Seq(BOOLEAN)
        /\ conn[c].taken - 1 \in Nat /\ conn[c].free + 1 \in Nat
    <3>1. Tail(conn[c].asked) \in Seq(Request) /\ Tail(conn[c].ready) \in Seq(BOOLEAN)
      BY <2>1, <2>2, HeadTailProperties
    <3>2. conn[c].taken - 1 \in Nat /\ conn[c].free + 1 \in Nat
      BY <2>1, <2>2, <1>0 DEF Connection
    <3> QED
      BY <3>1, <3>2
  <2>4. [conn[c] EXCEPT !.asked = Tail(@), !.taken = @ - 1, !.free = @ + 1, !.ready = Tail(@)] \in Connection
    <3> DEFINE ta == Tail(conn[c].asked)
               tr == Tail(conn[c].ready)
               nt == conn[c].taken - 1
               nf == conn[c].free + 1
    <3> HIDE DEF ta, tr, nt, nf
    <3>1. ta \in Seq(Request) /\ tr \in Seq(BOOLEAN) /\ nt \in Nat /\ nf \in Nat
      BY <2>3 DEF ta, tr, nt, nf
    <3>2. [conn[c] EXCEPT !.asked = ta, !.taken = nt, !.free = nf, !.ready = tr] \in Connection
      BY <3>1, <1>0 DEF Connection
    <3> QED
      BY <3>2 DEF ta, tr, nt, nf
  <2> QED
    BY <1>3, <2>4, <1>R DEF Writes
<1>4. CASE WriteFails(c) \/ DropsAnswer(c)
  <2>1. Tail(conn[c].ready) \in Seq(BOOLEAN)
    <3>1. conn[c].ready \in Seq(BOOLEAN) /\ conn[c].ready # <<>>
      BY <1>4, <1>0 DEF WriteFails, DropsAnswer, Writing, Connection
    <3> QED
      BY <3>1, HeadTailProperties
  <2>2. /\ [conn[c] EXCEPT !.out = "drains", !.ready = Tail(@), !.link = "closed"] \in Connection
        /\ [conn[c] EXCEPT !.ready = Tail(@)] \in Connection
    BY <2>1, <1>0 DEF Connection
  <2> QED
    BY <1>4, <2>2, <1>R DEF WriteFails, DropsAnswer, FailsDraining
<1>5. CASE Gone(c)
  <2>1. conn[c].link \in {"up", "lost", "closed"}
    BY <1>0 DEF Connection
  <2>2. \E l \in {"up", "lost", "closed"} : Set(c, [conn[c] EXCEPT !.st = "gone", !.out = "none", !.link = l])
    BY <1>5, <2>1 DEF Gone
  <2> QED
    BY <1>5, <2>2, <1>0, <1>R, SendTypeRec DEF Gone
<1>6. CASE Asks(c)
  <2>1. PICK r \in Request : Set(c, [conn[c] EXCEPT !.asked = Append(@, r)])
    BY <1>6 DEF Asks
  <2>2. [conn[c] EXCEPT !.asked = Append(@, r)] \in Connection
    <3>1. conn[c].asked \in Seq(Request)
      BY <1>0 DEF Connection
    <3>2. Append(conn[c].asked, r) \in Seq(Request)
      BY <3>1, AppendProperties
    <3> QED
      BY <3>2, <1>0 DEF Connection
  <2> QED
    BY <1>6, <2>1, <2>2, <1>R DEF Asks
<1>7. CASE Loses(c)
  BY <1>7, <1>0, <1>R, SendTypeRec DEF Loses, May
<1> QED
  BY <1>1, <1>2, <1>3, <1>4, <1>5, <1>6, <1>7 DEF Writer

LEMMA SendTypeServes ==
  ASSUME SendIInv, NEW c \in Conns, Serves(c)
  PROVE  SendTypeOK'
<1> USE DEF SendIInv, files, done, bounds, ends
<1> DEFINE i == Now(c).item
           k == Now(c).chunk
<1>0. SendTypeOK /\ ConnOK(c) /\ conn[c] \in Connection /\ i \in Items /\ k \in Index(i)
  BY SendNow DEF Serves, SendTypeOK, Answering
<1>1. conn' \in [Conns -> Connection] /\ port' = port /\ serve' = serve /\ plan' = plan /\ source' = source
  <2>1. Set(c, [conn[c] EXCEPT !.at = "puts", !.now = TRUE, !.sum = <<>>, !.pre = FALSE])
    BY DEF Serves, Answers
  <2>2. [conn[c] EXCEPT !.at = "puts", !.now = TRUE, !.sum = <<>>, !.pre = FALSE] \in Connection
    BY <1>0, SendTypeRec
  <2>3. UNCHANGED <<port, serve, plan, source>>
    BY DEF Serves
  <2> QED
    BY <1>0, <2>1, <2>2, <2>3, SendSet
<1>2. entry' \in [Items -> FileEntry]
  BY <1>0, SendTypeEntry DEF Serves
<1>3. /\ served' = [j \in Items |-> served'[j]]
      /\ \A j \in Items : served'[j] \in [Index(j) -> Hash]
  <2>1. {ContentOf(i)} \in Hash
    BY DEF ContentOf, Hash
  <2> QED
    BY <1>0, <2>1 DEF Serves, MarkServed, SendTypeOK
<1>4. CASE UNCHANGED <<ahead, hasher>>
  BY <1>0, <1>1, <1>2, <1>3, <1>4 DEF SendTypeOK, Index
<1>5. CASE /\ k > 0
           /\ ahead' = [ahead EXCEPT ![i] = [upTo |-> k, st |-> "queued", hash |-> [j \in 0 .. k - 1 |-> {}]]]
           /\ hasher' = [hasher EXCEPT !.queue = Append(@, i)]
  <2>1. k \in Nat /\ k <= ChunksOf[i] /\ {} \in Hash
    BY <1>0, ChunksAssumption DEF Index, Hash
  <2>2. [j \in 0 .. k - 1 |-> {}] \in [0 .. k - 1 -> Hash]
    BY <2>1
  <2>3. [upTo |-> k, st |-> "queued", hash |-> [j \in 0 .. k - 1 |-> {}]] \in Ahead(k)
    BY <2>1, <2>2 DEF Ahead
  <2>4. /\ ahead' = [j \in Items |-> ahead'[j]]
        /\ \A j \in Items : ahead'[j] \in Ahead(ahead'[j].upTo) /\ ahead'[j].upTo <= ChunksOf[j]
    BY <1>0, <1>5, <2>1, <2>3 DEF SendTypeOK
  <2>5. Append(hasher.queue, i) \in Seq(Items)
    BY <1>0, AppendProperties DEF SendTypeOK
  <2>6. /\ hasher'.at = hasher.at /\ hasher'.item = hasher.item /\ hasher'.k = hasher.k
        /\ hasher' = [at |-> hasher'.at, item |-> hasher'.item, queue |-> hasher'.queue, k |-> hasher'.k]
        /\ hasher'.queue \in Seq(Items)
    <3> DEFINE q == Append(hasher.queue, i)
    <3> HIDE DEF q
    <3>1. hasher' = [at |-> hasher.at, item |-> hasher.item, queue |-> q, k |-> hasher.k]
      <4>1. hasher = [at |-> hasher.at, item |-> hasher.item, queue |-> hasher.queue, k |-> hasher.k]
        BY <1>0 DEF SendTypeOK
      <4>2. hasher' = [hasher EXCEPT !.queue = q]
        BY <1>5 DEF q
      <4> QED
        BY <4>1, <4>2
    <3> QED
      BY <3>1, <2>5 DEF q
  <2> QED
    BY <1>0, <1>1, <1>2, <1>3, <2>4, <2>6 DEF SendTypeOK
<1> QED
  BY <1>4, <1>5 DEF Serves, MarkServed

\* The steps of the goroutine that hashes ahead: its place, one chunk's hash, or its end.
LEMMA SendTypeHasher ==
  ASSUME SendIInv, Hasher
  PROVE  SendTypeOK'
<1> USE DEF SendIInv, files, done, bounds, ends
<1> DEFINE i == hasher.item
<1>0. /\ SendTypeOK /\ entry \in [Items -> FileEntry]
      /\ hasher = [at |-> hasher.at, item |-> hasher.item, queue |-> hasher.queue, k |-> hasher.k]
      /\ hasher.queue \in Seq(Items) /\ hasher.k \in Nat
      /\ hasher.at \in {"acquires", "opens", "hashes"} => i \in Items
  BY DEF SendTypeOK
<1>F. ASSUME UNCHANGED <<port, serve, conn, source, served, plan>>, entry' \in [Items -> FileEntry],
             ahead' = [j \in Items |-> ahead'[j]],
             \A j \in Items : ahead'[j] \in Ahead(ahead'[j].upTo) /\ ahead'[j].upTo <= ChunksOf[j],
             NEW at \in {"waits", "acquires", "opens", "hashes", "over"}, NEW it, NEW q \in Seq(Items), NEW n \in Nat,
             hasher' = [at |-> at, item |-> it, queue |-> q, k |-> n], at \in {"acquires", "opens", "hashes"} => it \in Items
      PROVE  SendTypeOK'
  BY <1>F, <1>0 DEF SendTypeOK, Index
<1>A. /\ ahead = [j \in Items |-> ahead[j]]
      /\ \A j \in Items : ahead[j] \in Ahead(ahead[j].upTo) /\ ahead[j].upTo <= ChunksOf[j]
  BY <1>0 DEF SendTypeOK
<1>S. ASSUME NEW st \in {"hashed", "failed"}, ahead' = [ahead EXCEPT ![i].st = st], i \in Items
      PROVE  /\ ahead' = [j \in Items |-> ahead'[j]]
             /\ \A j \in Items : ahead'[j] \in Ahead(ahead'[j].upTo) /\ ahead'[j].upTo <= ChunksOf[j]
  <2>1. [ahead[i] EXCEPT !.st = st] \in Ahead(ahead[i].upTo) /\ [ahead[i] EXCEPT !.st = st].upTo = ahead[i].upTo
    BY <1>S, <1>A DEF Ahead
  <2> QED
    BY <1>S, <1>A, <2>1
<1>H. \A at \in {"waits", "acquires", "opens", "hashes", "over"} :
        HasherTo(at) => hasher' = [at |-> at, item |-> i, queue |-> hasher.queue, k |-> hasher.k]
  BY <1>0 DEF HasherTo
<1>1. CASE HasherStarts
  <2>1. hasher.queue # <<>> /\ Head(hasher.queue) \in Items /\ Tail(hasher.queue) \in Seq(Items)
    BY <1>1, <1>0, HeadTailProperties DEF HasherStarts
  <2> QED
    BY <1>1, <1>0, <1>A, <2>1, <1>F DEF HasherStarts
<1>2. CASE HasherStops
  BY <1>2, <1>0, <1>A, <1>H, <1>F DEF HasherStops
<1>3. CASE HasherAcquires
  <2>1. entry' \in [Items -> FileEntry] /\ i \in Items
    BY <1>3, <1>0, SendTypeEntry DEF HasherAcquires, Acquires, FileEntry
  <2>2. \E at \in {"waits", "acquires", "opens", "hashes", "over"} : HasherTo(at)
    BY <1>3 DEF HasherAcquires, Acquires, HasherEnds
  <2>3. UNCHANGED ahead \/ ahead' = [ahead EXCEPT ![i].st = "failed"]
    BY <1>3 DEF HasherAcquires, Acquires, HasherEnds
  <2>4. /\ ahead' = [j \in Items |-> ahead'[j]]
        /\ \A j \in Items : ahead'[j] \in Ahead(ahead'[j].upTo) /\ ahead'[j].upTo <= ChunksOf[j]
    BY <2>1, <2>3, <1>A, <1>S
  <2>5. UNCHANGED <<port, serve, conn, source, served, plan>>
    BY <1>3 DEF HasherAcquires
  <2> QED
    BY <2>1, <2>2, <2>4, <2>5, <1>0, <1>H, <1>F
<1>4. CASE HasherOpens
  <2>1. entry' \in [Items -> FileEntry] /\ i \in Items
    BY <1>4, <1>0, SendTypeEntry DEF HasherOpens, AtPath
  <2>2. \E at \in {"waits", "acquires", "opens", "hashes", "over"} : HasherTo(at)
    BY <1>4 DEF HasherOpens, HasherEnds
  <2>3. UNCHANGED ahead \/ ahead' = [ahead EXCEPT ![i].st = "failed"]
    BY <1>4 DEF HasherOpens, HasherEnds
  <2>4. /\ ahead' = [j \in Items |-> ahead'[j]]
        /\ \A j \in Items : ahead'[j] \in Ahead(ahead'[j].upTo) /\ ahead'[j].upTo <= ChunksOf[j]
    BY <2>1, <2>3, <1>A, <1>S
  <2>5. UNCHANGED <<port, serve, conn, source, served, plan>>
    BY <1>4 DEF HasherOpens
  <2> QED
    BY <2>1, <2>2, <2>4, <2>5, <1>0, <1>H, <1>F
<1>5. CASE Hashes
  <2>1. i \in Items /\ hasher.k < ahead[i].upTo /\ hasher.k + 1 \in Nat /\ hasher' = [at |-> "hashes", item |-> i, queue |-> hasher.queue, k |-> hasher.k + 1]
    BY <1>5, <1>0 DEF Hashes
  <2>2. ahead[i] \in Ahead(ahead[i].upTo) /\ {ContentOf(i)} \in Hash
    BY <2>1, <1>A DEF ContentOf, Hash
  <2>3. [ahead[i] EXCEPT !.hash[hasher.k] = {ContentOf(i)}] \in Ahead(ahead[i].upTo)
    <3> DEFINE h == {ContentOf(i)}
    <3> HIDE DEF h
    <3>1. h \in Hash /\ ahead[i].hash \in [0 .. ahead[i].upTo - 1 -> Hash]
      BY <2>2 DEF h, Ahead
    <3>2. [ahead[i].hash EXCEPT ![hasher.k] = h] \in [0 .. ahead[i].upTo - 1 -> Hash]
      BY <3>1
    <3>3. [ahead[i] EXCEPT !.hash[hasher.k] = h] \in Ahead(ahead[i].upTo)
      BY <3>2, <2>2 DEF Ahead
    <3> QED
      BY <3>3 DEF h
  <2>4. /\ ahead' = [j \in Items |-> ahead'[j]]
        /\ \A j \in Items : ahead'[j] \in Ahead(ahead'[j].upTo) /\ ahead'[j].upTo <= ChunksOf[j]
    <3>1. CASE UNCHANGED ahead
      BY <3>1, <1>A
    <3>2. CASE ahead' = [ahead EXCEPT ![i].hash[hasher.k] = {ContentOf(i)}]
      <4>1. [ahead[i] EXCEPT !.hash[hasher.k] = {ContentOf(i)}].upTo = ahead[i].upTo
        BY <2>2 DEF Ahead
      <4> QED
        BY <3>2, <4>1, <1>A, <2>1, <2>3
    <3> QED
      BY <1>5, <3>1, <3>2 DEF Hashes
  <2>5. UNCHANGED <<port, serve, conn, entry, source, served, plan>>
    BY <1>5 DEF Hashes
  <2> QED
    BY <2>1, <2>4, <2>5, <1>0, <1>F
<1>6. CASE HashedAll
  <2>1. entry' \in [Items -> FileEntry] /\ i \in Items
    BY <1>6, <1>0, SendTypeEntry DEF HashedAll
  <2>2. \E st \in {"hashed", "failed"} : ahead' = [ahead EXCEPT ![i].st = st]
    BY <1>6 DEF HashedAll, HasherEnds
  <2>3. HasherTo("waits") /\ UNCHANGED <<port, serve, conn, source, served, plan>>
    BY <1>6 DEF HashedAll, HasherEnds
  <2> QED
    BY <2>1, <2>2, <2>3, <1>0, <1>A, <1>S, <1>H, <1>F
<1> QED
  BY <1>1, <1>2, <1>3, <1>4, <1>5, <1>6 DEF Hasher

LEMMA SendTypeStep ==
  ASSUME SendIInv, [SendNext]_sendVars
  PROVE  SendTypeOK'
<1> USE DEF files, done, bounds, ends
<1>0. SendTypeOK
  BY DEF SendIInv
<1>1. CASE EndContext \/ Closing \/ Serving
  BY <1>1, SendTypeClosing
<1>2. CASE Ticks \/ IsDone
  BY <1>2, <1>0, SendTypeFrame DEF Ticks, IsDone, SendTypeOK
<1>3. ASSUME NEW i \in Items, Changes(i)
      PROVE  SendTypeOK'
  BY <1>0, <1>3 DEF Changes, May, SendTypeOK, Index
<1>4. CASE UNCHANGED sendVars
  BY <1>4, <1>0, SendTypeFrame DEF sendVars, SendTypeOK
<1>5. ASSUME NEW c \in Conns, Preparer(c)
      PROVE  SendTypeOK'
  BY <1>5, SendTypePreparer, SendTypeServes DEF Preparer
<1> QED
  BY <1>1, <1>2, <1>3, <1>4, <1>5, SendTypeHasher, SendTypeWorld DEF SendNext

-----------------------------------------------------------------------------
(* The queue, and each connection.                                         *)

LEMMA SendQueueFrame ==
  ASSUME SendTypeOK, QueueOK, port'.queue = port.queue, serve' = serve,
         \A d \in Conns : /\ conn[d].st = "queued" => conn'[d].st = "queued"
                          /\ conn'[d].st = "listed" => conn[d].st = "listed"
  PROVE  QueueOK'
<1>1. port.queue \in Seq(Conns)
  BY DEF SendTypeOK
<1> QED
  BY <1>1 DEF QueueOK, Listed

LEMMA SendQueueSet ==
  ASSUME SendTypeOK, QueueOK, port'.queue = port.queue, serve' = serve, NEW c \in Conns, NEW r, Set(c, r),
         conn[c].st = "queued" => r.st = "queued", r.st = "listed" => conn[c].st = "listed"
  PROVE  QueueOK'
BY SendSet, SendQueueFrame

LEMMA SendQueueServing ==
  ASSUME SendIInv, EndContext \/ Closing \/ Serving
  PROVE  QueueOK'
<1> USE DEF SendIInv
<1>0. /\ SendTypeOK /\ QueueOK /\ port.queue \in Seq(Conns) /\ conn \in [Conns -> Connection]
      /\ port \in [registered : BOOLEAN, closed : BOOLEAN, done : BOOLEAN, queue : Seq(Conns)]
      /\ serve \in [at : {"accepts", "lists", "waits", "returned"}, conn : Conns \cup {0}]
  BY DEF SendTypeOK
<1>L. ASSUME NEW cs, conn' = CloseLink(cs)
      PROVE  \A d \in Conns : conn'[d].st = conn[d].st
  BY <1>0, <1>L DEF CloseLink, Connection
<1>T. ASSUME port.queue # <<>>
      PROVE  /\ Head(port.queue) = port.queue[1] /\ Len(port.queue) \in Nat \ {0}
             /\ Len(Tail(port.queue)) = Len(port.queue) - 1
             /\ \A n \in 1 .. Len(Tail(port.queue)) : Tail(port.queue)[n] = port.queue[n + 1] /\ n + 1 \in 1 .. Len(port.queue)
  <2>1. Len(port.queue) \in Nat \ {0} /\ Len(Tail(port.queue)) = Len(port.queue) - 1
        /\ \A n \in 1 .. Len(Tail(port.queue)) : Tail(port.queue)[n] = port.queue[n + 1]
    BY <1>0, <1>T, HeadTailProperties, EmptySeq
  <2>2. Head(port.queue) = port.queue[1]
    BY <1>0, <1>T
  <2>3. \A n \in 1 .. Len(port.queue) - 1 : n + 1 \in 1 .. Len(port.queue)
    BY <2>1
  <2> QED
    BY <2>1, <2>2, <2>3
<1>1. CASE EndContext \/ Quits
  BY <1>1, <1>0, SendQueueFrame DEF EndContext, Quits
<1>2. CASE Refuses \/ Unregisters \/ FailsAccept
  BY <1>2, <1>0, SendQueueFrame DEF Refuses, Unregisters, FailsAccept
<1>3. CASE Drains
  <2>1. CASE port.queue = <<>>
    BY <1>3, <2>1, <1>0, SendQueueFrame DEF Drains
  <2>2. CASE port.queue # <<>>
    <3>1. port'.queue = Tail(port.queue) /\ serve' = serve /\ \A d \in Conns : conn'[d].st = conn[d].st
      <4>1. port'.queue = Tail(port.queue) /\ serve' = serve
        BY <1>3, <2>2, <1>0 DEF Drains
      <4>2. conn' = CloseLink({Head(port.queue)})
        BY <1>3, <2>2 DEF Drains
      <4> QED
        BY <4>1, <4>2, <1>L
    <3>2. \A n \in 1 .. Len(port.queue) : port.queue[n] \in Conns
      BY <1>0
    <3> QED
      BY <3>1, <3>2, <1>T, <2>2, <1>0 DEF QueueOK, Listed
  <2> QED
    BY <2>1, <2>2
<1>4. CASE ClosesConns
  BY <1>4, <1>0, <1>L, SendQueueFrame DEF ClosesConns
<1>5. CASE Accepts
  <2>1. port.queue # <<>> /\ port'.queue = Tail(port.queue) /\ serve' = [at |-> "lists", conn |-> port.queue[1]] /\ conn' = conn
    BY <1>5, <1>T, <1>0 DEF Accepts
  <2>2. 1 \in 1 .. Len(port.queue) /\ port.queue[1] \in Conns
    BY <2>1, <1>T, <1>0
  <2>3. \A n \in 1 .. Len(Tail(port.queue)) : n + 1 # 1 /\ \A m \in 1 .. Len(Tail(port.queue)) : n + 1 = m + 1 => n = m
    BY <2>1, <1>T
  <2> QED
    BY <2>1, <2>2, <2>3, <1>T, <1>0 DEF QueueOK
<1>6. CASE Lists
  <2> DEFINE r == [conn[serve.conn] EXCEPT !.st = "listed", !.at = "reads", !.out = "waits"]
  <2>1. serve.at = "lists" /\ serve.conn \in Conns /\ Set(serve.conn, r) /\ serve' = [at |-> "accepts", conn |-> 0] /\ port' = port
    BY <1>6, <1>0 DEF Lists, QueueOK
  <2>2. \A d \in Conns \ {serve.conn} : conn'[d] = conn[d]
    BY <2>1, <1>0, SendSet
  <2>3. \A n \in 1 .. Len(port.queue) : port.queue[n] \in Conns \ {serve.conn}
    BY <2>1, <1>0 DEF QueueOK
  <2> QED
    BY <2>1, <2>2, <2>3, <1>0 DEF QueueOK
<1>7. CASE StopsAccepting \/ Returns
  <2>1. port' = port /\ conn' = conn /\ serve'.at \in {"waits", "returned"} /\ (serve'.at = "returned" => Listed = {})
    BY <1>7, <1>0 DEF StopsAccepting, Returns
  <2> QED
    BY <2>1, <1>0 DEF QueueOK, Listed
<1> QED
  BY <1>1, <1>2, <1>3, <1>4, <1>5, <1>6, <1>7 DEF Closing, Serving

LEMMA SendQueueWorld ==
  ASSUME SendIInv, NEW c \in Conns, Joins(c) \/ Delivers(c) \/ Writer(c) \/ Asks(c) \/ Loses(c)
  PROVE  QueueOK'
<1> USE DEF SendIInv
<1>0. SendTypeOK /\ QueueOK /\ conn[c] \in Connection /\ port.queue \in Seq(Conns)
      /\ port \in [registered : BOOLEAN, closed : BOOLEAN, done : BOOLEAN, queue : Seq(Conns)]
  BY DEF SendTypeOK
<1>1. CASE Joins(c)
  BY <1>1, <1>0, SendQueueSet DEF Joins, ends, NoConn
<1>2. CASE Delivers(c)
  <2>1. PICK l : Set(c, [conn[c] EXCEPT !.st = "queued", !.link = l])
    BY <1>2 DEF Delivers
  <2>2. conn'[c].st = "queued" /\ conn[c].st = "joins" /\ serve' = serve /\ \A d \in Conns \ {c} : conn'[d] = conn[d]
    <3>1. [conn[c] EXCEPT !.st = "queued", !.link = l].st = "queued"
      BY <1>0, StQueued
    <3>2. /\ conn'[c] = [conn[c] EXCEPT !.st = "queued", !.link = l]
          /\ \A d \in Conns \ {c} : conn'[d] = conn[d]
      BY <1>0, <2>1, SendSet
    <3>3. conn[c].st = "joins" /\ serve' = serve
      BY <1>2 DEF Delivers, ends
    <3> QED
      BY ONLY <3>1, <3>2, <3>3
  <2>3. CASE port' = port
    BY <2>2, <2>3, <1>0 DEF QueueOK, Listed
  <2>4. CASE port'.queue = Append(port.queue, c)
    <3> DEFINE q == Append(port.queue, c)
    <3>1. /\ Len(q) = Len(port.queue) + 1 /\ Len(port.queue) \in Nat
          /\ q[Len(port.queue) + 1] = c /\ \A n \in 1 .. Len(port.queue) : q[n] = port.queue[n] /\ q[n] \in Conns
      BY <1>0, AppendProperties, LenProperties
    <3>2. \A n \in 1 .. Len(port.queue) : q[n] # c
      BY <3>1, <2>2, <1>0 DEF QueueOK
    <3>3. \A n \in 1 .. Len(q) : n \in 1 .. Len(port.queue) \/ n = Len(port.queue) + 1
      BY <3>1
    <3> HIDE DEF q
    <3>4. port'.queue = q
      BY <2>4 DEF q
    <3>5. \A n \in 1 .. Len(q) : conn'[q[n]].st = "queued"
      BY <3>1, <3>2, <3>3, <2>2, <1>0 DEF QueueOK
    <3>6. \A n, m \in 1 .. Len(q) : q[n] = q[m] => n = m
      BY <3>1, <3>2, <3>3, <1>0 DEF QueueOK
    <3>7. serve.at = "lists" => /\ serve.conn \in Conns /\ conn'[serve.conn].st = "queued"
                                /\ \A n \in 1 .. Len(q) : q[n] # serve.conn
      BY <3>1, <3>3, <2>2, <1>0 DEF QueueOK
    <3>8. serve.at = "returned" => Listed' = {}
      BY <2>2, <1>0 DEF QueueOK, Listed
    <3> QED
      BY <3>4, <3>5, <3>6, <3>7, <3>8, <2>2 DEF QueueOK
  <2> QED
    BY <1>2, <2>3, <2>4, <1>0 DEF Delivers, Delivered
<1>3. CASE Writes(c)
  BY <1>3, <1>0, SendQueueSet DEF Writes, Connection, ends
<1>4. CASE WriteFails(c) \/ DropsAnswer(c)
  BY <1>4, <1>0, SendQueueSet DEF WriteFails, DropsAnswer, FailsDraining, Connection, ends
<1>5. CASE Gone(c)
  <2>1. PICK l : Set(c, [conn[c] EXCEPT !.st = "gone", !.out = "none", !.link = l])
    BY <1>5 DEF Gone
  <2>2. [conn[c] EXCEPT !.st = "gone", !.out = "none", !.link = l].st = "gone"
    BY <1>0 DEF Connection
  <2> QED
    BY <1>5, <2>1, <2>2, <1>0, SendQueueSet DEF Gone, ends
<1>6. CASE Asks(c)
  <2>1. PICK r \in Request : Set(c, [conn[c] EXCEPT !.asked = Append(@, r)])
    BY <1>6 DEF Asks
  <2>2. [conn[c] EXCEPT !.asked = Append(@, r)].st = conn[c].st
    BY <1>0 DEF Connection
  <2> QED
    BY <1>6, <2>1, <2>2, <1>0, SendQueueSet DEF Asks, ends
<1>7. CASE Loses(c)
  BY <1>7, <1>0, SendQueueSet DEF Loses, Connection, ends
<1> QED
  BY <1>1, <1>2, <1>3, <1>4, <1>5, <1>6, <1>7 DEF Writer

\* The goroutine that prepares leaves the queue alone, and the connection listed.
LEMMA SendPreparerFrame ==
  ASSUME SendTypeOK, NEW c \in Conns, Preparer(c)
  PROVE  /\ port' = port /\ serve' = serve
         /\ \A d \in Conns \ {c} : conn'[d] = conn[d]
         /\ conn'[c].st = conn[c].st /\ conn'[c].asked = conn[c].asked
<1> USE DEF ends, done, bounds, files
<1>0. conn[c] \in Connection /\ conn \in [Conns -> Connection]
  BY DEF SendTypeOK
<1>R. \A r : Set(c, r) /\ r.st = conn[c].st /\ r.asked = conn[c].asked =>
        /\ \A d \in Conns \ {c} : conn'[d] = conn[d]
        /\ conn'[c].st = conn[c].st /\ conn'[c].asked = conn[c].asked
  BY SendSet
<1>1. CASE Reads(c)
  BY <1>1, <1>0 DEF Set, Reads, To, Connection
<1>2. CASE Acquire(c)
  <2> DEFINE f == [conn[c] EXCEPT !.free = @ - 1]
  <2>1. f \in [st : {conn[c].st}, asked : {conn[c].asked}, link : {conn[c].link}, taken : {conn[c].taken}, at : {conn[c].at}, sum : {conn[c].sum},
               pre : {conn[c].pre}, ready : {conn[c].ready}, out : {conn[c].out}, now : {conn[c].now}, free : {f.free}]
    BY <1>0 DEF Connection
  <2>2. (\E at : Set(c, [f EXCEPT !.at = at])) \/ \E at, ok : Set(c, [f EXCEPT !.at = at, !.now = ok])
    BY <1>2 DEF Acquire, Acquires
  <2>3. UNCHANGED <<port, serve>>
    BY <1>2 DEF Acquire
  <2> HIDE DEF f
  <2>4. \A at, ok : LET r == [f EXCEPT !.at = at]
                        q == [f EXCEPT !.at = at, !.now = ok]
                    IN  r.st = conn[c].st /\ r.asked = conn[c].asked /\ q.st = conn[c].st /\ q.asked = conn[c].asked
    BY <2>1
  <2> QED
    BY <2>2, <2>3, <2>4, <1>R
<1>3. CASE Opens(c)
  <2>1. \A at : LET r == [conn[c] EXCEPT !.at = at]
                    q == [conn[c] EXCEPT !.at = "puts", !.now = FALSE, !.sum = <<>>, !.pre = FALSE]
                IN  r.st = conn[c].st /\ r.asked = conn[c].asked /\ q.st = conn[c].st /\ q.asked = conn[c].asked
    BY <1>0 DEF Connection
  <2>2. To(c, First(c)) \/ Answers(c, FALSE)
    BY <1>3 DEF Opens
  <2>3. UNCHANGED <<port, serve>>
    BY <1>3 DEF Opens
  <2> QED
    BY <2>1, <2>2, <2>3, <1>R DEF To, Answers
<1>4. CASE Checks(c)
  <2>1. \A ok : LET r == [conn[c] EXCEPT !.at = "sums", !.pre = ok]
                    q == [conn[c] EXCEPT !.at = "puts", !.now = ok, !.sum = <<>>, !.pre = FALSE]
                IN  r.st = conn[c].st /\ r.asked = conn[c].asked /\ q.st = conn[c].st /\ q.asked = conn[c].asked
    BY <1>0 DEF Connection
  <2> QED
    BY <1>4, <2>1, <1>R DEF Checks, Answers
<1>5. CASE Sums(c)
  <2>1. PICK h : Set(c, [conn[c] EXCEPT !.sum = Append(@, h)])
    BY <1>5 DEF Sums
  <2>2. \A s : [conn[c] EXCEPT !.sum = s].st = conn[c].st /\ [conn[c] EXCEPT !.sum = s].asked = conn[c].asked
    BY <1>0 DEF Connection
  <2> QED
    BY <1>5, <2>1, <2>2, <1>R DEF Sums
<1>6. CASE Digests(c)
  BY <1>6, <1>0 DEF Set, Digests, Answers, Connection
<1>7. CASE Puts(c)
  <2>1. \A s : LET r == [conn[c] EXCEPT !.at = "reads", !.ready = s] IN r.st = conn[c].st /\ r.asked = conn[c].asked
    BY <1>0 DEF Connection
  <2> QED
    BY <1>7, <2>1, <1>R DEF Puts
<1>8. CASE Finishes(c) \/ StoresPartial(c)
  BY <1>8, <1>0 DEF Set, Finishes, StoresPartial, To, Connection
<1>9. CASE Tells(c)
  BY <1>9, <1>0 DEF Set, Tells, To, Connection
<1>10. CASE Serves(c)
  BY <1>10, <1>0 DEF Set, Serves, Answers, Connection
<1> QED
  BY <1>1, <1>2, <1>3, <1>4, <1>5, <1>6, <1>7, <1>8, <1>9, <1>10 DEF Preparer

LEMMA SendQueueStep ==
  ASSUME SendIInv, [SendNext]_sendVars
  PROVE  QueueOK'
<1>0. SendTypeOK /\ QueueOK
  BY DEF SendIInv
<1>1. CASE EndContext \/ Closing \/ Serving
  BY <1>1, SendQueueServing
<1>2. CASE Hasher \/ Ticks \/ IsDone \/ (\E i \in Items : Changes(i)) \/ UNCHANGED sendVars
  <2>1. port' = port /\ serve' = serve /\ conn' = conn
    BY <1>2 DEF Hasher, HasherStarts, HasherStops, HasherAcquires, HasherOpens, Hashes, HashedAll, Ticks, IsDone, Changes, sendVars, ends
  <2> QED
    BY <2>1, <1>0, SendQueueFrame
<1>3. ASSUME NEW c \in Conns, Preparer(c)
      PROVE  QueueOK'
  <2>1. /\ port' = port /\ serve' = serve
        /\ \A d \in Conns : conn'[d].st = conn[d].st
    BY <1>0, <1>3, SendPreparerFrame
  <2> QED
    BY <1>0, <2>1, SendQueueFrame
<1> QED
  BY <1>1, <1>2, <1>3, SendQueueWorld DEF SendNext

-----------------------------------------------------------------------------
(* What each step of the goroutine that prepares leaves of its connection. *)

AskedKept(c) == conn'[c].asked = conn[c].asked /\ conn'[c].st = conn[c].st
Same(c) == AskedKept(c) /\ conn'[c].sum = (IF conn[c].at = "sums" THEN <<>> ELSE conn[c].sum)
SameTaken(c) == Same(c) /\ conn'[c].taken = conn[c].taken /\ conn'[c].ready = conn[c].ready

LEMMA SendPrepared ==
  ASSUME SendTypeOK, NEW c \in Conns, ConnOK(c)
  PROVE  /\ Reads(c) => /\ conn[c].at = "reads" /\ Same(c) /\ conn'[c].ready = conn[c].ready
                        /\ \/ conn'[c].at = "acquires" /\ conn'[c].taken = conn[c].taken + 1 /\ conn[c].taken < Len(conn[c].asked)
                           \/ conn'[c].at = "ended" /\ conn'[c].taken = conn[c].taken
         /\ Acquire(c) => conn[c].at = "acquires" /\ SameTaken(c) /\ conn'[c].at \in {First(c), "puts", "opens"}
         /\ Opens(c) => conn[c].at = "opens" /\ SameTaken(c) /\ conn'[c].at = IF AtPath(Now(c).item) THEN First(c) ELSE "puts"
         /\ Serves(c) => conn[c].at = "serves" /\ SameTaken(c) /\ conn'[c].at = "puts"
         /\ Checks(c) => conn[c].at = "checks" /\ SameTaken(c)
                         /\ \/ conn'[c].at = "puts" /\ entry' = Released(Now(c).item)
                            \/ conn'[c].at = "sums" /\ entry' = entry /\ conn'[c].pre = (ahead[Now(c).item].st = "hashed")
         /\ Sums(c) => /\ conn[c].at = "sums" /\ AskedKept(c) /\ conn'[c].at = "sums" /\ conn'[c].pre = conn[c].pre
                       /\ conn'[c].taken = conn[c].taken /\ conn'[c].ready = conn[c].ready
                       /\ conn'[c].sum = Append(conn[c].sum, HashOf(Now(c).item, Len(conn[c].sum), conn[c].pre))
         /\ Digests(c) => conn[c].at = "sums" /\ SameTaken(c) /\ conn'[c].at = "puts"
         /\ Puts(c) => /\ conn[c].at = "puts" /\ Same(c) /\ conn'[c].taken = conn[c].taken /\ conn'[c].at = "reads"
                       /\ conn'[c].ready = Append(conn[c].ready, conn[c].now)
         /\ Finishes(c) => conn[c].at = "reads" /\ SameTaken(c) /\ conn'[c].at \in {"ended", "reports"}
         /\ StoresPartial(c) => conn[c].at = "reports" /\ SameTaken(c) /\ conn'[c].at = "tells"
         /\ Tells(c) => conn[c].at = "tells" /\ SameTaken(c) /\ conn'[c].at = "ended"
<1> USE DEF Same, SameTaken, AskedKept
<1>0. conn[c] \in Connection /\ conn \in [Conns -> Connection]
  BY DEF SendTypeOK
<1>S. conn[c].at # "sums" => conn[c].sum = <<>>
  BY DEF ConnOK, RecOK
<1>R. \A r : Set(c, r) => conn'[c] = r
  BY SendSet
<1>T. ASSUME NEW at, To(c, at), conn[c].at # "sums"
      PROVE  SameTaken(c) /\ conn'[c].at = at
  <2>1. conn'[c] = [conn[c] EXCEPT !.at = at]
    BY <1>T, <1>R DEF To
  <2> QED
    BY <2>1, <1>0, <1>T DEF Connection
<1>P. ASSUME NEW ok, Answers(c, ok), conn[c].at = "sums" \/ conn[c].sum = <<>>
      PROVE  SameTaken(c) /\ conn'[c].at = "puts"
  <2>1. conn'[c] = [conn[c] EXCEPT !.at = "puts", !.now = ok, !.sum = <<>>, !.pre = FALSE]
    BY <1>P, <1>R DEF Answers
  <2> QED
    BY <2>1, <1>0, <1>P DEF Connection
<1>1. ASSUME Reads(c)
      PROVE  /\ conn[c].at = "reads" /\ Same(c) /\ conn'[c].ready = conn[c].ready
             /\ \/ conn'[c].at = "acquires" /\ conn'[c].taken = conn[c].taken + 1 /\ conn[c].taken < Len(conn[c].asked)
                \/ conn'[c].at = "ended" /\ conn'[c].taken = conn[c].taken
  <2>1. ASSUME conn'[c] = [conn[c] EXCEPT !.taken = @ + 1, !.at = "acquires"], conn[c].at = "reads"
        PROVE  Same(c) /\ conn'[c].ready = conn[c].ready /\ conn'[c].at = "acquires" /\ conn'[c].taken = conn[c].taken + 1
    BY <2>1, <1>0 DEF Connection
  <2>2. \/ conn[c].taken < Len(conn[c].asked) /\ conn'[c] = [conn[c] EXCEPT !.taken = @ + 1, !.at = "acquires"]
        \/ To(c, "ended")
    BY <1>1, <1>R DEF Reads
  <2>3. conn[c].at = "reads"
    BY <1>1 DEF Reads
  <2> QED
    BY <2>1, <2>2, <2>3, <1>T
<1>2. ASSUME Acquire(c)
      PROVE  conn[c].at = "acquires" /\ SameTaken(c) /\ conn'[c].at \in {First(c), "puts", "opens"}
  <2> DEFINE f == [conn[c] EXCEPT !.free = @ - 1]
  <2>1. f \in [st : {conn[c].st}, asked : {conn[c].asked}, link : {conn[c].link}, taken : {conn[c].taken}, at : {conn[c].at}, sum : {conn[c].sum},
               pre : {conn[c].pre}, ready : {conn[c].ready}, out : {conn[c].out}, now : {conn[c].now}, free : {f.free}]
    BY <1>0 DEF Connection
  <2>2. conn[c].at = "acquires" /\ \/ conn'[c] = [f EXCEPT !.at = First(c)]
                                   \/ conn'[c] = [f EXCEPT !.at = "opens"]
                                   \/ conn'[c] = [f EXCEPT !.at = "puts", !.now = FALSE]
    BY <1>2, <1>R DEF Acquire, Acquires
  <2> HIDE DEF f
  <2> QED
    BY <2>1, <2>2
<1>3. ASSUME Opens(c)
      PROVE  conn[c].at = "opens" /\ SameTaken(c) /\ conn'[c].at = IF AtPath(Now(c).item) THEN First(c) ELSE "puts"
  BY <1>3, <1>S, <1>T, <1>P DEF Opens
<1>4. ASSUME Serves(c)
      PROVE  conn[c].at = "serves" /\ SameTaken(c) /\ conn'[c].at = "puts"
  BY <1>4, <1>S, <1>P DEF Serves
<1>5. ASSUME Checks(c)
      PROVE  /\ conn[c].at = "checks" /\ SameTaken(c)
             /\ \/ conn'[c].at = "puts" /\ entry' = Released(Now(c).item)
                \/ conn'[c].at = "sums" /\ entry' = entry /\ conn'[c].pre = (ahead[Now(c).item].st = "hashed")
  <2> DEFINE ok == ahead[Now(c).item].st = "hashed"
  <2> HIDE DEF ok
  <2>1. ASSUME conn'[c] = [conn[c] EXCEPT !.at = "sums", !.pre = ok]
        PROVE  AskedKept(c) /\ conn'[c].taken = conn[c].taken /\ conn'[c].ready = conn[c].ready
               /\ conn'[c].at = "sums" /\ conn'[c].sum = conn[c].sum /\ conn'[c].pre = ok
    BY <2>1, <1>0 DEF Connection
  <2>2. conn[c].at = "checks" /\ \/ Answers(c, FALSE) /\ entry' = Released(Now(c).item)
                                 \/ conn'[c] = [conn[c] EXCEPT !.at = "sums", !.pre = ok] /\ entry' = entry
    BY <1>5, <1>R DEF Checks, ok
  <2> QED
    BY <2>1, <2>2, <1>S, <1>P DEF ok
<1>6. ASSUME Sums(c)
      PROVE  /\ conn[c].at = "sums" /\ AskedKept(c) /\ conn'[c].at = "sums" /\ conn'[c].pre = conn[c].pre
             /\ conn'[c].taken = conn[c].taken /\ conn'[c].ready = conn[c].ready
             /\ conn'[c].sum = Append(conn[c].sum, HashOf(Now(c).item, Len(conn[c].sum), conn[c].pre))
  <2> DEFINE s == Append(conn[c].sum, HashOf(Now(c).item, Len(conn[c].sum), conn[c].pre))
  <2>1. conn[c].at = "sums" /\ conn'[c] = [conn[c] EXCEPT !.sum = s]
    BY <1>6, <1>R DEF Sums
  <2> HIDE DEF s
  <2>2. AskedKept(c) /\ conn'[c].taken = conn[c].taken /\ conn'[c].ready = conn[c].ready
        /\ conn'[c].at = "sums" /\ conn'[c].sum = s /\ conn'[c].pre = conn[c].pre
    BY <2>1, <1>0 DEF Connection
  <2> QED
    BY <2>1, <2>2 DEF s
<1>7. ASSUME Digests(c)
      PROVE  conn[c].at = "sums" /\ SameTaken(c) /\ conn'[c].at = "puts"
  BY <1>7, <1>P DEF Digests
<1>8. ASSUME Puts(c)
      PROVE  /\ conn[c].at = "puts" /\ Same(c) /\ conn'[c].taken = conn[c].taken /\ conn'[c].at = "reads"
             /\ conn'[c].ready = Append(conn[c].ready, conn[c].now)
  <2> DEFINE s == Append(conn[c].ready, conn[c].now)
  <2>1. conn[c].at = "puts" /\ conn'[c] = [conn[c] EXCEPT !.at = "reads", !.ready = s]
    BY <1>8, <1>R DEF Puts
  <2> HIDE DEF s
  <2>2. Same(c) /\ conn'[c].taken = conn[c].taken /\ conn'[c].at = "reads" /\ conn'[c].ready = s
    BY <2>1, <1>0 DEF Connection
  <2> QED
    BY <2>1, <2>2 DEF s
<1>9. ASSUME Finishes(c)
      PROVE  conn[c].at = "reads" /\ SameTaken(c) /\ conn'[c].at \in {"ended", "reports"}
  BY <1>9, <1>T DEF Finishes
<1>10. ASSUME StoresPartial(c)
       PROVE  conn[c].at = "reports" /\ SameTaken(c) /\ conn'[c].at = "tells"
  BY <1>10, <1>T DEF StoresPartial
<1>11. ASSUME Tells(c)
       PROVE  conn[c].at = "tells" /\ SameTaken(c) /\ conn'[c].at = "ended"
  BY <1>11, <1>T DEF Tells
<1> QED
  BY <1>1, <1>2, <1>3, <1>4, <1>5, <1>6, <1>7, <1>8, <1>9, <1>10, <1>11

LEMMA SendConnPreparer ==
  ASSUME SendIInv, NEW c \in Conns, Preparer(c)
  PROVE  ConnOK(c)'
<1>0. SendTypeOK /\ ConnOK(c) /\ conn[c] \in Connection
  BY DEF SendIInv, SendTypeOK
<1> DEFINE a == conn[c].asked
           t == conn[c].taken
           y == conn[c].ready
<1>1. t \in Nat /\ Len(a) \in Nat /\ Len(y) \in Nat /\ Len(Append(y, conn[c].now)) = Len(y) + 1
  BY <1>0, AppendProperties, LenProperties DEF Connection
<1>2. First(c) = "serves" => a[t].chunk # DigestIndex
  BY DEF First, Now
<1>3. First(c) \in {"serves", "checks"}
  BY DEF First
<1>4. t <= Len(a) /\ Len(y) <= t
      /\ (conn[c].at \in Answering => Len(y) < t)
      /\ (conn[c].at \notin {"none", "ended"} => conn[c].st = "listed")
      /\ (conn[c].at # "sums" => conn[c].sum = <<>>)
  BY <1>0 DEF ConnOK, RecOK
<1> HIDE DEF a, t, y
<1>5. CASE Reads(c)
  <2>1. /\ conn[c].at = "reads" /\ conn'[c].asked = a /\ conn'[c].st = conn[c].st /\ conn'[c].ready = y
        /\ conn'[c].sum = <<>>
        /\ \/ conn'[c].at = "acquires" /\ conn'[c].taken = t + 1 /\ t < Len(a)
           \/ conn'[c].at = "ended" /\ conn'[c].taken = t
    BY <1>5, <1>0, <1>4, SendPrepared DEF Same, AskedKept, a, t, y
  <2>2. conn[c].st = "listed"
    BY <2>1, <1>4
  <2>3. conn'[c].taken <= Len(a) /\ Len(y) <= conn'[c].taken /\ (conn'[c].at \in Answering => Len(y) < conn'[c].taken)
    BY <2>1, <1>1, <1>4 DEF Answering
  <2> QED
    BY <2>1, <2>2, <2>3 DEF ConnOK, RecOK
<1>6. ASSUME SameTaken(c), conn[c].at \in Answering, conn'[c].at \in {"opens", "puts", "checks", "sums", "serves"},
             conn'[c].at = "serves" => a[t].chunk # DigestIndex
      PROVE  ConnOK(c)'
  BY <1>6, <1>4 DEF ConnOK, RecOK, SameTaken, Same, AskedKept, Answering, a, t, y
<1>7. CASE Acquire(c) \/ Opens(c)
  BY <1>7, <1>0, <1>2, <1>3, <1>6, SendPrepared DEF Answering
<1>8. CASE Serves(c) \/ Checks(c) \/ Digests(c)
  BY <1>8, <1>0, <1>6, SendPrepared DEF Answering
<1>11. CASE Sums(c)
  <2>1. /\ conn[c].at = "sums" /\ AskedKept(c) /\ conn'[c].at = "sums"
        /\ conn'[c].taken = conn[c].taken /\ conn'[c].ready = conn[c].ready
    BY <1>11, <1>0, SendPrepared
  <2> QED
    BY <2>1, <1>4 DEF ConnOK, RecOK, AskedKept, Answering, a, t, y
<1>9. CASE Puts(c)
  BY <1>9, <1>0, <1>1, <1>4, SendPrepared DEF ConnOK, RecOK, Same, AskedKept, Answering, a, t, y
<1>10. CASE Finishes(c) \/ StoresPartial(c) \/ Tells(c)
  <2>1. SameTaken(c) /\ conn[c].at \in {"reads", "reports", "tells"} /\ conn'[c].at \in {"ended", "reports", "tells"}
    BY <1>10, <1>0, SendPrepared
  <2> QED
    BY <2>1, <1>4 DEF ConnOK, RecOK, SameTaken, Same, AskedKept, Answering, a, t, y
<1> QED
  BY <1>5, <1>7, <1>8, <1>9, <1>10, <1>11 DEF Preparer

\* What the others do to a connection: nothing its goroutine that prepares would see, but that the
\* requests answered go from the front.
WorkKept(c) ==
  /\ conn'[c].at = conn[c].at /\ conn'[c].sum = conn[c].sum /\ conn'[c].pre = conn[c].pre
  /\ conn[c].at \in Answering => Now(c)' = Now(c)

LEMMA SendWriter ==
  ASSUME SendIInv, NEW c \in Conns, Writer(c) \/ Asks(c) \/ Loses(c) \/ Delivers(c)
  PROVE  ConnOK(c)' /\ WorkKept(c)
<1>0. SendTypeOK /\ ConnOK(c) /\ conn[c] \in Connection
  BY DEF SendIInv, SendTypeOK
<1> DEFINE a == conn[c].asked
           t == conn[c].taken
           y == conn[c].ready
<1>1. t \in Nat /\ Len(a) \in Nat /\ Len(y) \in Nat /\ a \in Seq(Request) /\ y \in Seq(BOOLEAN)
  BY <1>0, LenProperties DEF Connection
<1>4. t <= Len(a) /\ Len(y) <= t
      /\ (conn[c].at \in Answering => Len(y) < t)
      /\ (conn[c].at \notin {"none", "ended"} => conn[c].st = "listed")
      /\ (conn[c].at = "serves" => a[t].chunk # DigestIndex)
      /\ (conn[c].at # "sums" => conn[c].sum = <<>>)
  BY <1>0 DEF ConnOK, RecOK
<1>R. \A r : Set(c, r) => conn'[c] = r
  BY <1>0, SendSet
<1> HIDE DEF a, t, y
<1>T. y # <<>> => Len(Tail(y)) = Len(y) - 1 /\ Len(y) > 0
  BY <1>1, HeadTailProperties, EmptySeq
<1>A. a # <<>> => /\ Len(Tail(a)) = Len(a) - 1 /\ Len(a) > 0
                  /\ \A n \in 1 .. Len(a) - 1 : Tail(a)[n] = a[n + 1]
  BY <1>1, HeadTailProperties, EmptySeq
<1>2. CASE Writes(c)
  <2> DEFINE r == [conn[c] EXCEPT !.asked = Tail(@), !.taken = @ - 1, !.free = @ + 1, !.ready = Tail(@)]
  <2>1. /\ r.asked = Tail(a) /\ r.taken = t - 1 /\ r.ready = Tail(y) /\ r.at = conn[c].at /\ r.st = conn[c].st
        /\ r.sum = conn[c].sum /\ r.pre = conn[c].pre
    BY <1>0 DEF Connection, a, t, y
  <2>2. conn'[c] = r /\ y # <<>>
    BY <1>2, <1>R DEF Writes, Writing, y
  <2> HIDE DEF r
  <2>3. Len(y) > 0 /\ t > 0 /\ a # <<>>
    <3>1. Len(y) > 0 /\ t > 0 /\ Len(a) > 0
      BY <2>2, <1>T, <1>1, <1>4
    <3> QED
      BY <3>1, <1>1
  <2>4. conn[c].at \in Answering => Tail(a)[t - 1] = a[t]
    BY <2>2, <2>3, <1>T, <1>A, <1>1, <1>4
  <2>5. RecOK(r)
    BY <2>1, <2>2, <2>3, <2>4, <1>T, <1>A, <1>1, <1>4 DEF RecOK, Answering
  <2>6. WorkKept(c)
    BY <2>1, <2>2, <2>4 DEF WorkKept, Now, a, t
  <2> QED
    BY <2>2, <2>5, <2>6 DEF ConnOK
<1>3. CASE WriteFails(c) \/ DropsAnswer(c)
  <2>1. \E r : /\ conn'[c] = r /\ r.asked = a /\ r.taken = t /\ r.ready = Tail(y) /\ r.at = conn[c].at /\ r.st = conn[c].st
               /\ r.sum = conn[c].sum /\ r.pre = conn[c].pre /\ y # <<>>
    <3>1. LET r == [conn[c] EXCEPT !.out = "drains", !.ready = Tail(@), !.link = "closed"]
              q == [conn[c] EXCEPT !.ready = Tail(@)]
          IN  /\ r.asked = a /\ r.taken = t /\ r.ready = Tail(y) /\ r.at = conn[c].at /\ r.st = conn[c].st
              /\ r.sum = conn[c].sum /\ r.pre = conn[c].pre
              /\ q.asked = a /\ q.taken = t /\ q.ready = Tail(y) /\ q.at = conn[c].at /\ q.st = conn[c].st
              /\ q.sum = conn[c].sum /\ q.pre = conn[c].pre
      BY <1>0 DEF Connection, a, t, y
    <3> QED
      BY <1>3, <3>1, <1>R DEF WriteFails, DropsAnswer, Writing, FailsDraining, y
  <2> QED
    BY <2>1, <1>T, <1>1, <1>4 DEF ConnOK, RecOK, WorkKept, Now, a, t, y, Answering
<1>5. CASE Gone(c)
  <2>1. PICK l : Set(c, [conn[c] EXCEPT !.st = "gone", !.out = "none", !.link = l])
    BY <1>5 DEF Gone
  <2>2. LET r == [conn[c] EXCEPT !.st = "gone", !.out = "none", !.link = l]
        IN  r.asked = a /\ r.taken = t /\ r.ready = y /\ r.at = conn[c].at /\ r.sum = conn[c].sum /\ r.pre = conn[c].pre
    BY <1>0 DEF Connection, a, t, y
  <2>3. conn[c].at = "ended"
    BY <1>5 DEF Gone
  <2> QED
    BY <2>1, <2>2, <2>3, <1>R, <1>4 DEF ConnOK, RecOK, WorkKept, Answering
<1>6. CASE Asks(c)
  <2>1. PICK q \in Request : Set(c, [conn[c] EXCEPT !.asked = Append(@, q)])
    BY <1>6 DEF Asks
  <2> DEFINE b == Append(a, q)
  <2>2. Len(b) = Len(a) + 1 /\ \A n \in 1 .. Len(a) : b[n] = a[n]
    BY <1>1, AppendProperties
  <2>5. conn'[c] = [conn[c] EXCEPT !.asked = b]
    BY <2>1, <1>R DEF a
  <2> HIDE DEF b
  <2>3. /\ conn'[c].asked = b /\ conn'[c].taken = t /\ conn'[c].ready = y /\ conn'[c].at = conn[c].at /\ conn'[c].st = conn[c].st
        /\ conn'[c].sum = conn[c].sum /\ conn'[c].pre = conn[c].pre
    BY <2>5, <1>0 DEF Connection, a, t, y
  <2>4. conn[c].at \in Answering => b[t] = a[t]
    BY <2>2, <1>1, <1>4
  <2> QED
    BY <2>2, <2>3, <2>4, <1>1, <1>4 DEF ConnOK, RecOK, WorkKept, Now, Answering, a, t, y
<1>7. CASE Loses(c)
  <2>1. LET r == [conn[c] EXCEPT !.link = "lost"]
        IN  /\ r.asked = a /\ r.taken = t /\ r.ready = y /\ r.at = conn[c].at /\ r.st = conn[c].st
            /\ r.sum = conn[c].sum /\ r.pre = conn[c].pre
    BY <1>0 DEF Connection, a, t, y
  <2> QED
    BY <1>7, <2>1, <1>R, <1>4 DEF Loses, ConnOK, RecOK, WorkKept, Now, Answering, a, t, y
<1>8. CASE Delivers(c)
  <2>1. PICK l : Set(c, [conn[c] EXCEPT !.st = "queued", !.link = l])
    BY <1>8 DEF Delivers
  <2>2. LET r == [conn[c] EXCEPT !.st = "queued", !.link = l]
        IN  r.asked = a /\ r.taken = t /\ r.ready = y /\ r.at = conn[c].at /\ r.sum = conn[c].sum /\ r.pre = conn[c].pre
    BY <1>0 DEF Connection, a, t, y
  <2>3. conn[c].at \in {"none", "ended"}
    BY <1>8, <1>4 DEF Delivers
  <2> QED
    BY <2>1, <2>2, <2>3, <1>R, <1>4 DEF ConnOK, RecOK, WorkKept, Answering
<1> QED
  BY <1>2, <1>3, <1>5, <1>6, <1>7, <1>8 DEF Writer

LEMMA SendCloseLink ==
  ASSUME SendIInv, NEW cs, conn' = CloseLink(cs), NEW c \in Conns
  PROVE  ConnOK(c)' /\ WorkKept(c)
<1>1. conn[c] \in Connection /\ ConnOK(c)
  BY DEF SendIInv, SendTypeOK
<1>2. conn'[c] = conn[c] \/ conn'[c] = [conn[c] EXCEPT !.link = "closed"]
  BY DEF CloseLink
<1>3. /\ conn'[c].asked = conn[c].asked /\ conn'[c].taken = conn[c].taken /\ conn'[c].ready = conn[c].ready /\ conn'[c].at = conn[c].at
      /\ conn'[c].st = conn[c].st /\ conn'[c].sum = conn[c].sum /\ conn'[c].pre = conn[c].pre
  BY <1>1, <1>2 DEF Connection
<1> QED
  BY <1>1, <1>3 DEF ConnOK, RecOK, WorkKept, Now

\* What a step leaves of the work of each connection.
Calm(c) == WorkKept(c) \/ (conn[c].at \in {"none", "ended"} /\ conn'[c].at \in {"none", "ended", "reads"})

LEMMA SendConnServing ==
  ASSUME SendIInv, EndContext \/ Closing \/ Serving \/ Hasher \/ Ticks \/ IsDone \/ (\E i \in Items : Changes(i)) \/ UNCHANGED sendVars,
         NEW c \in Conns
  PROVE  ConnOK(c)' /\ Calm(c)
<1>0. SendTypeOK /\ conn[c] \in Connection /\ ConnOK(c) /\ QueueOK
  BY DEF SendIInv, SendTypeOK
<1>U. ASSUME UNCHANGED conn
      PROVE  ConnOK(c)' /\ Calm(c)
  BY <1>U, <1>0 DEF ConnOK, RecOK, Calm, WorkKept, Now
<1>1. CASE EndContext \/ Quits \/ Refuses \/ Unregisters \/ FailsAccept \/ Accepts \/ StopsAccepting \/ Returns \/ Hasher
           \/ Ticks \/ IsDone \/ (\E i \in Items : Changes(i)) \/ UNCHANGED sendVars
  <2>1. UNCHANGED conn
    BY <1>1 DEF EndContext, Quits, Refuses, Unregisters, FailsAccept, Accepts, StopsAccepting, Returns, Ticks, IsDone, Changes, sendVars,
         Hasher, HasherStarts, HasherStops, HasherAcquires, HasherOpens, Hashes, HashedAll
  <2> QED
    BY <2>1, <1>U
<1>2. CASE Drains \/ ClosesConns
  <2>1. UNCHANGED conn \/ \E cs : conn' = CloseLink(cs)
    BY <1>2 DEF Drains, ClosesConns
  <2> QED
    BY <2>1, <1>U, SendCloseLink DEF Calm
<1>3. CASE Lists
  <2> DEFINE d == serve.conn
             r == [conn[d] EXCEPT !.st = "listed", !.at = "reads", !.out = "waits"]
  <2>1. d \in Conns /\ conn[d].st = "queued" /\ conn'[d] = r /\ \A e \in Conns \ {d} : conn'[e] = conn[e]
    BY <1>3, <1>0, SendSet DEF Lists, QueueOK
  <2>2. CASE c # d
    BY <2>1, <2>2, <1>0 DEF ConnOK, RecOK, Calm, WorkKept, Now
  <2>3. CASE c = d
    <3>1. /\ r.asked = conn[c].asked /\ r.taken = conn[c].taken /\ r.ready = conn[c].ready /\ r.sum = conn[c].sum
          /\ r.at = "reads" /\ r.st = "listed"
      BY <2>3, <1>0 DEF Connection
    <3> QED
      BY <3>1, <2>1, <2>3, <1>0 DEF ConnOK, RecOK, Calm, Answering
  <2> QED
    BY <2>2, <2>3
<1> QED
  BY <1>1, <1>2, <1>3 DEF Closing, Serving

LEMMA SendJoins ==
  ASSUME SendIInv, NEW c \in Conns, Joins(c)
  PROVE  ConnOK(c)' /\ Calm(c)
<1>0. SendTypeOK /\ conn[c] \in Connection /\ ConnOK(c)
  BY DEF SendIInv, SendTypeOK
<1>1. conn'[c] = [NoConn EXCEPT !.st = "joins"] /\ conn[c].at \in {"none", "ended"}
  BY <1>0, SendSet DEF Joins, ConnOK, RecOK
<1>2. /\ conn'[c].asked = <<>> /\ conn'[c].taken = 0 /\ conn'[c].ready = <<>> /\ conn'[c].sum = <<>> /\ conn'[c].at = "none"
  BY <1>1 DEF NoConn
<1> QED
  BY <1>1, <1>2 DEF ConnOK, RecOK, Calm, Answering

\* A connection's own step leaves the others as they are.
LEMMA SendOthers ==
  ASSUME SendTypeOK, NEW c \in Conns, Joins(c) \/ Delivers(c) \/ Preparer(c) \/ Writer(c) \/ Asks(c) \/ Loses(c), NEW d \in Conns \ {c}
  PROVE  conn'[d] = conn[d]
<1>1. CASE Preparer(c)
  BY <1>1, SendPreparerFrame
<1>2. CASE Joins(c) \/ Delivers(c) \/ Writer(c) \/ Asks(c) \/ Loses(c)
  <2>1. \E r : Set(c, r)
    BY <1>2 DEF Joins, Delivers, Writer, Writes, WriteFails, FailsDraining, DropsAnswer, Gone, Asks, Loses
  <2> QED
    BY <2>1, SendSet
<1> QED
  BY <1>1, <1>2

LEMMA SendConnStep ==
  ASSUME SendIInv, [SendNext]_sendVars
  PROVE  \A c \in Conns : ConnOK(c)'
<1> TAKE c \in Conns
<1>1. CASE EndContext \/ Closing \/ Serving \/ Hasher \/ Ticks \/ IsDone \/ (\E i \in Items : Changes(i)) \/ UNCHANGED sendVars
  BY <1>1, SendConnServing
<1>2. ASSUME NEW d \in Conns, Joins(d) \/ Delivers(d) \/ Preparer(d) \/ Writer(d) \/ Asks(d) \/ Loses(d)
      PROVE  ConnOK(c)'
  <2>1. CASE d = c
    BY <1>2, <2>1, SendJoins, SendWriter, SendConnPreparer
  <2>2. CASE d # c
    BY <1>2, <2>2, SendOthers DEF SendIInv, ConnOK
  <2> QED
    BY <2>1, <2>2
<1> QED
  BY <1>1, <1>2 DEF SendNext

-----------------------------------------------------------------------------
(* The hashes.                                                             *)

\* The hashes ahead of an item are never given up, nor those it has.
Grows ==
  \A i \in Items : ahead[i].st # "none" => /\ ahead'[i].st # "none" /\ ahead'[i].upTo = ahead[i].upTo
                                           /\ \A k \in 0 .. ahead[i].upTo - 1 : /\ served[i][k] # {} => served'[i][k] # {}
                                                                                /\ ahead[i].hash[k] # {} => ahead'[i].hash[k] # {}

LEMMA SendGrows ==
  ASSUME Grows, NEW i \in Items, ahead[i].st # "none"
  PROVE  ahead'[i].st # "none" /\ (Filled(i) => Filled(i)')
BY DEF Grows, Filled

LEMMA SendSumKept ==
  ASSUME SendIInv, Grows, source' = source \/ (\E i \in Items : Changes(i)), NEW c \in Conns, Calm(c) \/ conn'[c].at # "sums"
  PROVE  SumOK(c)'
<1>1. SUFFICES ASSUME conn'[c].at = "sums"
               PROVE  SumOK(c)'
  BY DEF SumOK
<1>2. /\ conn[c].at = "sums" /\ Now(c)' = Now(c) /\ conn'[c].sum = conn[c].sum /\ conn'[c].pre = conn[c].pre
  BY <1>1 DEF Calm, WorkKept, Answering
<1>3. Now(c).item \in Items /\ SumOK(c)
  BY <1>2, SendNow DEF SendIInv, SendHashes, Answering
<1> PICK i \in Items : i = Now(c).item
  BY <1>3
<1>4. Unchanged(i)' => Unchanged(i)
  <2>1. ASSUME NEW j \in Items, Changes(j)
        PROVE  source'[i] = source[i] \/ source[i] = "offered"
    BY <2>1 DEF Changes, SendIInv, SendTypeOK
  <2> QED
    BY <2>1 DEF Unchanged
<1>5. ahead[i].st # "none" => ahead'[i].st # "none" /\ (Filled(i) => Filled(i)')
  BY SendGrows
<1>6. /\ conn[c].pre => ahead[i].st # "none" /\ Filled(i)
      /\ Unchanged(i) => \A n \in 1 .. Len(conn[c].sum) : conn[c].sum[n] = {0}
  BY <1>2, <1>3 DEF SumOK
<1>7. /\ conn'[c].pre => ahead'[i].st # "none" /\ Filled(i)'
      /\ Unchanged(i)' => \A n \in 1 .. Len(conn'[c].sum) : conn'[c].sum[n] = {0}
  BY <1>2, <1>4, <1>5, <1>6
<1>8. Now(c)'.item = i
  BY <1>2
<1> QED
  BY <1>7, <1>8 DEF SumOK, Filled, Unchanged

\* A step that leaves the hashes alone.
LEMMA SendHashFrame ==
  ASSUME SendIInv, source' = source \/ (\E i \in Items : Changes(i)), UNCHANGED <<served, ahead, hasher>>
  PROVE  Grows /\ (\A i \in Items : HashesOK(i)') /\ HasherOK'
<1>1. \A i \in Items : Unchanged(i)' => Unchanged(i)
  <2>1. ASSUME NEW j \in Items, Changes(j), NEW i \in Items
        PROVE  source'[i] = source[i] \/ source[i] = "offered"
    BY <2>1 DEF Changes, SendIInv, SendTypeOK
  <2> QED
    BY <2>1 DEF Unchanged
<1>2. Grows
  BY DEF Grows
<1>3. \A i \in Items : HashesOK(i)'
  BY <1>1 DEF SendIInv, SendHashes, HashesOK, Filled, Index
<1>4. HasherOK'
  BY DEF SendIInv, SendHashes, HasherOK
<1> QED
  BY <1>2, <1>3, <1>4

LEMMA SendHashServes ==
  ASSUME SendIInv, NEW c \in Conns, Serves(c)
  PROVE  Grows /\ (\A j \in Items : HashesOK(j)') /\ HasherOK'
<1>0. SendTypeOK /\ ConnOK(c) /\ conn[c].at = "serves" /\ Now(c).item \in Items /\ Now(c).chunk \in Index(Now(c).item)
  BY SendNow DEF SendIInv, Serves, Answering
<1> PICK i \in Items : i = Now(c).item
  BY <1>0
<1> PICK k \in Index(i) : k = Now(c).chunk
  BY <1>0
<1>1. /\ UNCHANGED source
      /\ served' = [served EXCEPT ![i] = [@ EXCEPT ![k] = {ContentOf(i)}]]
      /\ IF (\A j \in Index(i) : served[i][j] = {}) /\ k > 0
         THEN /\ ahead' = [ahead EXCEPT ![i] = [upTo |-> k, st |-> "queued", hash |-> [j \in 0 .. k - 1 |-> {}]]]
              /\ hasher' = [hasher EXCEPT !.queue = Append(@, i)]
         ELSE UNCHANGED <<ahead, hasher>>
  BY DEF Serves, MarkServed
<1>2. /\ served'[i][k] = {ContentOf(i)} /\ \A n \in Index(i) \ {k} : served'[i][n] = served[i][n]
      /\ \A j \in Items \ {i} : served'[j] = served[j]
  BY <1>0, <1>1 DEF SendTypeOK
<1>3. \A j \in Items : \A n \in Index(j) : served[j][n] # {} => served'[j][n] # {}
  BY <1>2
<1>4. \A j \in Items : /\ Unchanged(j)' = Unchanged(j)
                       /\ Unchanged(j) => \A n \in Index(j) : served'[j][n] \subseteq {0}
  <2>1. Unchanged(i) => ContentOf(i) = 0
    BY DEF Unchanged, ContentOf
  <2>2. \A j \in Items : Unchanged(j) => \A n \in Index(j) : served[j][n] \subseteq {0}
    BY DEF SendIInv, SendHashes, HashesOK
  <2>3. \A j \in Items : Unchanged(j)' = Unchanged(j)
    BY <1>1 DEF Unchanged
  <2>4. Unchanged(i) => served'[i][k] \subseteq {0}
    BY <1>2, <2>1
  <2> QED
    BY <1>2, <2>2, <2>3, <2>4
<1>5. \A j \in Items : \A n \in 0 .. ahead[j].upTo - 1 : n \in Index(j)
  BY <1>0, ChunksAssumption DEF SendTypeOK, Ahead, Index
<1>6. CASE UNCHANGED <<ahead, hasher>>
  <2>1. Grows
    BY <1>3, <1>5, <1>6 DEF Grows
  <2>2. \A j \in Items : HashesOK(j)'
    <3> TAKE j \in Items
    <3>1. HashesOK(j)
      BY DEF SendIInv, SendHashes
    <3>2. Filled(j) => Filled(j)'
      BY <1>3, <1>5, <1>6 DEF Filled
    <3>3. (\E n \in Index(j) : served[j][n] # {}) => \E n \in Index(j) : served'[j][n] # {}
      BY <1>3
    <3> QED
      BY <3>1, <3>2, <3>3, <1>4, <1>6 DEF HashesOK, Index
  <2>3. HasherOK'
    <3>1. hasher.at \in {"acquires", "opens", "hashes"} =>
            hasher.item \in Items /\ hasher.k \in Nat /\ \A n \in 0 .. hasher.k - 1 : hasher.k <= ahead[hasher.item].upTo => n \in 0 .. ahead[hasher.item].upTo - 1
      BY <1>0 DEF SendTypeOK, Ahead
    <3> QED
      BY <1>3, <1>5, <1>6, <3>1 DEF SendIInv, SendHashes, HasherOK
  <2> QED
    BY <2>1, <2>2, <2>3
<1>7. CASE /\ \A j \in Index(i) : served[i][j] = {}
           /\ ahead' = [ahead EXCEPT ![i] = [upTo |-> k, st |-> "queued", hash |-> [j \in 0 .. k - 1 |-> {}]]]
           /\ hasher' = [hasher EXCEPT !.queue = Append(@, i)]
  <2>0. ahead[i].st = "none"
    BY <1>7 DEF SendIInv, SendHashes, HashesOK
  <2>1. /\ ahead'[i].upTo = k /\ ahead'[i].st = "queued" /\ \A n \in 0 .. k - 1 : ahead'[i].hash[n] = {}
        /\ \A j \in Items \ {i} : ahead'[j] = ahead[j]
    BY <1>0, <1>7 DEF SendTypeOK
  <2>2. Grows
    BY <1>3, <1>5, <2>0, <2>1 DEF Grows
  <2>3. \A j \in Items : HashesOK(j)'
    <3> TAKE j \in Items
    <3>1. CASE j = i
      BY <3>1, <1>2, <1>4, <2>1 DEF HashesOK, Index
    <3>2. CASE j # i
      BY <3>2, <1>2, <1>4, <2>1 DEF SendIInv, SendHashes, HashesOK, Filled, Index
    <3> QED
      BY <3>1, <3>2
  <2>4. HasherOK'
    <3> DEFINE q == Append(hasher.queue, i)
    <3>1. hasher.queue \in Seq(Items) /\ Len(hasher.queue) \in Nat /\ hasher = [at |-> hasher.at, item |-> hasher.item, queue |-> hasher.queue, k |-> hasher.k]
      BY <1>0 DEF SendTypeOK
    <3>2. /\ Len(q) = Len(hasher.queue) + 1 /\ q[Len(hasher.queue) + 1] = i
          /\ \A n \in 1 .. Len(hasher.queue) : q[n] = hasher.queue[n]
      BY <3>1, AppendProperties
    <3>3. \A n \in 1 .. Len(hasher.queue) : hasher.queue[n] \in Items /\ ahead[hasher.queue[n]].st # "none"
      BY <3>1 DEF SendIInv, SendHashes, HasherOK
    <3> HIDE DEF q
    <3>4. hasher' = [hasher EXCEPT !.queue = q]
      BY <1>7 DEF q
    <3>5. hasher'.queue = q /\ hasher'.at = hasher.at /\ hasher'.item = hasher.item /\ hasher'.k = hasher.k
      BY <3>4, <3>1
    <3>6. \A n \in 1 .. Len(q) : ahead'[q[n]].st # "none"
      BY <3>1, <3>2, <3>3, <2>1
    <3>7. hasher.at \in {"acquires", "opens", "hashes"} =>
            hasher.item \in Items \ {i} /\ ahead'[hasher.item] = ahead[hasher.item] /\ served'[hasher.item] = served[hasher.item]
      BY <1>0, <1>2, <2>0, <2>1 DEF SendTypeOK, SendIInv, SendHashes, HasherOK
    <3> QED
      BY <3>5, <3>6, <3>7 DEF SendIInv, SendHashes, HasherOK
  <2> QED
    BY <2>2, <2>3, <2>4
<1> QED
  BY <1>1, <1>6, <1>7

\* The goroutine that hashes ahead.
LEMMA SendHashHasher ==
  ASSUME SendIInv, Hasher
  PROVE  Grows /\ (\A j \in Items : HashesOK(j)') /\ HasherOK'
<1>0. /\ SendTypeOK /\ HasherOK /\ \A j \in Items : HashesOK(j)
  BY DEF SendIInv, SendHashes
<1>1. UNCHANGED <<source, served>>
  BY DEF Hasher, HasherStarts, HasherStops, HasherAcquires, HasherOpens, Hashes, HashedAll
<1>2. /\ ahead = [j \in Items |-> ahead[j]]
      /\ \A j \in Items : /\ ahead[j] = [upTo |-> ahead[j].upTo, st |-> ahead[j].st, hash |-> ahead[j].hash]
                          /\ ahead[j].upTo \in Nat /\ ahead[j].upTo <= ChunksOf[j] /\ ahead[j].hash \in [0 .. ahead[j].upTo - 1 -> Hash]
      /\ hasher = [at |-> hasher.at, item |-> hasher.item, queue |-> hasher.queue, k |-> hasher.k]
      /\ hasher.queue \in Seq(Items) /\ hasher.k \in Nat
      /\ hasher.at \in {"acquires", "opens", "hashes"} => hasher.item \in Items
  BY <1>0 DEF SendTypeOK, Ahead
<1>3. \A n \in 1 .. Len(hasher.queue) : hasher.queue[n] \in Items
  BY <1>2
\* Its place only.
<1>P. ASSUME UNCHANGED ahead, hasher'.queue = hasher.queue, hasher'.item = hasher.item, hasher'.k = hasher.k,
             hasher'.at \in {"acquires", "opens", "hashes"} => hasher.at \in {"acquires", "opens", "hashes"}
      PROVE  Grows /\ (\A j \in Items : HashesOK(j)') /\ HasherOK'
  <2>1. Grows
    BY <1>P, <1>1 DEF Grows
  <2>2. \A j \in Items : HashesOK(j)'
    BY <1>P, <1>0, <1>1 DEF HashesOK, Filled, Unchanged, Index
  <2>3. HasherOK'
    BY <1>P, <1>0, <1>1 DEF HasherOK
  <2> QED
    BY <2>1, <2>2, <2>3
<1>H. ASSUME NEW at, HasherTo(at)
      PROVE  hasher'.queue = hasher.queue /\ hasher'.item = hasher.item /\ hasher'.k = hasher.k /\ hasher'.at = at
  BY <1>H, <1>2 DEF HasherTo
\* Its end.
<1>E. ASSUME NEW st \in {"hashed", "failed"}, HasherEnds(st), hasher.at \in {"acquires", "opens", "hashes"},
             st = "hashed" => hasher.k = ahead[hasher.item].upTo
      PROVE  Grows /\ (\A j \in Items : HashesOK(j)') /\ HasherOK'
  <2> PICK i \in Items : i = hasher.item
    BY <1>E, <1>2
  <2>1. ahead' = [ahead EXCEPT ![i].st = st]
    BY <1>E DEF HasherEnds
  <2>2. /\ ahead'[i].upTo = ahead[i].upTo /\ ahead'[i].hash = ahead[i].hash /\ ahead'[i].st = st
        /\ \A j \in Items \ {i} : ahead'[j] = ahead[j]
    BY <2>1, <1>2
  <2>3. hasher'.queue = hasher.queue /\ hasher'.at = "waits"
    BY <1>E, <1>H DEF HasherEnds
  <2>4. ahead[i].st # "none"
    BY <1>E, <1>0 DEF HasherOK
  <2>5. Grows
    BY <2>2, <1>1 DEF Grows
  <2>6. \A j \in Items : HashesOK(j)'
    <3> TAKE j \in Items
    <3>1. CASE j # i
      BY <3>1, <2>2, <1>0, <1>1 DEF HashesOK, Filled, Unchanged, Index
    <3>2. CASE j = i
      <4>1. st = "hashed" => Filled(i)
        BY <1>E, <1>0 DEF HasherOK, Filled
      <4>2. Filled(i) => Filled(i)'
        BY <2>2, <1>1 DEF Filled
      <4>3. HashesOK(i)
        BY <1>0
      <4> QED
        BY <3>2, <4>1, <4>2, <4>3, <2>2, <2>4, <1>1 DEF HashesOK, Unchanged, Index
    <3> QED
      BY <3>1, <3>2
  <2>7. HasherOK'
    BY <2>2, <2>3, <2>4, <1>0, <1>3 DEF HasherOK
  <2> QED
    BY <2>5, <2>6, <2>7
<1>4. CASE HasherStarts
  <2>1. /\ hasher.queue # <<>> /\ UNCHANGED ahead
        /\ hasher' = [at |-> "acquires", item |-> Head(hasher.queue), queue |-> Tail(hasher.queue), k |-> 0]
    BY <1>4 DEF HasherStarts
  <2>2. /\ Head(hasher.queue) = hasher.queue[1] /\ 1 \in 1 .. Len(hasher.queue)
        /\ \A n \in 1 .. Len(Tail(hasher.queue)) : Tail(hasher.queue)[n] = hasher.queue[n + 1] /\ n + 1 \in 1 .. Len(hasher.queue)
    <3>1. Len(hasher.queue) \in Nat \ {0} /\ Len(Tail(hasher.queue)) = Len(hasher.queue) - 1
          /\ \A n \in 1 .. Len(Tail(hasher.queue)) : Tail(hasher.queue)[n] = hasher.queue[n + 1]
      BY <2>1, <1>2, HeadTailProperties, EmptySeq
    <3>2. Head(hasher.queue) = hasher.queue[1]
      BY <2>1, <1>2
    <3>3. \A n \in 1 .. Len(hasher.queue) - 1 : n + 1 \in 1 .. Len(hasher.queue)
      BY <3>1
    <3> QED
      BY <3>1, <3>2, <3>3
  <2>3. Grows
    BY <2>1, <1>1 DEF Grows
  <2>4. \A j \in Items : HashesOK(j)'
    BY <2>1, <1>0, <1>1 DEF HashesOK, Filled, Unchanged, Index
  <2>5. HasherOK'
    <3>1. ahead[Head(hasher.queue)].st # "none" /\ Head(hasher.queue) \in Items
      BY <2>2, <1>0, <1>3 DEF HasherOK
    <3>2. \A n \in 1 .. Len(Tail(hasher.queue)) : ahead[Tail(hasher.queue)[n]].st # "none"
      BY <2>2, <1>0 DEF HasherOK
    <3>3. hasher'.at = "acquires" /\ hasher'.item = Head(hasher.queue) /\ hasher'.queue = Tail(hasher.queue) /\ hasher'.k = 0
      BY <2>1
    <3>4. 0 <= ahead[Head(hasher.queue)].upTo
      BY <3>1, <1>2
    <3> QED
      BY <3>1, <3>2, <3>3, <3>4, <2>1 DEF HasherOK
  <2> QED
    BY <2>3, <2>4, <2>5
<1>5. CASE HasherStops
  BY <1>5, <1>H, <1>P DEF HasherStops
<1>6. CASE HasherAcquires \/ HasherOpens
  <2>1. \/ \E at \in {"hashes", "opens"} : HasherTo(at) /\ UNCHANGED ahead
        \/ HasherEnds("failed")
    BY <1>6 DEF HasherAcquires, HasherOpens, Acquires
  <2>2. hasher.at \in {"acquires", "opens", "hashes"}
    BY <1>6 DEF HasherAcquires, HasherOpens
  <2> QED
    BY <2>1, <2>2, <1>H, <1>P, <1>E
<1>7. CASE Hashes
  <2> PICK i \in Items : i = hasher.item
    BY <1>7, <1>2 DEF Hashes
  <2> PICK k \in Nat : k = hasher.k
    BY <1>2
  <2>1. /\ k \in 0 .. ahead[i].upTo - 1 /\ k \in Index(i)
        /\ ahead' = IF served[i][k] # {} THEN ahead ELSE [ahead EXCEPT ![i].hash[k] = {ContentOf(i)}]
        /\ hasher'.queue = hasher.queue /\ hasher'.item = i /\ hasher'.k = k + 1 /\ hasher'.at = "hashes" /\ hasher.at = "hashes"
    BY <1>7, <1>2, ChunksAssumption DEF Hashes, Index
  <2>2. /\ ahead'[i].upTo = ahead[i].upTo /\ ahead'[i].st = ahead[i].st
        /\ ahead'[i].hash[k] = IF served[i][k] # {} THEN ahead[i].hash[k] ELSE {ContentOf(i)}
        /\ \A n \in 0 .. ahead[i].upTo - 1 : n # k => ahead'[i].hash[n] = ahead[i].hash[n]
        /\ \A j \in Items \ {i} : ahead'[j] = ahead[j]
    <3>1. CASE served[i][k] # {}
      BY <3>1, <2>1
    <3>2. CASE served[i][k] = {}
      <4> DEFINE a == [ahead[i] EXCEPT !.hash[k] = {ContentOf(i)}]
      <4>1. a.upTo = ahead[i].upTo /\ a.st = ahead[i].st /\ a.hash = [ahead[i].hash EXCEPT ![k] = {ContentOf(i)}]
        BY <1>2
      <4>2. ahead'[i] = a /\ \A j \in Items \ {i} : ahead'[j] = ahead[j]
        BY <3>2, <2>1, <1>2
      <4> HIDE DEF a
      <4> QED
        BY <4>1, <4>2, <3>2, <2>1, <1>2
    <3> QED
      BY <3>1, <3>2
  <2>3. \A n \in 0 .. ahead[i].upTo - 1 : ahead[i].hash[n] # {} => ahead'[i].hash[n] # {}
    BY <2>1, <2>2
  <2>4. Grows
    BY <2>2, <2>3, <1>1 DEF Grows
  <2>5. \A j \in Items : HashesOK(j)'
    <3> TAKE j \in Items
    <3>1. CASE j # i
      BY <3>1, <2>2, <1>0, <1>1 DEF HashesOK, Filled, Unchanged, Index
    <3>2. CASE j = i
      <4>1. Filled(i) => Filled(i)'
        BY <2>2, <2>3, <1>1 DEF Filled
      <4>2. Unchanged(i) => \A n \in 0 .. ahead[i].upTo - 1 : ahead'[i].hash[n] \subseteq {0}
        BY <2>1, <2>2, <1>0 DEF HashesOK, ContentOf, Unchanged
      <4>3. HashesOK(i)
        BY <1>0
      <4> QED
        BY <3>2, <4>1, <4>2, <4>3, <2>2, <1>1 DEF HashesOK, Unchanged, Index
    <3> QED
      BY <3>1, <3>2
  <2>6. HasherOK'
    <3>1. \A n \in 0 .. k - 1 : served[i][n] # {} \/ ahead[i].hash[n] # {}
      BY <2>1, <1>0 DEF HasherOK
    <3>2. \A n \in 0 .. k : served'[i][n] # {} \/ ahead'[i].hash[n] # {}
      <4>1. \A n \in 0 .. k : n = k \/ n \in 0 .. k - 1
        OBVIOUS
      <4>2. \A n \in 0 .. k - 1 : n \in 0 .. ahead[i].upTo - 1
        BY <2>1, <1>2
      <4> QED
        BY <4>1, <4>2, <3>1, <2>2, <2>3, <1>1
    <3>3. k + 1 <= ahead'[i].upTo /\ (k + 1) - 1 = k
      BY <2>1, <2>2, <1>2
    <3>4. ahead'[i].st # "none" /\ \A n \in 1 .. Len(hasher.queue) : ahead'[hasher.queue[n]].st # "none"
      BY <2>1, <2>2, <1>0, <1>3 DEF HasherOK
    <3> QED
      BY <3>2, <3>3, <3>4, <2>1 DEF HasherOK
  <2> QED
    BY <2>4, <2>5, <2>6
<1>8. CASE HashedAll
  <2>1. \E st \in {"hashed", "failed"} : HasherEnds(st) /\ (st = "hashed" => hasher.k = ahead[hasher.item].upTo)
    BY <1>8 DEF HashedAll
  <2> QED
    BY <1>8, <2>1, <1>E DEF HashedAll
<1> QED
  BY <1>4, <1>5, <1>6, <1>7, <1>8 DEF Hasher

\* The chunk a digest takes is the one offered, if the source is.
LEMMA SendHashOf ==
  ASSUME SendIInv, NEW i \in Items, Unchanged(i), NEW k \in Index(i), NEW pre, pre => Filled(i)
  PROVE  HashOf(i, k, pre) = {0}
<1>1. HashesOK(i) /\ SendTypeOK
  BY DEF SendIInv, SendHashes
<1>2. served[i][k] # {} => served[i][k] = {0}
  BY <1>1 DEF HashesOK
<1>3. ASSUME served[i][k] = {}, pre, k < ahead[i].upTo
      PROVE  ahead[i].hash[k] = {0}
  <2>1. k \in 0 .. ahead[i].upTo - 1
    BY <1>1, <1>3, ChunksAssumption DEF Index, SendTypeOK, Ahead
  <2> QED
    BY <2>1, <1>1, <1>3 DEF HashesOK, Filled
<1>4. ContentOf(i) = 0
  BY DEF ContentOf, Unchanged
<1> QED
  BY <1>2, <1>3, <1>4 DEF HashOf

LEMMA SendSumSums ==
  ASSUME SendIInv, NEW c \in Conns, Sums(c)
  PROVE  SumOK(c)'
<1>0. SendTypeOK /\ ConnOK(c) /\ SumOK(c) /\ conn[c] \in Connection
  BY DEF SendIInv, SendHashes, SendTypeOK
<1>1. /\ conn[c].at = "sums" /\ AskedKept(c) /\ conn'[c].at = "sums" /\ conn'[c].pre = conn[c].pre /\ conn'[c].taken = conn[c].taken
      /\ conn'[c].sum = Append(conn[c].sum, HashOf(Now(c).item, Len(conn[c].sum), conn[c].pre))
  BY <1>0, SendPrepared
<1>2. Now(c)' = Now(c) /\ Now(c).item \in Items /\ Len(conn[c].sum) < ChunksOf[Now(c).item] /\ UNCHANGED <<source, served, ahead>>
  BY <1>0, <1>1, SendNow DEF Now, AskedKept, Sums, Answering, files
<1> PICK i \in Items : i = Now(c).item
  BY <1>2
<1> DEFINE s == conn[c].sum
           h == HashOf(i, Len(s), conn[c].pre)
<1>3. s \in Seq(Hash) /\ Len(s) \in Nat /\ Len(s) \in Index(i)
  <2>1. s \in Seq(Hash) /\ Len(s) \in Nat
    BY <1>0, LenProperties DEF Connection
  <2> QED
    BY <2>1, <1>2, ChunksAssumption DEF Index
<1>4. /\ conn[c].pre => ahead[i].st # "none" /\ Filled(i)
      /\ Unchanged(i) => \A n \in 1 .. Len(s) : s[n] = {0}
  BY <1>0, <1>1 DEF SumOK
<1>5. Unchanged(i) => h = {0}
  BY <1>3, <1>4, SendHashOf
<1>6. Len(Append(s, h)) = Len(s) + 1 /\ Append(s, h)[Len(s) + 1] = h /\ \A n \in 1 .. Len(s) : Append(s, h)[n] = s[n]
  <2> HIDE DEF h
  <2>1. s \in Seq(Hash \cup {h})
    BY <1>3
  <2> QED
    BY <2>1, AppendProperties
<1>7. Unchanged(i) => \A n \in 1 .. Len(Append(s, h)) : Append(s, h)[n] = {0}
  <2> HIDE DEF h
  <2>1. \A n \in 1 .. Len(Append(s, h)) : n \in 1 .. Len(s) \/ n = Len(s) + 1
    BY <1>3, <1>6
  <2> QED
    BY <2>1, <1>4, <1>5, <1>6
<1>8. conn'[c].sum = Append(s, h) /\ Now(c)'.item = i
  BY <1>1, <1>2
<1> HIDE DEF s, h
<1> QED
  BY <1>1, <1>2, <1>4, <1>7, <1>8 DEF SumOK, Filled, Unchanged

LEMMA SendSumChecks ==
  ASSUME SendIInv, NEW c \in Conns, Checks(c)
  PROVE  SumOK(c)'
<1>0. SendTypeOK /\ ConnOK(c) /\ conn[c] \in Connection
  BY DEF SendIInv, SendHashes, SendTypeOK
<1>1. /\ conn[c].at = "checks" /\ SameTaken(c)
      /\ \/ conn'[c].at = "puts"
         \/ conn'[c].at = "sums" /\ conn'[c].pre = (ahead[Now(c).item].st = "hashed")
  BY <1>0, SendPrepared
<1>2. Now(c)' = Now(c) /\ Now(c).item \in Items /\ UNCHANGED <<source, served, ahead>>
  BY <1>0, <1>1, SendNow DEF Now, SameTaken, Same, AskedKept, Checks, Answering, files
<1> PICK i \in Items : i = Now(c).item
  BY <1>2
<1>3. conn'[c].sum = <<>>
  BY <1>0, <1>1 DEF ConnOK, RecOK, SameTaken, Same
<1>4. ahead[i].st = "hashed" => Filled(i)
  BY DEF SendIInv, SendHashes, HashesOK
<1>5. Now(c)'.item = i /\ \A n \in 1 .. Len(conn'[c].sum) : FALSE
  BY <1>2, <1>3
<1> QED
  BY <1>1, <1>2, <1>4, <1>5 DEF SumOK, Filled, Unchanged

LEMMA SendHashStep ==
  ASSUME SendIInv, [SendNext]_sendVars
  PROVE  SendHashes'
<1>0. SendTypeOK /\ \A c \in Conns : ConnOK(c)
  BY DEF SendIInv
<1>1. CASE EndContext \/ Closing \/ Serving \/ Hasher \/ Ticks \/ IsDone \/ (\E i \in Items : Changes(i)) \/ UNCHANGED sendVars
  <2>1. source' = source \/ (\E i \in Items : Changes(i))
    BY <1>1 DEF EndContext, Closing, Serving, Ticks, IsDone, sendVars, files, Quits, Refuses, Unregisters, FailsAccept, Drains, ClosesConns,
         Accepts, Lists, StopsAccepting, Returns, Hasher, HasherStarts, HasherStops, HasherAcquires, HasherOpens, Hashes, HashedAll
  <2>2. ~Hasher => UNCHANGED <<served, ahead, hasher>>
    BY <1>1 DEF EndContext, Closing, Serving, Ticks, IsDone, sendVars, files, Quits, Refuses, Unregisters, FailsAccept, Drains, ClosesConns,
         Accepts, Lists, StopsAccepting, Returns, Changes
  <2>3. Grows /\ (\A i \in Items : HashesOK(i)') /\ HasherOK'
    BY <2>1, <2>2, SendHashFrame, SendHashHasher
  <2>4. \A c \in Conns : SumOK(c)'
    BY <1>1, <2>1, <2>3, SendConnServing, SendSumKept
  <2> QED
    BY <2>3, <2>4 DEF SendHashes
<1>2. ASSUME NEW c \in Conns, Joins(c) \/ Delivers(c) \/ Preparer(c) \/ Writer(c) \/ Asks(c) \/ Loses(c)
      PROVE  SendHashes'
  <2>1. UNCHANGED source /\ (~Serves(c) => UNCHANGED <<served, ahead, hasher>>)
    BY <1>2 DEF Joins, Delivers, Preparer, Writer, Asks, Loses, Reads, Acquire, Opens, Serves, Checks, Sums, Digests, Puts, Finishes,
         StoresPartial, Tells, Writes, WriteFails, DropsAnswer, Gone, files
  <2>2. Grows /\ (\A i \in Items : HashesOK(i)') /\ HasherOK'
    BY <2>1, SendHashFrame, SendHashServes
  <2>3. ASSUME NEW d \in Conns \ {c}
        PROVE  SumOK(d)'
    <3>1. conn'[d] = conn[d]
      BY <1>0, <1>2, SendOthers
    <3>2. Calm(d)
      BY <3>1 DEF Calm, WorkKept, Now
    <3> QED
      BY <3>2, <2>1, <2>2, SendSumKept
  <2>4. SumOK(c)'
    <3>1. CASE Checks(c) \/ Sums(c)
      BY <3>1, SendSumChecks, SendSumSums
    <3>2. CASE Preparer(c) /\ ~(Checks(c) \/ Sums(c))
      <4>1. conn'[c].at # "sums"
        BY <1>0, <3>2, SendPrepared DEF Preparer, First
      <4> QED
        BY <4>1, <2>1, <2>2, SendSumKept
    <3>3. CASE Joins(c) \/ Delivers(c) \/ Writer(c) \/ Asks(c) \/ Loses(c)
      <4>1. Calm(c)
        BY <3>3, SendJoins, SendWriter DEF Calm
      <4> QED
        BY <4>1, <2>1, <2>2, SendSumKept
    <3> QED
      BY <1>2, <3>1, <3>2, <3>3
  <2> QED
    BY <2>2, <2>3, <2>4 DEF SendHashes
<1> QED
  BY <1>1, <1>2 DEF SendNext

LEMMA SendDigestStep ==
  ASSUME SendIInv, [SendNext]_sendVars
  PROVE  DigestIsOffered'
<1>0. SendTypeOK /\ DigestIsOffered /\ \A c \in Conns : ConnOK(c) /\ SumOK(c)
  BY DEF SendIInv, SendHashes
<1>1. CASE UNCHANGED digests
  BY <1>0, <1>1 DEF DigestIsOffered
<1>2. ASSUME NEW c \in Conns, Digests(c), ~UNCHANGED digests
      PROVE  DigestIsOffered'
  <2>1. conn[c].at = "sums" /\ Unchanged(Now(c).item) /\ digests' = digests \cup {conn[c].sum}
    BY <1>2 DEF Digests, StillUnchanged
  <2>2. \A n \in 1 .. Len(conn[c].sum) : conn[c].sum[n] = {0}
    BY <1>0, <2>1 DEF SumOK
  <2> QED
    BY <1>0, <2>1, <2>2 DEF DigestIsOffered
<1>3. Closing \/ Serving \/ EndContext \/ Ticks \/ IsDone \/ UNCHANGED sendVars => UNCHANGED digests
  BY DEF sendVars, files, EndContext, Closing, Serving, Ticks, IsDone, Quits, Refuses, Unregisters, FailsAccept, Drains, ClosesConns,
     Accepts, Lists, StopsAccepting, Returns
<1>4. Hasher \/ (\E i \in Items : Changes(i)) => UNCHANGED digests
  BY DEF Changes, Hasher, HasherStarts, HasherStops, HasherAcquires, HasherOpens, Hashes, HashedAll
<1>5. \A c \in Conns : Joins(c) \/ Delivers(c) \/ Writer(c) \/ Asks(c) \/ Loses(c) => UNCHANGED digests
  BY DEF files, Joins, Delivers, Writer, Asks, Loses, Writes, WriteFails, DropsAnswer, Gone
<1>6. \A c \in Conns : Preparer(c) => Digests(c) \/ UNCHANGED digests
  BY DEF files, Preparer, Reads, Acquire, Opens, Serves, Checks, Sums, Puts, Finishes, StoresPartial, Tells
<1>7. (\E c \in Conns : Digests(c)) \/ UNCHANGED digests
  BY <1>3, <1>4, <1>5, <1>6 DEF SendNext
<1> QED
  BY <1>1, <1>2, <1>7

-----------------------------------------------------------------------------
(* The files.                                                              *)

NoRole == <<"none", 0>>

LEMMA SendReaders ==
  ASSUME NEW i
  PROVE  ReadersOf(i) \subseteq Goers /\ IsFiniteSet(ReadersOf(i)) /\ Cardinality(ReadersOf(i)) \in Nat
<1>1. IsFiniteSet(Goers)
  <2>1. IsFiniteSet({0})
    BY FS_Singleton
  <2> QED
    BY <2>1, ConnsAssumption, FS_Union DEF Goers
<1>2. ReadersOf(i) \subseteq Goers
  BY DEF ReadersOf
<1>3. IsFiniteSet(ReadersOf(i))
  BY <1>1, <1>2, FS_Subset
<1> QED
  BY <1>2, <1>3, FS_CardinalityType

LEMMA SendRoleKept ==
  ASSUME NEW x \in Goers, x = 0 => UNCHANGED hasher \/ (hasher'.at = hasher.at /\ hasher'.item = hasher.item), x # 0 => Calm(x)
  PROVE  Role(x)' = Role(x)
<1>1. CASE x = 0
  BY <1>1 DEF Role
<1>2. CASE x # 0
  <2>1. CASE WorkKept(x)
    BY <1>2, <2>1 DEF Role, WorkKept, Answering
  <2>2. CASE conn[x].at \in {"none", "ended"} /\ conn'[x].at \in {"none", "ended", "reads"}
    BY <1>2, <2>2 DEF Role
  <2> QED
    BY <1>2, <2>1, <2>2 DEF Calm
<1> QED
  BY <1>1, <1>2

\* Nobody's role changes.
LEMMA SendEntriesFrame ==
  ASSUME EntriesOK, \A x \in Goers : Role(x)' = Role(x), UNCHANGED <<entry, plan>>, serve'.at # "returned" => serve.at # "returned"
  PROVE  EntriesOK'
<1> SUFFICES ASSUME serve.at # "returned", NEW i \in Items \ plan.fixed
             PROVE  EntryOK(i)'
  BY DEF EntriesOK
<1>1. EntryOK(i)
  BY DEF EntriesOK
<1>2. ReadersOf(i)' = ReadersOf(i)
  BY DEF ReadersOf
<1> QED
  BY <1>1, <1>2 DEF EntryOK

\* One gets a file that is open, or has one of the fixed.
LEMMA SendEntriesGot ==
  ASSUME SendTypeOK, EntriesOK, NEW x \in Goers, \A y \in Goers \ {x} : Role(y)' = Role(y), UNCHANGED <<plan, serve>>,
         NEW i \in Items, Role(x) = NoRole, Role(x)' = <<"reads", i>>,
         \/ i \in plan.fixed /\ UNCHANGED entry
         \/ i \notin plan.fixed /\ entry[i].st = "open" /\ entry' = Held(i)
  PROVE  EntriesOK'
<1> SUFFICES ASSUME serve.at # "returned", NEW j \in Items \ plan.fixed
             PROVE  EntryOK(j)'
  BY DEF EntriesOK
<1>1. EntryOK(j) /\ entry[j] \in FileEntry /\ entry[i] \in FileEntry
  BY DEF EntriesOK, SendTypeOK
<1>2. x \notin ReadersOf(j) /\ Role(x) # <<"opens", j>> /\ Role(x)' # <<"opens", j>>
  BY DEF ReadersOf, NoRole
<1>3. CASE j # i
  <2>1. entry'[j] = entry[j]
    BY <1>3 DEF Held, SendTypeOK
  <2>2. Role(x)' # <<"reads", j>>
    BY <1>3
  <2>3. ReadersOf(j)' = ReadersOf(j)
    BY <2>2, <1>2 DEF ReadersOf
  <2> QED
    BY <1>1, <1>2, <2>1, <2>2, <2>3 DEF EntryOK
<1>4. CASE j = i
  <2>1. entry'[j].st = "open" /\ entry'[j].refs = entry[j].refs + 1 /\ entry[j].st = "open"
    BY <1>1, <1>4 DEF Held, SendTypeOK, FileEntry
  <2>2. ReadersOf(j)' = ReadersOf(j) \cup {x}
    BY <1>4, <1>2 DEF ReadersOf
  <2>3. Cardinality(ReadersOf(j)') = Cardinality(ReadersOf(j)) + 1
    BY <2>2, <1>2, SendReaders, FS_AddElement
  <2>4. entry'[j].refs = Cardinality(ReadersOf(j)')
    BY <1>1, <2>1, <2>3 DEF EntryOK
  <2> QED
    BY <1>1, <1>2, <2>1, <2>4 DEF EntryOK
<1> QED
  BY <1>3, <1>4

\* One begins to open a file nobody has.
LEMMA SendEntriesOpening ==
  ASSUME SendTypeOK, EntriesOK, NEW x \in Goers, \A y \in Goers \ {x} : Role(y)' = Role(y), UNCHANGED <<plan, serve>>,
         NEW i \in Items, Role(x) = NoRole, Role(x)' = <<"opens", i>>,
         entry[i].st = "none", entry' = [entry EXCEPT ![i] = [st |-> "opening", refs |-> 0]]
  PROVE  EntriesOK'
<1> SUFFICES ASSUME serve.at # "returned", NEW j \in Items \ plan.fixed
             PROVE  EntryOK(j)'
  BY DEF EntriesOK
<1>1. EntryOK(j)
  BY DEF EntriesOK
<1>2. ReadersOf(j)' = ReadersOf(j)
  BY DEF ReadersOf, NoRole
<1>3. CASE j # i
  <2>1. entry'[j] = entry[j] /\ Role(x)' # <<"opens", j>> /\ Role(x)' # <<"reads", j>>
    BY <1>3 DEF SendTypeOK
  <2> QED
    BY <1>1, <1>2, <2>1 DEF EntryOK
<1>4. CASE j = i
  <2>1. entry'[j].st = "opening"
    BY <1>4 DEF SendTypeOK
  <2>2. \A y \in Goers : Role(y) # <<"opens", j>> /\ Role(y) # <<"reads", j>>
    BY <1>1, <1>4 DEF EntryOK
  <2>3. \A y \in Goers : Role(y)' = <<"opens", j>> => y = x
    BY <2>2
  <2>4. \A y \in Goers : Role(y)' # <<"reads", j>>
    BY <2>2
  <2> QED
    BY <2>1, <2>3, <2>4 DEF EntryOK
<1> QED
  BY <1>3, <1>4

\* The open is over: it has the file, or nobody has.
LEMMA SendEntriesOpened ==
  ASSUME SendTypeOK, EntriesOK, NEW x \in Goers, \A y \in Goers \ {x} : Role(y)' = Role(y), UNCHANGED <<plan, serve>>,
         NEW i \in Items, NEW ok \in BOOLEAN, Role(x) = <<"opens", i>>, Role(x)' = IF ok THEN <<"reads", i>> ELSE NoRole, Opened(i, ok)
  PROVE  EntriesOK'
<1> SUFFICES ASSUME serve.at # "returned", NEW j \in Items \ plan.fixed
             PROVE  EntryOK(j)'
  BY DEF EntriesOK
<1>1. EntryOK(j) /\ entry \in [Items -> FileEntry] /\ ReadersOf(j) \subseteq Goers
  BY SendReaders DEF EntriesOK, SendTypeOK
<1>2. x \notin ReadersOf(j) /\ Role(x)' # <<"opens", j>>
  BY DEF ReadersOf, NoRole
<1>3. CASE j # i
  <2>1. Role(x)' # <<"reads", j>> /\ Role(x) # <<"opens", j>>
    BY <1>3 DEF NoRole
  <2>2. ReadersOf(j)' = ReadersOf(j)
    BY <1>2, <2>1 DEF ReadersOf
  <2>3. entry'[j] = entry[j] \/ (entry[j].st = "open" /\ entry[j].refs = 0 /\ entry'[j] = NoEntry)
    BY <1>1, <1>3 DEF Opened, Evictable
  <2>4. CASE entry'[j] = entry[j]
    BY <1>1, <1>2, <2>1, <2>2, <2>4 DEF EntryOK
  <2>5. CASE entry[j].st = "open" /\ entry[j].refs = 0 /\ entry'[j] = NoEntry
    <3>1. Cardinality(ReadersOf(j)) = 0
      BY <1>1, <2>5 DEF EntryOK
    <3>2. ReadersOf(j) = {}
      BY <3>1, SendReaders, FS_EmptySet
    <3>3. \A y \in Goers : Role(y)' # <<"reads", j>>
      BY <3>2, <2>1 DEF ReadersOf
    <3>4. \A y \in Goers : Role(y)' # <<"opens", j>>
      BY <1>1, <1>2, <2>5 DEF EntryOK
    <3>5. entry'[j].st = "none"
      BY <2>5 DEF NoEntry
    <3> QED
      BY <3>3, <3>4, <3>5 DEF EntryOK
  <2> QED
    BY <2>3, <2>4, <2>5
<1>4. CASE j = i
  <2>1. entry[i].st = "opening"
    BY <1>1, <1>4 DEF EntryOK
  <2>2. \A y \in Goers : Role(y)' # <<"opens", i>>
    BY <1>1, <1>2, <1>4 DEF EntryOK
  <2>3. \A y \in Goers : Role(y) # <<"reads", i>>
    BY <1>1, <1>4, <2>1 DEF EntryOK
  <2>4. CASE ok
    <3>1. entry'[i] = [st |-> "open", refs |-> 1]
      BY <1>1, <2>1, <2>4 DEF Opened, Evictable
    <3>2. ReadersOf(i)' = {x}
      BY <2>3, <2>4 DEF ReadersOf
    <3>3. Cardinality(ReadersOf(i)') = 1
      BY <3>2, FS_Singleton
    <3> QED
      BY <1>4, <2>2, <3>1, <3>3 DEF EntryOK
  <2>5. CASE ~ok
    <3>1. entry'[i].st = "none"
      BY <1>1, <2>1, <2>5 DEF Opened, NoEntry
    <3>2. \A y \in Goers : Role(y)' # <<"reads", i>>
      BY <2>3, <2>5 DEF NoRole
    <3> QED
      BY <1>4, <2>2, <3>1, <3>2 DEF EntryOK
  <2> QED
    BY <2>4, <2>5
<1> QED
  BY <1>3, <1>4

\* A reader is done with its file.
LEMMA SendEntriesReleased ==
  ASSUME SendTypeOK, EntriesOK, NEW x \in Goers, \A y \in Goers \ {x} : Role(y)' = Role(y), UNCHANGED <<plan, serve>>,
         NEW i \in Items, Role(x) = <<"reads", i>>, Role(x)' = NoRole, entry' = Released(i)
  PROVE  EntriesOK'
<1> SUFFICES ASSUME serve.at # "returned", NEW j \in Items \ plan.fixed
             PROVE  EntryOK(j)'
  BY DEF EntriesOK
<1>1. EntryOK(j) /\ entry \in [Items -> FileEntry]
  BY DEF EntriesOK, SendTypeOK
<1>2. Role(x)' # <<"opens", j>> /\ Role(x)' # <<"reads", j>>
  BY DEF NoRole
<1>3. CASE j # i
  <2>1. entry'[j] = entry[j] /\ Role(x) # <<"reads", j>>
    BY <1>1, <1>3 DEF Released
  <2>2. ReadersOf(j)' = ReadersOf(j)
    BY <1>2, <2>1 DEF ReadersOf
  <2> QED
    BY <1>1, <1>2, <2>1, <2>2 DEF EntryOK
<1>4. CASE j = i
  <2>1. entry[j].st = "open" /\ entry[j].refs = Cardinality(ReadersOf(j)) /\ x \in ReadersOf(j)
    BY <1>1, <1>4 DEF EntryOK, ReadersOf
  <2>2. ReadersOf(j)' = ReadersOf(j) \ {x}
    BY <1>2 DEF ReadersOf
  <2>3. Cardinality(ReadersOf(j)') = Cardinality(ReadersOf(j)) - 1
    BY <2>1, <2>2, SendReaders, FS_RemoveElement
  <2>4. Cardinality(ReadersOf(j)) > 0
    BY <2>1, SendReaders, FS_EmptySet
  <2>5. entry'[j].st = "open" /\ entry'[j].refs = entry[j].refs - 1
    BY <1>1, <1>4, <2>1, <2>4 DEF Released, FileEntry
  <2>6. entry'[j].refs = Cardinality(ReadersOf(j)')
    BY <2>1, <2>3, <2>5
  <2>7. \A y \in Goers : Role(y)' # <<"opens", j>>
    BY <1>1, <1>2, <2>1 DEF EntryOK
  <2> QED
    BY <2>5, <2>6, <2>7 DEF EntryOK
<1> QED
  BY <1>3, <1>4

LEMMA SendEntriesHasher ==
  ASSUME SendIInv, Hasher
  PROVE  EntriesOK'
<1> USE DEF files, ends, bounds
<1>0. SendTypeOK /\ EntriesOK /\ 0 \in Goers
  BY DEF SendIInv, Goers
<1>1. /\ \A y \in Goers \ {0} : Role(y)' = Role(y)
      /\ UNCHANGED <<plan, serve>>
  <2>1. UNCHANGED conn
    BY DEF Hasher, HasherStarts, HasherStops, HasherAcquires, HasherOpens, Hashes, HashedAll
  <2>2. \A y \in Goers \ {0} : Role(y)' = Role(y)
    BY <2>1 DEF Role, Now
  <2>3. UNCHANGED <<plan, serve>>
    BY DEF Hasher, HasherStarts, HasherStops, HasherAcquires, HasherOpens, Hashes, HashedAll
  <2> QED
    BY <2>2, <2>3
<1>T. /\ hasher = [at |-> hasher.at, item |-> hasher.item, queue |-> hasher.queue, k |-> hasher.k]
      /\ hasher.at \in {"acquires", "opens", "hashes"} => hasher.item \in Items
  BY <1>0 DEF SendTypeOK
<1>H. ASSUME NEW at, HasherTo(at)
      PROVE  hasher'.item = hasher.item /\ hasher'.at = at
  BY <1>H, <1>T DEF HasherTo
<1>F. ASSUME UNCHANGED entry, Role(0)' = Role(0)
      PROVE  EntriesOK'
  BY <1>0, <1>1, <1>F, SendEntriesFrame
<1>2. CASE HasherStarts
  <2>1. Role(0) = NoRole /\ Role(0)' = NoRole /\ UNCHANGED entry
    BY <1>2 DEF HasherStarts, Role, NoRole
  <2> QED
    BY <2>1, <1>F
<1>3. CASE HasherStops
  <2>1. Role(0) = NoRole /\ Role(0)' = NoRole /\ UNCHANGED entry
    BY <1>3, <1>H DEF HasherStops, Role, NoRole
  <2> QED
    BY <2>1, <1>F
<1>4. CASE Hashes
  <2>1. hasher'.at = hasher.at /\ hasher'.item = hasher.item /\ UNCHANGED entry
    BY <1>4, <1>T DEF Hashes
  <2> QED
    BY <2>1, <1>F DEF Role
<1>5. CASE HasherAcquires
  <2> PICK i \in Items : i = hasher.item
    BY <1>5, <1>T DEF HasherAcquires
  <2>1. Role(0) = NoRole /\ hasher.at = "acquires"
    BY <1>5 DEF HasherAcquires, Role, NoRole
  <2>2. Acquires(i, HasherTo("hashes") /\ UNCHANGED ahead, HasherEnds("failed"), HasherTo("opens") /\ UNCHANGED ahead)
    BY <1>5 DEF HasherAcquires, Acquires
  <2>3. CASE HasherTo("hashes")
    <3>1. Role(0)' = <<"reads", i>>
      BY <2>3, <1>H DEF Role
    <3>2. hasher'.at = "hashes"
      BY <2>3, <1>H
    <3>3. ~HasherTo("waits") /\ ~HasherTo("opens")
      BY <3>2, <1>H
    <3>4. \/ i \in plan.fixed /\ UNCHANGED entry
          \/ i \notin plan.fixed /\ entry[i].st = "open" /\ entry' = Held(i)
      BY <2>2, <3>3 DEF Acquires, HasherEnds
    <3> QED
      BY <1>0, <1>1, <2>1, <3>1, <3>4, SendEntriesGot
  <2>4. CASE HasherTo("opens")
    <3>1. Role(0)' = <<"opens", i>>
      BY <2>4, <1>H DEF Role
    <3>2. hasher'.at = "opens"
      BY <2>4, <1>H
    <3>3. ~HasherTo("waits") /\ ~HasherTo("hashes")
      BY <3>2, <1>H
    <3>4. entry[i].st = "none" /\ entry' = [entry EXCEPT ![i] = [st |-> "opening", refs |-> 0]]
      BY <2>2, <3>3 DEF Acquires, HasherEnds
    <3> QED
      BY <1>0, <1>1, <2>1, <3>1, <3>4, SendEntriesOpening
  <2>5. CASE HasherTo("waits")
    <3>1. Role(0)' = NoRole /\ hasher'.at = "waits"
      BY <2>5, <1>H DEF Role, NoRole
    <3>2. ~HasherTo("opens") /\ ~HasherTo("hashes")
      BY <3>1, <1>H
    <3>3. UNCHANGED entry
      BY <2>2, <3>2 DEF Acquires
    <3> QED
      BY <2>1, <3>1, <3>3, <1>F
  <2> QED
    BY <2>2, <2>3, <2>4, <2>5 DEF Acquires, HasherEnds
<1>6. CASE HasherOpens
  <2> PICK i \in Items : i = hasher.item
    BY <1>6, <1>T DEF HasherOpens
  <2>1. Role(0) = <<"opens", i>> /\ Opened(i, AtPath(i)) /\ AtPath(i) \in BOOLEAN
    BY <1>6 DEF HasherOpens, Role, AtPath
  <2>2. IF AtPath(i) THEN HasherTo("hashes") ELSE HasherTo("waits")
    BY <1>6 DEF HasherOpens, HasherEnds
  <2>3. Role(0)' = IF AtPath(i) THEN <<"reads", i>> ELSE NoRole
    BY <2>2, <1>H DEF Role, NoRole
  <2> QED
    BY <1>0, <1>1, <2>1, <2>3, SendEntriesOpened
<1>7. CASE HashedAll
  <2> PICK i \in Items : i = hasher.item
    BY <1>7, <1>T DEF HashedAll
  <2>1. Role(0) = <<"reads", i>> /\ entry' = Released(i) /\ HasherTo("waits")
    BY <1>7 DEF HashedAll, HasherEnds, Role
  <2>2. Role(0)' = NoRole
    BY <2>1, <1>H DEF Role, NoRole
  <2> QED
    BY <1>0, <1>1, <2>1, <2>2, SendEntriesReleased
<1> QED
  BY <1>2, <1>3, <1>4, <1>5, <1>6, <1>7 DEF Hasher

LEMMA SendEntriesPreparer ==
  ASSUME SendIInv, NEW c \in Conns, Preparer(c)
  PROVE  EntriesOK'
<1> USE DEF files, ends, bounds
<1>0. /\ SendTypeOK /\ EntriesOK /\ ConnOK(c) /\ c \in Goers /\ c # 0
      /\ conn[c].at \in Answering => Now(c).item \in Items
  BY SendNow, ConnsAssumption DEF SendIInv, Goers
<1>1. /\ \A y \in Goers \ {c} : Role(y)' = Role(y)
      /\ UNCHANGED <<plan, serve>>
  <2>1. \A d \in Conns \ {c} : conn'[d] = conn[d]
    BY <1>0, SendOthers
  <2>2. UNCHANGED <<plan, serve>> /\ hasher'.at = hasher.at /\ hasher'.item = hasher.item
    <3>1. Serves(c) => hasher' = hasher \/ \E q : hasher' = [hasher EXCEPT !.queue = q]
      BY DEF Serves, MarkServed
    <3>2. hasher = [at |-> hasher.at, item |-> hasher.item, queue |-> hasher.queue, k |-> hasher.k]
      BY <1>0 DEF SendTypeOK
    <3>3. Serves(c) => hasher'.at = hasher.at /\ hasher'.item = hasher.item
      BY <3>1, <3>2
    <3>4. ~Serves(c) => UNCHANGED hasher
      BY DEF Preparer, Reads, Acquire, Opens, Checks, Sums, Digests, Puts, Finishes, StoresPartial, Tells
    <3>5. UNCHANGED <<plan, serve>>
      BY DEF Preparer, Reads, Acquire, Opens, Serves, Checks, Sums, Digests, Puts, Finishes, StoresPartial, Tells
    <3> QED
      BY <3>3, <3>4, <3>5
  <2> QED
    BY <2>1, <2>2 DEF Role, Now, Goers
<1>F. ASSUME UNCHANGED entry, Role(c)' = Role(c)
      PROVE  EntriesOK'
  BY <1>0, <1>1, <1>F, SendEntriesFrame
<1>N. SameTaken(c) => Now(c)' = Now(c)
  BY DEF SameTaken, Same, AskedKept, Now
<1>2. CASE Acquire(c)
  <2>0. conn[c].at = "acquires" /\ SameTaken(c) /\ conn'[c].at \in {First(c), "puts", "opens"} /\ First(c) \in {"checks", "serves"}
    BY <1>0, <1>2, SendPrepared DEF First
  <2> PICK i \in Items : i = Now(c).item
    BY <1>0, <2>0 DEF Answering
  <2>1. Role(c) = NoRole /\ Now(c)'.item = i
    BY <1>0, <2>0, <1>N DEF Role, NoRole
  <2> DEFINE f == [conn[c] EXCEPT !.free = @ - 1]
  <2>A. \A at : LET r == [f EXCEPT !.at = at] IN Set(c, r) => conn'[c].at = at
    <3> TAKE at
    <3>1. conn[c] \in Connection
      BY <1>0 DEF SendTypeOK
    <3>2. Set(c, [f EXCEPT !.at = at]) => conn'[c] = [f EXCEPT !.at = at]
      BY <1>0, SendSet
    <3>3. [f EXCEPT !.at = at].at = at
      BY <3>1 DEF Connection
    <3> QED
      BY <3>2, <3>3
  <2>B. Set(c, [f EXCEPT !.at = "puts", !.now = FALSE]) => conn'[c].at = "puts"
    <3>1. conn[c] \in Connection
      BY <1>0 DEF SendTypeOK
    <3>2. Set(c, [f EXCEPT !.at = "puts", !.now = FALSE]) => conn'[c] = [f EXCEPT !.at = "puts", !.now = FALSE]
      BY <1>0, SendSet
    <3>3. [f EXCEPT !.at = "puts", !.now = FALSE].at = "puts"
      BY <3>1 DEF Connection
    <3> QED
      BY <3>2, <3>3
  <2>2. \/ i \in plan.fixed /\ conn'[c].at \in {First(c), "puts"} /\ UNCHANGED entry
        \/ i \notin plan.fixed /\ entry[i].st = "open" /\ conn'[c].at = First(c) /\ entry' = Held(i)
        \/ i \notin plan.fixed /\ entry[i].st = "none" /\ conn'[c].at = "opens" /\ entry' = [entry EXCEPT ![i] = [st |-> "opening", refs |-> 0]]
    <3>1. \/ /\ i \in plan.fixed /\ UNCHANGED entry
             /\ Set(c, [f EXCEPT !.at = First(c)]) \/ Set(c, [f EXCEPT !.at = "puts", !.now = FALSE])
          \/ i \notin plan.fixed /\ entry[i].st = "open" /\ Set(c, [f EXCEPT !.at = First(c)]) /\ entry' = Held(i)
          \/ /\ i \notin plan.fixed /\ entry[i].st = "none" /\ Set(c, [f EXCEPT !.at = "opens"])
             /\ entry' = [entry EXCEPT ![i] = [st |-> "opening", refs |-> 0]]
      BY <1>2 DEF Acquire, Acquires
    <3>2. Set(c, [f EXCEPT !.at = First(c)]) => conn'[c].at = First(c)
      BY <2>A
    <3>3. Set(c, [f EXCEPT !.at = "opens"]) => conn'[c].at = "opens"
      BY <2>A
    <3> HIDE DEF f
    <3> QED
      BY <3>1, <3>2, <3>3, <2>B
  <2>3. CASE conn'[c].at = "puts"
    <3>1. Role(c)' = NoRole
      BY <1>0, <2>3 DEF Role, NoRole
    <3> QED
      BY <2>0, <2>1, <2>2, <2>3, <3>1, <1>F
  <2>4. CASE conn'[c].at = "opens"
    <3>1. Role(c)' = <<"opens", i>>
      BY <1>0, <2>1, <2>4 DEF Role
    <3> QED
      BY <1>0, <1>1, <2>0, <2>1, <2>2, <2>4, <3>1, SendEntriesOpening
  <2>5. CASE conn'[c].at = First(c)
    <3>1. Role(c)' = <<"reads", i>>
      BY <1>0, <2>0, <2>1, <2>5 DEF Role
    <3> QED
      BY <1>0, <1>1, <2>0, <2>1, <2>2, <2>5, <3>1, SendEntriesGot
  <2> QED
    BY <2>0, <2>3, <2>4, <2>5
<1>3. CASE Opens(c)
  <2>0. conn[c].at = "opens" /\ SameTaken(c) /\ conn'[c].at = (IF AtPath(Now(c).item) THEN First(c) ELSE "puts") /\ First(c) \in {"checks", "serves"}
    BY <1>0, <1>3, SendPrepared DEF First
  <2> PICK i \in Items : i = Now(c).item
    BY <1>0, <2>0 DEF Answering
  <2>1. Role(c) = <<"opens", i>> /\ Now(c)'.item = i
    BY <1>0, <2>0, <1>N DEF Role
  <2>2. Opened(i, AtPath(i)) /\ AtPath(i) \in BOOLEAN
    BY <1>3 DEF Opens, AtPath
  <2>3. Role(c)' = IF AtPath(i) THEN <<"reads", i>> ELSE NoRole
    BY <1>0, <2>0, <2>1 DEF Role, NoRole
  <2> QED
    BY <1>0, <1>1, <2>1, <2>2, <2>3, SendEntriesOpened
<1>R. ASSUME conn[c].at \in {"serves", "checks", "sums"}, conn'[c].at = "puts", entry' = Released(Now(c).item)
      PROVE  EntriesOK'
  <2> PICK i \in Items : i = Now(c).item
    BY <1>0, <1>R DEF Answering
  <2>1. Role(c) = <<"reads", i>> /\ Role(c)' = NoRole
    BY <1>0, <1>R DEF Role, NoRole
  <2> QED
    BY <1>0, <1>1, <1>R, <2>1, SendEntriesReleased
<1>4. CASE Serves(c)
  BY <1>0, <1>4, <1>R, SendPrepared DEF Serves
<1>5. CASE Digests(c)
  BY <1>0, <1>5, <1>R, SendPrepared DEF Digests
<1>6. CASE Checks(c)
  <2>1. CASE conn'[c].at = "puts" /\ entry' = Released(Now(c).item)
    BY <1>0, <1>6, <2>1, <1>R, SendPrepared
  <2>2. CASE conn'[c].at = "sums" /\ entry' = entry
    <3>1. conn[c].at = "checks" /\ Now(c)' = Now(c)
      BY <1>0, <1>6, <1>N, SendPrepared
    <3> QED
      BY <3>1, <2>2, <1>0, <1>F DEF Role
  <2> QED
    BY <1>0, <1>6, <2>1, <2>2, SendPrepared
<1>7. CASE Sums(c)
  <2>1. conn[c].at = "sums" /\ conn'[c].at = "sums" /\ Now(c)' = Now(c)
    BY <1>0, <1>7, SendPrepared DEF AskedKept, Now
  <2>2. UNCHANGED entry
    BY <1>7 DEF Sums
  <2> QED
    BY <2>1, <2>2, <1>0, <1>F DEF Role
<1>8. CASE Reads(c) \/ Puts(c) \/ Finishes(c) \/ StoresPartial(c) \/ Tells(c)
  <2>1. /\ conn[c].at \in {"reads", "puts", "reports", "tells"}
        /\ conn'[c].at \in {"acquires", "ended", "reads", "reports", "tells"}
    BY <1>0, <1>8, SendPrepared
  <2>2. UNCHANGED entry
    BY <1>8 DEF Reads, Puts, Finishes, StoresPartial, Tells
  <2>3. Role(c)' = NoRole /\ Role(c) = NoRole
    BY <2>1, <1>0 DEF Role, NoRole
  <2> QED
    BY <2>2, <2>3, <1>F
<1> QED
  BY <1>2, <1>3, <1>4, <1>5, <1>6, <1>7, <1>8 DEF Preparer

LEMMA SendEntriesStep ==
  ASSUME SendIInv, [SendNext]_sendVars
  PROVE  EntriesOK'
<1> USE DEF files, ends, bounds
<1>0. SendTypeOK /\ EntriesOK
  BY DEF SendIInv
<1>1. CASE EndContext \/ Closing \/ Serving \/ Ticks \/ IsDone \/ (\E i \in Items : Changes(i)) \/ UNCHANGED sendVars
  <2>1. UNCHANGED <<hasher, plan>>
    BY <1>1 DEF EndContext, Closing, Serving, Ticks, IsDone, sendVars, Quits, Refuses, Unregisters, FailsAccept, Drains, ClosesConns,
         Accepts, Lists, StopsAccepting, Returns, Changes, May
  <2>2. \A x \in Goers : Role(x)' = Role(x)
    BY <1>1, <2>1, SendConnServing, SendRoleKept DEF Goers
  <2>3. CASE Returns
    <3>1. serve'.at = "returned"
      BY <2>3, <1>0 DEF Returns, SendTypeOK
    <3> QED
      BY <3>1 DEF EntriesOK
  <2>4. CASE ~Returns
    <3>1. UNCHANGED entry
      BY <1>1, <2>4 DEF EndContext, Closing, Serving, Ticks, IsDone, sendVars, Quits, Refuses, Unregisters, FailsAccept, Drains, ClosesConns,
           Accepts, Lists, StopsAccepting, Changes
    <3>2. serve'.at # "returned" => serve.at # "returned"
      BY <1>1, <2>4 DEF EndContext, Closing, Serving, Ticks, IsDone, sendVars, Quits, Refuses, Unregisters, FailsAccept, Drains, ClosesConns,
           Accepts, Lists, StopsAccepting, Changes
    <3> QED
      BY <1>0, <2>1, <2>2, <3>1, <3>2, SendEntriesFrame
  <2> QED
    BY <2>3, <2>4
<1>2. ASSUME NEW c \in Conns, Joins(c) \/ Delivers(c) \/ Writer(c) \/ Asks(c) \/ Loses(c)
      PROVE  EntriesOK'
  <2>1. UNCHANGED <<hasher, plan, entry, serve>>
    BY <1>2 DEF Joins, Delivers, Writer, Asks, Loses, Writes, WriteFails, DropsAnswer, Gone, May
  <2>2. Calm(c)
    BY <1>2, SendJoins, SendWriter DEF Calm
  <2>3. \A d \in Conns \ {c} : conn'[d] = conn[d]
    BY <1>0, <1>2, SendOthers
  <2>4. \A d \in Conns : Calm(d)
    BY <2>2, <2>3 DEF Calm, WorkKept, Now
  <2>5. \A x \in Goers : Role(x)' = Role(x)
    BY <2>1, <2>4, SendRoleKept DEF Goers
  <2> QED
    BY <1>0, <2>1, <2>5, SendEntriesFrame
<1> QED
  BY <1>1, <1>2, SendEntriesHasher, SendEntriesPreparer DEF SendNext

-----------------------------------------------------------------------------
LEMMA SendInitIInv == SendInit => SendIInv
<1> SUFFICES ASSUME SendInit PROVE SendIInv
  OBVIOUS
<1> USE DEF SendInit
<1>1. SendTypeOK
  <2>0. \A S : <<>> \in Seq(S)
    BY EmptySeq
  <2>1. NoConn \in Connection
    BY <2>0 DEF NoConn, Connection, Frames
  <2>2. \A i \in Items : [k \in Index(i) |-> {}] \in [Index(i) -> Hash]
    BY DEF Hash
  <2>3. \A i \in Items : ahead[i] = [upTo |-> 0, st |-> "none", hash |-> <<>>]
    OBVIOUS
  <2>4. <<>> \in [0 .. 0 - 1 -> Hash]
    <3>1. <<>> \in [1 .. 0 -> Hash]
      BY <2>0, LenProperties, EmptySeq
    <3>2. 1 .. 0 = 0 .. 0 - 1
      OBVIOUS
    <3> QED
      BY <3>1, <3>2
  <2>5. [upTo |-> 0, st |-> "none", hash |-> <<>>] \in Ahead(0)
    BY <2>4 DEF Ahead
  <2>6. /\ ahead = [i \in Items |-> ahead[i]]
        /\ \A i \in Items : ahead[i] \in Ahead(ahead[i].upTo) /\ ahead[i].upTo <= ChunksOf[i]
    BY <2>3, <2>5, ChunksAssumption
  <2>7. NoEntry \in FileEntry
    BY DEF NoEntry, FileEntry
  <2> QED
    BY <2>0, <2>1, <2>2, <2>6, <2>7 DEF SendTypeOK
<1>2. QueueOK
  BY DEF QueueOK
<1>3. \A c \in Conns : ConnOK(c) /\ SumOK(c)
  <2> TAKE c \in Conns
  <2>1. conn[c] = NoConn
    OBVIOUS
  <2> QED
    BY <2>1 DEF NoConn, ConnOK, RecOK, SumOK, Answering
<1>4. (\A i \in Items : HashesOK(i)) /\ HasherOK
  <2>1. \A i \in Items : ahead[i].upTo = 0 /\ ahead[i].st = "none" /\ \A k \in Index(i) : served[i][k] = {}
    OBVIOUS
  <2> QED
    BY <2>1 DEF HashesOK, HasherOK
<1>5. DigestIsOffered
  BY DEF DigestIsOffered
<1>6. EntriesOK
  <2>1. \A x \in Goers : Role(x) = NoRole
    BY DEF Goers, Role, NoRole, NoConn
  <2>2. \A i \in Items : entry[i].st = "none"
    BY DEF NoEntry
  <2> QED
    BY <2>1, <2>2 DEF EntriesOK, EntryOK, NoRole
<1> QED
  BY <1>1, <1>2, <1>3, <1>4, <1>5, <1>6 DEF SendIInv, SendHashes

LEMMA SendStepIInv == SendIInv /\ [SendNext]_sendVars => SendIInv'
<1> SUFFICES ASSUME SendIInv, [SendNext]_sendVars PROVE SendIInv'
  OBVIOUS
<1>1. SendTypeOK' /\ QueueOK' /\ SendHashes' /\ DigestIsOffered' /\ EntriesOK'
  BY SendTypeStep, SendQueueStep, SendHashStep, SendDigestStep, SendEntriesStep
<1>2. (\A c \in Conns : ConnOK(c))'
  BY SendConnStep
<1> QED
  BY <1>1, <1>2 DEF SendIInv

LEMMA SendReadFiles == SendIInv => ReadFilesAreOpen
<1> SUFFICES ASSUME SendIInv, NEW i \in Items \ plan.fixed
             PROVE  LET readers == {c \in Conns : Reading(c) /\ Now(c).item = i} \cup {d \in {0} : Hashing /\ hasher.item = i} IN
                    readers # {} => entry[i].st = "open" /\ entry[i].refs = Cardinality(readers)
  BY DEF ReadFilesAreOpen
<1> DEFINE readers == {c \in Conns : Reading(c) /\ Now(c).item = i} \cup {d \in {0} : Hashing /\ hasher.item = i}
<1>1. CASE serve.at = "returned"
  <2>1. \A c \in Conns : ~Reading(c)
    BY <1>1 DEF SendIInv, QueueOK, Listed, Reading
  <2> QED
    BY <1>1, <2>1 DEF Hashing
<1>2. CASE serve.at # "returned"
  <2>1. EntryOK(i)
    BY <1>2 DEF SendIInv, EntriesOK
  <2>2. \A c \in Conns : c # 0 /\ (conn[c].at \in {"serves", "checks", "sums"} => conn[c].st = "listed")
    BY ConnsAssumption DEF SendIInv, ConnOK, RecOK
  <2>3. \A x \in Goers : x \in readers <=> Role(x) = <<"reads", i>>
    BY <1>2, <2>2 DEF Role, Reading, Hashing, Goers
  <2>4. readers = ReadersOf(i)
    BY <2>3 DEF ReadersOf, Goers
  <2> HIDE DEF readers
  <2>5. ASSUME readers # {}
        PROVE  entry[i].st = "open" /\ entry[i].refs = Cardinality(readers)
    BY <2>1, <2>4, <2>5 DEF EntryOK, ReadersOf
  <2> QED
    BY <2>5 DEF readers
<1> QED
  BY <1>1, <1>2

\* SendIInv is inductive: what each goroutine of Serve, of a connection and of hashAhead has in
\* hand agrees with the entries, the hashes and the queues, for any Plans.
THEOREM SendIInvHolds == SendSpec => []SendIInv
BY SendInitIInv, SendStepIInv, PTL DEF SendSpec

\* A digest is of the content offered, all of it, whatever was served, hashed ahead or read while
\* the file changed (digest, hashAhead, markServed).
THEOREM DigestHolds == SendSpec => []DigestIsOffered
<1>1. SendIInv => DigestIsOffered
  BY DEF SendIInv
<1> QED
  BY <1>1, SendIInvHolds, PTL

\* A file that is read is open, and each of its readers is counted (acquire, release, closeFiles).
THEOREM ReadFilesHolds == SendSpec => []ReadFilesAreOpen
BY SendReadFiles, SendIInvHolds, PTL

-----------------------------------------------------------------------------
(* The part file.                                                          *)

USE BlocksAssumption, NamesAssumption, FlagsAssumption

LEMMA InitIInv == Init => IInv
<1> SUFFICES ASSUME Init PROVE IInv
  OBVIOUS
<1>1. DiskTypeOK /\ ns \in crash
  BY DEF Init, DiskTypeOK, Names, Entry, Content, Empty
<1>2. FilesOK /\ JournalsOK /\ HandlesOK /\ InvariantJ /\ NamedIsComplete
  BY DEF Init, FilesOK, JournalsOK, HandlesOK, InvariantJ, NamedIsComplete, Empty, Noted
<1>3. MemoryInv
  BY DEF Init, MemoryInv, OwnerTypeOK, MemoryTypeOK, CommitTypeOK, ErrorTypeOK, OpeningOK, MemoryOK, NamingOK, BeforeOpen, Ended
<1> QED
  BY <1>1, <1>2, <1>3 DEF IInv, DiskInv

-----------------------------------------------------------------------------
(* The disk.                                                               *)

\* The disk and the open files are left alone.
LEMMA SameDisk ==
  ASSUME DiskInv, UNCHANGED <<disk, part, journal>>
  PROVE  DiskInv'
BY DEF DiskInv, disk, DiskTypeOK, FilesOK, JournalsOK, HandlesOK, InvariantJ, NamedIsComplete, Noted

\* The files are closed and forgotten.
LEMMA ForgottenDisk ==
  ASSUME DiskInv, UNCHANGED disk, Forget
  PROVE  DiskInv'
BY DEF DiskInv, disk, Forget, DiskTypeOK, FilesOK, JournalsOK, HandlesOK, InvariantJ, NamedIsComplete, Noted

\* A name goes: whatever the power loss, a state of before or the new one.
LEMMA RemovedName ==
  ASSUME DiskInv, NEW n \in Names, SetNames(n), UNCHANGED file,
         n.part \in {ns.part, None}, n.journal \in {ns.journal, None}, n.final = ns.final,
         \/ UNCHANGED <<part, journal>>
         \/ part' = None /\ journal' = None
  PROVE  DiskInv'
<1>1. ns' = n /\ crash' = crash \cup {n} /\ n \in Names
  BY DEF SetNames
<1>2. DiskTypeOK' /\ (ns \in crash)' /\ FilesOK'
  BY <1>1 DEF DiskInv, DiskTypeOK, FilesOK
<1>3. JournalsOK' /\ HandlesOK'
  BY <1>1 DEF DiskInv, JournalsOK, HandlesOK
<1>4. InvariantJ' /\ NamedIsComplete'
  BY <1>1 DEF DiskInv, InvariantJ, NamedIsComplete, Noted
<1> QED
  BY <1>2, <1>3, <1>4 DEF DiskInv

\* A file is synced: nothing is read back that was not, no more is at risk.
LEMMA SyncedFile ==
  ASSUME DiskInv, NEW i \in Inodes, Sync(i), UNCHANGED <<ns, part, journal>>
  PROVE  /\ DiskInv'
         /\ \A j \in Inodes : file'[j].bytes = file[j].bytes /\ file[j].durable \subseteq file'[j].durable
         /\ file'[i].bytes \subseteq file'[i].durable
<1>1. file' = [file EXCEPT ![i] = Flushed(file[i])] /\ crash' = {ns} /\ ns' = ns
  BY DEF Sync
<1>2. /\ file' \in [Inodes -> Content]
      /\ \A j \in Inodes : j # i => file'[j] = file[j]
      /\ file'[i].bytes = file[i].bytes
      /\ file'[i].durable = file[i].durable \cup file[i].dirty
      /\ file'[i].dirty = {}
  BY <1>1 DEF DiskInv, DiskTypeOK, Flushed, Content
<1>3. /\ \A j \in Inodes : file'[j].bytes = file[j].bytes /\ file[j].durable \subseteq file'[j].durable
      /\ file'[i].bytes \subseteq file'[i].durable
  BY <1>2 DEF DiskInv, FilesOK
<1>4. DiskTypeOK' /\ (ns \in crash)' /\ FilesOK'
  BY <1>1, <1>2 DEF DiskInv, DiskTypeOK, FilesOK
<1>5. JournalsOK' /\ HandlesOK'
  BY <1>1 DEF DiskInv, JournalsOK, HandlesOK
<1>6. InvariantJ' /\ NamedIsComplete'
  BY <1>1, <1>3 DEF DiskInv, InvariantJ, NamedIsComplete, Noted
<1> QED
  BY <1>3, <1>4, <1>5, <1>6 DEF DiskInv

\* A new file is one no state of the names knows.
LEMMA FreeIsNew ==
  ASSUME NEW j \in Free
  PROVE  /\ j \in Inodes /\ j # part /\ j # journal
         /\ \A s \in crash : j # s.part /\ j # s.journal /\ j # s.final
BY DEF Free

\* A new journal notes nothing, of the data that is open.
LEMMA NewJournal ==
  ASSUME DiskInv, CreateJournal, UNCHANGED part, part = None => ns.part = None
  PROVE  /\ DiskInv' /\ journal' \in Inodes /\ Noted(journal)' = {} /\ ns'.journal = journal'
         /\ ns'.part = ns.part
         /\ \A i \in Inodes : i = part => file'[i] = file[i]
<1> PICK j \in Free :
       /\ file' = [file EXCEPT ![j] = [Empty EXCEPT !.bytes = {Header}, !.dirty = {Header}]]
       /\ journal' = j
       /\ SetNames([ns EXCEPT !.journal = j])
  BY DEF CreateJournal
<1>1. /\ j \in Inodes /\ j # part /\ j # journal
      /\ \A s \in crash : j # s.part /\ j # s.journal /\ j # s.final
  BY FreeIsNew
<1>2. /\ ns' \in Names /\ ns'.journal = j /\ ns'.part = ns.part /\ ns'.final = ns.final
      /\ crash' = crash \cup {ns'}
  BY <1>1 DEF SetNames, DiskInv, DiskTypeOK, Names, Entry
<1>3. /\ file' \in [Inodes -> Content]
      /\ \A i \in Inodes : i # j => file'[i] = file[i]
      /\ file'[j].bytes = {Header} /\ file'[j].dirty = {Header} /\ file'[j].durable = {}
  BY <1>1 DEF DiskInv, DiskTypeOK, Content, Empty, Blocks
<1>4. DiskTypeOK' /\ (ns \in crash)' /\ FilesOK'
  BY <1>2, <1>3 DEF DiskInv, DiskTypeOK, FilesOK
<1>5. JournalsOK' /\ HandlesOK'
  BY <1>1, <1>2 DEF DiskInv, DiskTypeOK, JournalsOK, HandlesOK
<1>6. Noted(journal)' = {}
  BY <1>1, <1>3 DEF Noted
<1>7. InvariantJ' /\ NamedIsComplete'
  BY <1>1, <1>2, <1>3 DEF DiskInv, InvariantJ, NamedIsComplete, Noted
<1> QED
  BY <1>1, <1>2, <1>3, <1>4, <1>5, <1>6, <1>7 DEF DiskInv

\* The journal a Close creates is synced at once, with the names.
LEMMA SyncedJournal ==
  ASSUME DiskInv, part \in Inodes, UNCHANGED part, journal = None, NEW j \in Free,
         file' = [file EXCEPT ![j] = [bytes |-> {Header}, dirty |-> {}, durable |-> {Header}]],
         journal' = j, ns' = [ns EXCEPT !.journal = j], crash' = {ns'}
  PROVE  DiskInv' /\ file'[part] = file[part]
<1>1. /\ j \in Inodes /\ j # part /\ j # journal
      /\ \A s \in crash : j # s.part /\ j # s.journal /\ j # s.final
  BY FreeIsNew
<1>2. ns' \in Names /\ ns'.journal = j /\ ns'.part = ns.part /\ ns'.final = ns.final
  BY <1>1 DEF DiskInv, DiskTypeOK, Names, Entry
<1>3. /\ file' \in [Inodes -> Content]
      /\ \A i \in Inodes : i # j => file'[i] = file[i]
      /\ file'[j].bytes = {Header} /\ file'[j].dirty = {} /\ file'[j].durable = {Header}
  BY <1>1 DEF DiskInv, DiskTypeOK, Content, Blocks
<1>4. DiskTypeOK' /\ (ns \in crash)' /\ FilesOK'
  BY <1>2, <1>3 DEF DiskInv, DiskTypeOK, FilesOK
<1>5. JournalsOK' /\ HandlesOK'
  BY <1>1, <1>2 DEF DiskInv, DiskTypeOK, JournalsOK, HandlesOK
<1>6. InvariantJ' /\ NamedIsComplete'
  BY <1>1, <1>2, <1>3 DEF DiskInv, InvariantJ, NamedIsComplete, Noted
<1> QED
  BY <1>1, <1>3, <1>4, <1>5, <1>6 DEF DiskInv

\* The names as they are become durable.
LEMMA SettledNames ==
  ASSUME DiskInv, crash' = {ns}, UNCHANGED <<ns, file, part, journal>>
  PROVE  DiskInv'
BY DEF DiskInv, DiskTypeOK, FilesOK, JournalsOK, HandlesOK, InvariantJ, NamedIsComplete, Noted

\* Records are written to the open journal: J needs their chunks durable.
LEMMA WrittenRecords ==
  ASSUME DiskInv, NEW records \in SUBSET Chunks, journal \in Inodes \cup {None},
         journal \in Inodes /\ part \in Inodes => records \subseteq file[part].durable,
         file' = [file EXCEPT ![journal] = Written(journal, records)],
         UNCHANGED <<ns, crash, part, journal>>
  PROVE  /\ DiskInv'
         /\ \A i \in Inodes : i = part => file'[i] = file[i]
<1>1. CASE journal = None
  <2>1. file' = file
    BY <1>1 DEF DiskInv, DiskTypeOK
  <2> QED
    BY <2>1, SameDisk DEF disk
<1>2. CASE journal \in Inodes
  <2>1. /\ file' \in [Inodes -> Content]
        /\ \A i \in Inodes : i # journal => file'[i] = file[i]
        /\ file'[journal].bytes = file[journal].bytes \cup records
        /\ file'[journal].durable = file[journal].durable
        /\ file'[journal].dirty = file[journal].dirty \cup records
    BY <1>2 DEF DiskInv, DiskTypeOK, Written, Content, Blocks
  <2>2. DiskTypeOK' /\ (ns \in crash)' /\ FilesOK'
    BY <2>1 DEF DiskInv, DiskTypeOK, FilesOK
  <2>3. JournalsOK' /\ HandlesOK' /\ journal # part
    BY <1>2 DEF DiskInv, JournalsOK, HandlesOK
  <2>4. NamedIsComplete'
    BY <2>1 DEF DiskInv, NamedIsComplete
  <2>5. InvariantJ'
    <3> SUFFICES ASSUME NEW s \in crash, s.part \in Inodes
                 PROVE  Noted(s.journal)' \subseteq file'[s.part].durable
      BY DEF InvariantJ
    <3>1. Noted(s.journal) \subseteq file[s.part].durable
      BY DEF DiskInv, InvariantJ
    <3>2. file[s.part].durable = file'[s.part].durable
      BY <2>1
    <3>3. CASE s.journal = journal
      BY <3>1, <3>2, <3>3, <2>1, <1>2 DEF DiskInv, HandlesOK, Noted
    <3>4. CASE s.journal # journal
      BY <3>1, <3>2, <3>4, <2>1 DEF Noted
    <3> QED
      BY <3>3, <3>4
  <2> QED
    BY <2>1, <2>2, <2>3, <2>4, <2>5 DEF DiskInv
<1> QED
  BY <1>1, <1>2

\* A chunk is written to the open data.
LEMMA WrittenChunk ==
  ASSUME DiskInv, part \in Inodes, NEW c \in Chunks,
         file' = [file EXCEPT ![part] = Written(part, {c})],
         UNCHANGED <<ns, crash, part, journal>>
  PROVE  /\ DiskInv'
         /\ file'[part].bytes = file[part].bytes \cup {c}
         /\ file'[part].durable = file[part].durable
<1>1. /\ file' \in [Inodes -> Content]
      /\ \A i \in Inodes : i # part => file'[i] = file[i]
      /\ file'[part].bytes = file[part].bytes \cup {c}
      /\ file'[part].durable = file[part].durable
      /\ file'[part].dirty = file[part].dirty \cup {c}
  BY DEF DiskInv, DiskTypeOK, Written, Content, Blocks
<1>2. DiskTypeOK' /\ (ns \in crash)' /\ FilesOK'
  BY <1>1 DEF DiskInv, DiskTypeOK, FilesOK
<1>3. JournalsOK' /\ HandlesOK'
  BY DEF DiskInv, JournalsOK, HandlesOK
<1>4. NamedIsComplete'
  BY <1>1 DEF DiskInv, NamedIsComplete
<1>5. InvariantJ'
  BY <1>1 DEF DiskInv, InvariantJ, JournalsOK, Noted
<1> QED
  BY <1>1, <1>2, <1>3, <1>4, <1>5 DEF DiskInv

\* A new .part, whose journal notes nothing yet.
LEMMA NewPart ==
  ASSUME DiskInv, part = None, ns.part = None, ns.journal = journal, Noted(journal) = {},
         UNCHANGED journal, NEW d \in Free,
         file' = [file EXCEPT ![d] = Empty], part' = d,
         SetNames([ns EXCEPT !.part = d])
  PROVE  DiskInv' /\ ns'.part = part' /\ part' \in Inodes
<1>1. /\ d \in Inodes /\ d # part /\ d # journal
      /\ \A s \in crash : d # s.part /\ d # s.journal /\ d # s.final
  BY FreeIsNew
<1>2. /\ ns' \in Names /\ ns'.part = d /\ ns'.journal = ns.journal /\ ns'.final = ns.final
      /\ crash' = crash \cup {ns'}
  BY <1>1 DEF SetNames, DiskInv, DiskTypeOK, Names, Entry
<1>3. /\ file' \in [Inodes -> Content]
      /\ \A i \in Inodes : i # d => file'[i] = file[i]
      /\ file'[d] = Empty
  BY <1>1 DEF DiskInv, DiskTypeOK, Content, Empty
<1>4. DiskTypeOK' /\ (ns \in crash)' /\ FilesOK'
  BY <1>2, <1>3 DEF DiskInv, DiskTypeOK, FilesOK, Empty
<1>5. \A s \in crash : s.journal = journal /\ s.journal \in Inodes => s.part \notin Inodes
  BY DEF DiskInv, HandlesOK
<1>6. JournalsOK'
  BY <1>1, <1>2, <1>5 DEF DiskInv, JournalsOK
<1>7. HandlesOK'
  BY <1>1, <1>2, <1>5 DEF DiskInv, HandlesOK, DiskTypeOK, Names, Entry
<1>8. NamedIsComplete'
  BY <1>1, <1>2, <1>3 DEF DiskInv, NamedIsComplete
<1>9. InvariantJ'
  <2> SUFFICES ASSUME NEW s \in crash', s.part \in Inodes
               PROVE  Noted(s.journal)' \subseteq file'[s.part].durable
    BY DEF InvariantJ
  <2>1. CASE s = ns'
    BY <2>1, <1>1, <1>2, <1>3 DEF Noted
  <2>2. CASE s \in crash
    BY <2>2, <1>1, <1>3 DEF DiskInv, InvariantJ, Noted
  <2> QED
    BY <2>1, <2>2, <1>2
<1> QED
  BY <1>1, <1>2, <1>4, <1>6, <1>7, <1>8, <1>9 DEF DiskInv

\* syncfs: every file is synced.
LEMMA SyncedAll ==
  ASSUME DiskInv, file' = [i \in Inodes |-> Flushed(file[i])], crash' = {ns},
         UNCHANGED <<ns, part, journal>>
  PROVE  /\ DiskInv'
         /\ \A i \in Inodes : file'[i].bytes = file[i].bytes /\ file'[i].bytes \subseteq file'[i].durable
<1>1. \A i \in Inodes : /\ file'[i] \in Content
                        /\ file'[i].bytes = file[i].bytes
                        /\ file'[i].durable = file[i].durable \cup file[i].dirty
                        /\ file'[i].dirty = {}
  BY DEF DiskInv, DiskTypeOK, Flushed, Content
<1>2. \A i \in Inodes : file[i].durable \subseteq file'[i].durable
                        /\ file'[i].bytes \subseteq file'[i].durable
  BY <1>1 DEF DiskInv, FilesOK
<1>3. DiskTypeOK' /\ (ns \in crash)' /\ FilesOK'
  BY <1>1 DEF DiskInv, DiskTypeOK, FilesOK
<1>4. JournalsOK' /\ HandlesOK'
  BY DEF DiskInv, JournalsOK, HandlesOK
<1>5. InvariantJ' /\ NamedIsComplete'
  BY <1>1, <1>2 DEF DiskInv, InvariantJ, NamedIsComplete, Noted
<1> QED
  BY <1>1, <1>2, <1>3, <1>4, <1>5 DEF DiskInv

\* The complete, durable .part gets the final name.
LEMMA RenamedPart ==
  ASSUME DiskInv, part \in Inodes, ns.part = part, Chunks \subseteq file[part].durable,
         SetNames([ns EXCEPT !.part = None, !.final = part]),
         UNCHANGED <<file, part, journal>>
  PROVE  DiskInv'
<1>1. /\ ns' \in Names /\ ns'.part = None /\ ns'.journal = ns.journal /\ ns'.final = part
      /\ crash' = crash \cup {ns'}
  BY DEF SetNames, DiskInv, DiskTypeOK, Names, Entry
<1>2. DiskTypeOK' /\ (ns \in crash)' /\ FilesOK'
  BY <1>1 DEF DiskInv, DiskTypeOK, FilesOK
<1>3. JournalsOK' /\ HandlesOK'
  BY <1>1 DEF DiskInv, JournalsOK, HandlesOK
<1>4. InvariantJ' /\ NamedIsComplete'
  BY <1>1 DEF DiskInv, InvariantJ, NamedIsComplete, Noted
<1> QED
  BY <1>2, <1>3, <1>4 DEF DiskInv

\* A file of the user takes the final name.
LEMMA TakenName ==
  ASSUME DiskInv, SetNames([ns EXCEPT !.final = User]), UNCHANGED <<file, part, journal>>
  PROVE  DiskInv' /\ ns'.part = ns.part /\ ns'.journal = ns.journal
<1>1. /\ ns' \in Names /\ ns'.part = ns.part /\ ns'.journal = ns.journal /\ ns'.final = User
      /\ crash' = crash \cup {ns'}
  BY DEF SetNames, DiskInv, DiskTypeOK, Names, Entry
<1>2. DiskTypeOK' /\ (ns \in crash)' /\ FilesOK'
  BY <1>1 DEF DiskInv, DiskTypeOK, FilesOK
<1>3. JournalsOK' /\ HandlesOK'
  BY <1>1 DEF DiskInv, JournalsOK, HandlesOK
<1>4. InvariantJ' /\ NamedIsComplete'
  BY <1>1 DEF DiskInv, InvariantJ, NamedIsComplete, Noted
<1> QED
  BY <1>1, <1>2, <1>3, <1>4 DEF DiskInv

\* The power goes: what is left was durable, or is now; the names are those of
\* a state the invariant already speaks of.
LEMMA PowerLossDisk ==
  ASSUME DiskInv, PowerLoss
  PROVE  DiskInv'
<1> PICK s \in crash :
       LET named == {s.part, s.journal, s.final} \cap Inodes
       IN /\ ns' = s /\ crash' = {s}
          /\ \E lost \in SUBSET UNION {{<<i, b>> : b \in file[i].bytes \ file[i].durable} : i \in named} :
               file' = [i \in Inodes |->
                          LET left == {b \in file[i].bytes : i \in named /\ <<i, b>> \notin lost}
                          IN [bytes |-> left, dirty |-> {}, durable |-> left]]
  BY DEF PowerLoss
<1> DEFINE named == {s.part, s.journal, s.final} \cap Inodes
<1> PICK lost \in SUBSET UNION {{<<i, b>> : b \in file[i].bytes \ file[i].durable} : i \in named} :
       file' = [i \in Inodes |->
                  LET left == {b \in file[i].bytes : i \in named /\ <<i, b>> \notin lost}
                  IN [bytes |-> left, dirty |-> {}, durable |-> left]]
  OBVIOUS
<1> DEFINE left(i) == {b \in file[i].bytes : i \in named /\ <<i, b>> \notin lost}
<1>1. ns' = s /\ crash' = {s} /\ part' = None /\ journal' = None
  BY DEF PowerLoss, Restart, Forget
<1>2. \A i \in Inodes : file'[i] = [bytes |-> left(i), dirty |-> {}, durable |-> left(i)]
  OBVIOUS
<1>3. \A i \in named : left(i) \subseteq file[i].bytes /\ file[i].durable \subseteq left(i)
  <2> SUFFICES ASSUME NEW i \in named PROVE file[i].durable \subseteq left(i)
    OBVIOUS
  <2>1. file[i].durable \subseteq file[i].bytes
    BY DEF DiskInv, FilesOK
  <2>2. \A b \in file[i].durable : <<i, b>> \notin lost
    OBVIOUS
  <2> QED
    BY <2>1, <2>2
<1>4. file' \in [Inodes -> Content]
  <2>1. \A i \in Inodes : left(i) \in SUBSET Blocks
    BY DEF DiskInv, DiskTypeOK, Content
  <2> HIDE DEF left
  <2>2. file' = [i \in Inodes |-> [bytes |-> left(i), dirty |-> {}, durable |-> left(i)]]
    BY DEF left
  <2> QED
    BY <2>1, <2>2 DEF Content
<1> HIDE DEF left
<1>5. DiskTypeOK' /\ (ns \in crash)' /\ FilesOK'
  BY <1>1, <1>2, <1>4 DEF DiskInv, DiskTypeOK, FilesOK
<1>6. JournalsOK' /\ HandlesOK'
  BY <1>1 DEF DiskInv, JournalsOK, HandlesOK
<1>7. InvariantJ' /\ NamedIsComplete'
  BY <1>1, <1>2, <1>3 DEF DiskInv, InvariantJ, NamedIsComplete, Noted
<1> QED
  BY <1>5, <1>6, <1>7 DEF DiskInv

-----------------------------------------------------------------------------
(* The steps.                                                              *)

\* Resolve and Open: a new journal, a new .part, leftovers removed.
LEMMA OpenStep ==
  ASSUME IInv, SyncDrops = FALSE, Resolve \/ Open
  PROVE  IInv'
<1> USE DEF IInv, MemoryInv, OwnerTypeOK, MemoryTypeOK, CommitTypeOK, ErrorTypeOK,
           OpeningOK, MemoryOK, NamingOK, BeforeOpen, Ended, disk, mem, commits
<1>1. CASE Resolve
  <2>1. DiskInv'
    BY <1>1, ForgottenDisk DEF Resolve, Forget, NoFile
  <2>2. MemoryInv'
    BY <1>1 DEF Resolve, Forget, NoFile
  <2> QED
    BY <2>1, <2>2
<1>2. CASE OpenResume
  <2>1. DiskInv'
    <3>1. part' = ns.part /\ journal' = ns.journal /\ UNCHANGED <<ns, crash, file>> /\ ns.part \in Inodes
          /\ ns.journal \in Inodes
      BY <1>2 DEF OpenResume, Ours, Readable
    <3>2. HandlesOK'
      BY <3>1 DEF DiskInv, JournalsOK, HandlesOK
    <3> QED
      BY <3>1, <3>2 DEF DiskInv, DiskTypeOK, FilesOK, JournalsOK, HandlesOK, InvariantJ, NamedIsComplete, Noted
  <2>2. /\ part' \in Inodes /\ journal' \in Inodes /\ have' \subseteq Noted(ns.journal)
        /\ Noted(ns.journal) \subseteq file[ns.part].bytes /\ Noted(ns.journal) \subseteq Chunks
    BY <1>2 DEF OpenResume, Ours, Readable, DiskInv, InvariantJ, FilesOK, Noted
  <2>3. MemoryInv'
    BY <1>2, <2>2 DEF OpenResume
  <2> QED
    BY <2>1, <2>2, <2>3
<1>3. CASE OpenStale
  <2>1. DiskInv'
    BY <1>3, SameDisk DEF OpenStale
  <2>2. MemoryInv'
    BY <1>3 DEF OpenStale
  <2> QED
    BY <2>1, <2>2
<1>4. CASE OpenForeign
  <2>1. DiskInv'
    BY <1>4, SameDisk DEF OpenForeign
  <2>2. MemoryInv'
    BY <1>4 DEF OpenForeign
  <2> QED
    BY <2>1, <2>2
<1>5. CASE OpenNew
  <2>1. DiskInv'
    BY <1>5, SameDisk DEF OpenNew
  <2>2. MemoryInv'
    BY <1>5 DEF OpenNew
  <2> QED
    BY <2>1, <2>2
<1>6. CASE RemoveStale
  <2>1. DiskInv'
    <3> DEFINE p == [ns EXCEPT !.part = None]
               j == [ns EXCEPT !.journal = None]
    <3>1. /\ p \in Names /\ p.part = None /\ p.journal = ns.journal /\ p.final = ns.final
          /\ j \in Names /\ j.part = ns.part /\ j.journal = None /\ j.final = ns.final
      BY DEF DiskInv, DiskTypeOK, Names, Entry
    <3>2. UNCHANGED <<file, part, journal>>
      BY <1>6 DEF RemoveStale
    <3> HIDE DEF p, j
    <3>3. CASE SetNames(p)
      BY <3>1, <3>2, <3>3, RemovedName
    <3>4. CASE SetNames(j)
      BY <3>1, <3>2, <3>4, RemovedName
    <3>5. CASE UNCHANGED <<ns, crash>>
      BY <3>2, <3>5, SameDisk
    <3> QED
      BY <1>6, <3>3, <3>4, <3>5 DEF RemoveStale, p, j
  <2>2. MemoryInv'
    BY <1>6 DEF RemoveStale, SetNames, DiskInv, DiskTypeOK, Names
  <2> QED
    BY <2>1, <2>2
<1>7. CASE OpenJournal
  <2>1. CASE UNCHANGED <<disk, journal, handles>>
    <3>1. DiskInv'
      BY <1>7, <2>1, SameDisk DEF OpenJournal
    <3>2. MemoryInv'
      BY <1>7, <2>1 DEF OpenJournal, CreateJournal, Noted
    <3> QED
      BY <3>1, <3>2
  <2>2. CASE CreateJournal /\ pc' = "mkpart"
    <3>1. UNCHANGED <<op, stage, have, pending, part, commits>> /\ part = None /\ ns.part = None
      BY <1>7 DEF OpenJournal
    <3>2. /\ DiskInv' /\ journal' \in Inodes /\ Noted(journal)' = {} /\ ns'.journal = journal'
          /\ ns'.part = ns.part
      BY <2>2, <3>1, NewJournal
    <3>3. MemoryInv'
      BY <1>7, <2>2, <3>1, <3>2 DEF OpenJournal, CreateJournal
    <3> QED
      BY <3>2, <3>3
  <2> QED
    BY <1>7, <2>1, <2>2 DEF OpenJournal
<1>8. CASE OpenPart
  <2>1. PICK d \in Free : /\ file' = [file EXCEPT ![d] = Empty] /\ part' = d
                          /\ SetNames([ns EXCEPT !.part = d])
    BY <1>8 DEF OpenPart
  <2>2. /\ part = None /\ ns.part = None /\ ns.journal = journal /\ Noted(journal) = {} /\ UNCHANGED journal
    BY <1>8 DEF OpenPart
  <2>3. DiskInv' /\ ns'.part = part' /\ part' \in Inodes
    BY <2>1, <2>2, NewPart
  <2>4. MemoryInv'
    BY <1>8, <2>2, <2>3 DEF OpenPart
  <2> QED
    BY <2>3, <2>4
<1>9. CASE OpenPartFails
  <2>1. DiskInv'
    <3> DEFINE j == [ns EXCEPT !.journal = None]
    <3>1. /\ j \in Names /\ j.part = ns.part /\ j.journal = None /\ j.final = ns.final
      BY DEF DiskInv, DiskTypeOK, Names, Entry
    <3>2. UNCHANGED file /\ Forget /\ part' = None /\ journal' = None
      BY <1>9 DEF OpenPartFails, Forget
    <3> HIDE DEF j
    <3>3. CASE SetNames(j)
      BY <3>1, <3>2, <3>3, RemovedName
    <3>4. CASE UNCHANGED <<ns, crash>>
      BY <3>2, <3>4, ForgottenDisk
    <3> QED
      BY <1>9, <3>3, <3>4 DEF OpenPartFails, j
  <2>2. MemoryInv'
    BY <1>9 DEF OpenPartFails, Forget
  <2> QED
    BY <2>1, <2>2
<1> QED
  BY <1>1, <1>2, <1>3, <1>4, <1>5, <1>6, <1>7, <1>8, <1>9 DEF Open

\* The writers: a chunk written, noted, and perhaps a commit started or waited for.
LEMMA WriteStep ==
  ASSUME IInv, SyncDrops = FALSE, Write
  PROVE  IInv'
<1> USE DEF IInv, MemoryInv, OwnerTypeOK, MemoryTypeOK, CommitTypeOK, ErrorTypeOK,
           OpeningOK, MemoryOK, NamingOK, BeforeOpen, Ended, disk, mem, commits
<1>1. ASSUME NEW c \in Chunks, WriteAt(c) PROVE IInv'
  <2>1. part \in Inodes /\ UNCHANGED <<ns, crash, part, journal>>
        /\ file' = [file EXCEPT ![part] = Written(part, {c})]
    BY <1>1 DEF WriteAt
  <2>2. /\ DiskInv'
        /\ file'[part].bytes = file[part].bytes \cup {c}
        /\ file'[part].durable = file[part].durable
    BY <2>1, WrittenChunk
  <2>3. Noted(journal)' = Noted(journal)
    BY <2>1 DEF DiskInv, HandlesOK, DiskTypeOK, Noted
  <2>4. MemoryInv'
    BY <1>1, <2>1, <2>2, <2>3, SMTT(30) DEF WriteAt, SetStage
  <2> QED
    BY <2>2, <2>4
<1>2. ASSUME NEW c \in Chunks, NotePending(c) PROVE IInv'
  <2>1. DiskInv'
    BY <1>2, SameDisk DEF NotePending, SetStage
  <2>2. MemoryInv'
    BY <1>2 DEF NotePending, SetStage
  <2> QED
    BY <2>1, <2>2
<1>3. ASSUME NEW c \in Chunks, CommitIfDue(c) PROVE IInv'
  <2>1. DiskInv'
    BY <1>3, SameDisk DEF CommitIfDue, StartCommit, SetStage, TakeError
  <2>2. OwnerTypeOK' /\ MemoryTypeOK' /\ CommitTypeOK'
    BY <1>3 DEF CommitIfDue, StartCommit, SetStage, TakeError
  <2>3. ErrorTypeOK'
    BY <1>3 DEF CommitIfDue, StartCommit, SetStage, TakeError
  <2>4. OpeningOK' /\ MemoryOK' /\ NamingOK'
    BY <1>3 DEF CommitIfDue, StartCommit, SetStage, TakeError
  <2> QED
    BY <2>1, <2>2, <2>3, <2>4
<1>4. ASSUME NEW c \in Chunks, CommitAfterWait(c) PROVE IInv'
  <2>1. DiskInv'
    BY <1>4, SameDisk DEF CommitAfterWait, StartCommit, SetStage, TakeError
  <2>2. OwnerTypeOK' /\ MemoryTypeOK' /\ CommitTypeOK'
    BY <1>4 DEF CommitAfterWait, StartCommit, SetStage, TakeError
  <2>3. ErrorTypeOK'
    BY <1>4 DEF CommitAfterWait, StartCommit, SetStage, TakeError
  <2>4. OpeningOK' /\ MemoryOK' /\ NamingOK'
    BY <1>4 DEF CommitAfterWait, StartCommit, SetStage, TakeError
  <2> QED
    BY <2>1, <2>2, <2>3, <2>4
<1> QED
  BY <1>1, <1>2, <1>3, <1>4 DEF Write

\* A commit: the data synced, the records written, the journal synced.
LEMMA CommitStep ==
  ASSUME IInv, SyncDrops = FALSE, Commit
  PROVE  IInv'
<1> USE DEF IInv, MemoryInv, OwnerTypeOK, MemoryTypeOK, CommitTypeOK, ErrorTypeOK,
           OpeningOK, MemoryOK, NamingOK, BeforeOpen, Ended, disk, mem, commits
<1>1. CASE BgTakes
  <2>1. DiskInv'
    BY <1>1, SameDisk DEF BgTakes, TakePending
  <2>2. OwnerTypeOK' /\ MemoryTypeOK' /\ CommitTypeOK'
    BY <1>1 DEF BgTakes, TakePending
  <2>3. ErrorTypeOK'
    BY <1>1 DEF BgTakes, TakePending
  <2>4. OpeningOK' /\ MemoryOK' /\ NamingOK'
    BY <1>1 DEF BgTakes, TakePending
  <2> QED
    BY <2>1, <2>2, <2>3, <2>4
<1>2. CASE BgFindsNothing
  <2>1. DiskInv'
    BY <1>2, SameDisk DEF BgFindsNothing
  <2>2. \A c \in Chunks : stage[c] = "idle" => stage'[c] = "idle"
    BY <1>2 DEF BgFindsNothing, BgEnds
  <2>3. \A c \in Chunks : stage'[c] = "written" => stage[c] = "written"
    BY <1>2 DEF BgFindsNothing, BgEnds
  <2>4. UNCHANGED <<file, ns, pc, op, have, pending, part, journal, batch, holder, cstep>>
    BY <1>2 DEF BgFindsNothing
  <2>5. OwnerTypeOK' /\ MemoryTypeOK' /\ CommitTypeOK'
    BY <1>2, <2>2, <2>3, <2>4 DEF BgFindsNothing, BgEnds, Noted
  <2>6. ErrorTypeOK'
    BY <1>2 DEF BgFindsNothing, BgEnds, Noted
  <2>7. OpeningOK'
    BY <1>2, <2>2, <2>3, <2>4 DEF BgFindsNothing, BgEnds, Noted
  <2>8. MemoryOK'
    BY <1>2, <2>2, <2>3, <2>4 DEF BgFindsNothing, BgEnds, Noted
  <2>9. NamingOK'
    BY <1>2, <2>2, <2>3, <2>4 DEF BgFindsNothing, BgEnds, Noted
  <2> QED
    BY <2>1, <2>5, <2>6, <2>7, <2>8, <2>9
<1>3. CASE CommitSync
  <2>1. part \in Inodes /\ UNCHANGED <<ns, part, journal>> /\ Sync(part)
    BY <1>3 DEF CommitSync
  <2>2. /\ DiskInv'
        /\ \A j \in Inodes : file'[j].bytes = file[j].bytes /\ file[j].durable \subseteq file'[j].durable
        /\ file'[part].bytes \subseteq file'[part].durable
    BY <2>1, SyncedFile
  <2>3. MemoryInv'
    BY <1>3, <2>1, <2>2 DEF CommitSync, Noted
  <2> QED
    BY <2>2, <2>3
<1>4. CASE CommitSyncFails
  <2>1. DiskInv'
    BY <1>4, SameDisk DEF CommitSyncFails, SyncFails, CommitReturns, BgEnds
  <2>2. OwnerTypeOK' /\ MemoryTypeOK' /\ CommitTypeOK'
    BY <1>4 DEF CommitSyncFails, SyncFails, CommitReturns, BgEnds
  <2>3. ErrorTypeOK'
    BY <1>4 DEF CommitSyncFails, SyncFails, CommitReturns, BgEnds
  <2>4. OpeningOK' /\ MemoryOK' /\ NamingOK'
    BY <1>4 DEF CommitSyncFails, SyncFails, CommitReturns, BgEnds
  <2> QED
    BY <2>1, <2>2, <2>3, <2>4
<1>5. CASE CommitEnsure
  <2>1. CASE UNCHANGED <<disk, journal, handles>>
    <3>1. DiskInv'
      BY <1>5, <2>1, SameDisk DEF CommitEnsure
    <3>2. MemoryInv'
      BY <1>5, <2>1 DEF CommitEnsure, Noted
    <3> QED
      BY <3>1, <3>2
  <2>2. CASE journal = None /\ CreateJournal
    <3>1. part \in Inodes /\ UNCHANGED part
      BY <1>5 DEF CommitEnsure
    <3>2. /\ DiskInv' /\ journal' \in Inodes /\ file'[part] = file[part]
      BY <2>2, <3>1, NewJournal
    <3>3. OwnerTypeOK' /\ MemoryTypeOK' /\ CommitTypeOK'
      BY <1>5, <2>2, <3>1, <3>2 DEF CommitEnsure, CreateJournal
    <3>4. ErrorTypeOK'
      BY <1>5 DEF CommitEnsure
    <3>5. OpeningOK' /\ MemoryOK' /\ NamingOK'
      BY <1>5, <3>1, <3>2 DEF CommitEnsure
    <3> QED
      BY <3>2, <3>3, <3>4, <3>5
  <2> QED
    BY <1>5, <2>1, <2>2 DEF CommitEnsure
<1>6. CASE CommitEnsureFails
  <2>1. DiskInv'
    BY <1>6, SameDisk DEF CommitEnsureFails, CommitReturns, BgEnds
  <2>2. OwnerTypeOK' /\ MemoryTypeOK' /\ CommitTypeOK'
    BY <1>6 DEF CommitEnsureFails, CommitReturns, BgEnds
  <2>3. ErrorTypeOK'
    BY <1>6 DEF CommitEnsureFails, CommitReturns, BgEnds
  <2>4. OpeningOK' /\ MemoryOK' /\ NamingOK'
    BY <1>6 DEF CommitEnsureFails, CommitReturns, BgEnds
  <2> QED
    BY <2>1, <2>2, <2>3, <2>4
<1>7. CASE CommitRecords
  <2>1. part \in Inodes /\ batch \in SUBSET Chunks /\ batch \subseteq file[part].durable
        /\ UNCHANGED <<ns, crash, part, journal>>
        /\ file' = [file EXCEPT ![journal] = Written(journal, batch)]
    BY <1>7 DEF CommitRecords
  <2>2. DiskInv' /\ file'[part] = file[part]
    BY <2>1, WrittenRecords
  <2>3. MemoryInv'
    BY <1>7, <2>1, <2>2 DEF CommitRecords, Noted
  <2> QED
    BY <2>2, <2>3
<1>8. CASE CommitRecordsFail
  <2>1. part \in Inodes /\ batch \in SUBSET Chunks /\ batch \subseteq file[part].durable
        /\ UNCHANGED <<ns, crash, part, journal>>
    BY <1>8 DEF CommitRecordsFail, CommitReturns
  <2>2. DiskInv' /\ file'[part] = file[part]
    <3>1. CASE UNCHANGED disk
      BY <2>1, <3>1, SameDisk
    <3>2. ASSUME NEW some \in SUBSET batch, file' = [file EXCEPT ![journal] = Written(journal, some)]
          PROVE  DiskInv' /\ file'[part] = file[part]
      BY <2>1, <3>2, WrittenRecords
    <3> QED
      BY <1>8, <3>1, <3>2 DEF CommitRecordsFail
  <2>3. OwnerTypeOK' /\ MemoryTypeOK' /\ CommitTypeOK'
    BY <1>8, <2>1, <2>2 DEF CommitRecordsFail, CommitReturns, BgEnds
  <2>4. ErrorTypeOK'
    BY <1>8 DEF CommitRecordsFail, CommitReturns, BgEnds
  <2>5. OpeningOK' /\ MemoryOK' /\ NamingOK'
    BY <1>8, <2>1, <2>2 DEF CommitRecordsFail, CommitReturns, BgEnds
  <2> QED
    BY <2>2, <2>3, <2>4, <2>5
<1>9. CASE CommitJournalSync
  <2>1. part \in Inodes /\ UNCHANGED <<ns, part, journal>> /\ Sync(journal)
    BY <1>9 DEF CommitJournalSync, CommitReturns
  <2>2. DiskInv' /\ \A j \in Inodes : file'[j].bytes = file[j].bytes /\ file[j].durable \subseteq file'[j].durable
    <3>1. CASE journal = None
      <4>1. file' = file /\ crash' = {ns}
        BY <2>1, <3>1 DEF Sync, DiskInv, DiskTypeOK
      <4> QED
        BY <2>1, <4>1, SettledNames
    <3>2. CASE journal \in Inodes
      BY <2>1, <3>2, SyncedFile
    <3> QED
      BY <3>1, <3>2
  <2>3. OwnerTypeOK' /\ MemoryTypeOK' /\ CommitTypeOK'
    BY <1>9, <2>1, <2>2 DEF CommitJournalSync, CommitReturns, BgEnds
  <2>4. ErrorTypeOK'
    BY <1>9 DEF CommitJournalSync, CommitReturns, BgEnds
  <2>5. OpeningOK' /\ MemoryOK' /\ NamingOK'
    BY <1>9, <2>1, <2>2 DEF CommitJournalSync, CommitReturns, BgEnds
  <2> QED
    BY <2>2, <2>3, <2>4, <2>5
<1>10. CASE CommitJournalSyncFails
  <2>1. DiskInv'
    BY <1>10, SameDisk DEF CommitJournalSyncFails, SyncFails, CommitReturns, BgEnds
  <2>2. OwnerTypeOK' /\ MemoryTypeOK' /\ CommitTypeOK'
    BY <1>10 DEF CommitJournalSyncFails, SyncFails, CommitReturns, BgEnds
  <2>3. ErrorTypeOK'
    BY <1>10 DEF CommitJournalSyncFails, SyncFails, CommitReturns, BgEnds
  <2>4. OpeningOK' /\ MemoryOK' /\ NamingOK'
    BY <1>10 DEF CommitJournalSyncFails, SyncFails, CommitReturns, BgEnds
  <2> QED
    BY <2>1, <2>2, <2>3, <2>4
<1> QED
  BY <1>1, <1>2, <1>3, <1>4, <1>5, <1>6, <1>7, <1>8, <1>9, <1>10 DEF Commit

\* The owner begins: the disk is left alone.
LEMMA BeginStep ==
  ASSUME IInv, SyncDrops = FALSE, Owner
  PROVE  IInv'
<1> USE DEF IInv, MemoryInv, OwnerTypeOK, MemoryTypeOK, CommitTypeOK, ErrorTypeOK,
           OpeningOK, MemoryOK, NamingOK, BeforeOpen, Ended, disk, mem, commits
<1>1. CASE Close
  <2>1. DiskInv'
    BY <1>1, SameDisk DEF Close, Begin, Complete, Busy
  <2>2. MemoryInv'
    BY <1>1 DEF Close, Begin, Complete, Busy
  <2> QED
    BY <2>1, <2>2
<1>2. CASE Suspend
  <2>1. DiskInv'
    BY <1>2, SameDisk DEF Suspend, Begin, Complete, Busy
  <2>2. MemoryInv'
    BY <1>2 DEF Suspend, Begin, Complete, Busy
  <2> QED
    BY <2>1, <2>2
<1>3. CASE Discard
  <2>1. DiskInv'
    BY <1>3, SameDisk DEF Discard, Begin, Complete, Busy
  <2>2. MemoryInv'
    BY <1>3 DEF Discard, Begin, Complete, Busy
  <2> QED
    BY <2>1, <2>2
<1>4. CASE Finalize
  <2>1. DiskInv'
    BY <1>4, SameDisk DEF Finalize, Begin, Complete, Busy
  <2>2. MemoryInv'
    BY <1>4 DEF Finalize, Begin, Complete, Busy
  <2> QED
    BY <2>1, <2>2
<1>5. CASE BatchAdd
  <2>1. DiskInv'
    BY <1>5, SameDisk DEF BatchAdd, Begin, Complete, Busy
  <2>2. MemoryInv'
    BY <1>5 DEF BatchAdd, Begin, Complete, Busy
  <2> QED
    BY <2>1, <2>2
<1> QED
  BY <1>1, <1>2, <1>3, <1>4, <1>5 DEF Owner

\* Close, Suspend and Discard, to their end.
LEMMA ClosingStep ==
  ASSUME IInv, SyncDrops = FALSE, Settle \/ CloseCommits \/ CloseHeader \/ CloseFiles \/ Unlink \/ UnlinkJournal
  PROVE  IInv'
<1> USE DEF IInv, MemoryInv, OwnerTypeOK, MemoryTypeOK, CommitTypeOK, ErrorTypeOK,
           OpeningOK, MemoryOK, NamingOK, BeforeOpen, Ended, disk, mem, commits
<1>1. CASE Settle
  <2>1. DiskInv'
    BY <1>1, SameDisk DEF Settle
  <2>2. OwnerTypeOK' /\ MemoryTypeOK' /\ CommitTypeOK'
    BY <1>1 DEF Settle
  <2>3. ErrorTypeOK'
    BY <1>1 DEF Settle
  <2>4. OpeningOK' /\ MemoryOK' /\ NamingOK'
    BY <1>1 DEF Settle
  <2> QED
    BY <2>1, <2>2, <2>3, <2>4
<1>2. CASE CloseCommits
  <2>1. DiskInv'
    BY <1>2, SameDisk DEF CloseCommits, TakePending
  <2>2. MemoryInv'
    BY <1>2 DEF CloseCommits, TakePending
  <2> QED
    BY <2>1, <2>2
<1>3. CASE CloseHeader
  <2>1. CASE UNCHANGED <<disk, journal, handles>>
    <3>1. DiskInv'
      BY <1>3, <2>1, SameDisk DEF CloseHeader
    <3>2. MemoryInv'
      BY <1>3, <2>1 DEF CloseHeader, Noted
    <3> QED
      BY <3>1, <3>2
  <2>2. CASE journal = None /\ CreateJournal
    <3>1. part \in Inodes /\ UNCHANGED part
      BY <1>3 DEF CloseHeader
    <3>2. DiskInv' /\ journal' \in Inodes /\ file'[part] = file[part]
      BY <2>2, <3>1, NewJournal
    <3>3. handles' \in SUBSET {"part", "journal"}
      BY <2>2 DEF CreateJournal
    <3>4. OwnerTypeOK' /\ MemoryTypeOK' /\ CommitTypeOK' /\ ErrorTypeOK'
      BY <1>3, <3>1, <3>2, <3>3 DEF CloseHeader
    <3>5. OpeningOK' /\ MemoryOK' /\ NamingOK'
      BY <1>3, <3>1, <3>2 DEF CloseHeader
    <3> QED
      BY <3>2, <3>4, <3>5
  <2>3. ASSUME journal = None, NEW j \in Free,
               file' = [file EXCEPT ![j] = [bytes |-> {Header}, dirty |-> {}, durable |-> {Header}]],
               journal' = j, ns' = [ns EXCEPT !.journal = j], crash' = {ns'}
        PROVE  IInv'
    <3>1. part \in Inodes /\ UNCHANGED part /\ UNCHANGED <<op, stage, have, pending, commits>>
          /\ pc = "header" /\ pc' = "closing"
      BY <1>3 DEF CloseHeader
    <3>5. handles' \in SUBSET {"part", "journal"}
      BY <1>3 DEF CloseHeader, CreateJournal
    <3>2. DiskInv' /\ file'[part] = file[part]
      BY <2>3, <3>1, SyncedJournal
    <3>3. journal' \in Inodes
      BY <2>3, FreeIsNew
    <3>4. MemoryInv'
      BY <3>1, <3>2, <3>3, <3>5
    <3> QED
      BY <3>2, <3>4
  <2> QED
    BY <1>3, <2>1, <2>2, <2>3 DEF CloseHeader
<1>4. CASE CloseFiles
  <2>1. DiskInv'
    BY <1>4, SameDisk, ForgottenDisk DEF CloseFiles
  <2>2. MemoryInv'
    BY <1>4, ZenonT(40) DEF CloseFiles, Forget
  <2> QED
    BY <2>1, <2>2
<1>5. CASE Unlink
  <2>1. DiskInv'
    <3> DEFINE n == [ns EXCEPT !.part = None]
    <3>1. /\ n \in Names /\ n.part \in {ns.part, None} /\ n.journal \in {ns.journal, None}
          /\ n.final = ns.final
      BY DEF DiskInv, DiskTypeOK, Names, Entry
    <3>2. UNCHANGED file /\ (UNCHANGED <<part, journal>> \/ (Forget /\ part' = None /\ journal' = None))
      BY <1>5 DEF Unlink, Forget
    <3> HIDE DEF n
    <3>3. CASE SetNames(n)
      BY <3>1, <3>2, <3>3, RemovedName
    <3>4. CASE UNCHANGED <<ns, crash>>
      BY <3>2, <3>4, SameDisk, ForgottenDisk
    <3> QED
      BY <1>5, <3>3, <3>4 DEF Unlink, n
  <2>2. MemoryInv'
    BY <1>5, ZenonT(40) DEF Unlink, Forget, SetNames, DiskInv, DiskTypeOK, Names
  <2> QED
    BY <2>1, <2>2
<1>6. CASE UnlinkJournal
  <2>1. DiskInv'
    <3> DEFINE n == [ns EXCEPT !.journal = None]
    <3>1. /\ n \in Names /\ n.part \in {ns.part, None} /\ n.journal \in {ns.journal, None}
          /\ n.final = ns.final
      BY DEF DiskInv, DiskTypeOK, Names, Entry
    <3>2. UNCHANGED file /\ (UNCHANGED <<part, journal>> \/ (Forget /\ part' = None /\ journal' = None))
      BY <1>6 DEF UnlinkJournal, Forget
    <3> HIDE DEF n
    <3>3. CASE SetNames(n)
      BY <3>1, <3>2, <3>3, RemovedName
    <3>4. CASE UNCHANGED <<ns, crash>>
      BY <3>2, <3>4, SameDisk, ForgottenDisk
    <3> QED
      BY <1>6, <3>3, <3>4 DEF UnlinkJournal, n
  <2>2. MemoryInv'
    BY <1>6 DEF UnlinkJournal, Forget
  <2> QED
    BY <2>1, <2>2
<1> QED
  BY <1>1, <1>2, <1>3, <1>4, <1>5, <1>6

\* Finalize and Batch.Flush: the data synced, the name given, the journal removed.
LEMMA NamingStep ==
  ASSUME IInv, SyncDrops = FALSE, \/ FinalSync \/ FinalSyncFails \/ FinalCloseFails
         \/ BatchSync \/ BatchCloseFails \/ BatchSyncFails
         \/ Publish \/ Rename \/ NoteUnnamed \/ SyncFolder \/ DropJournal \/ DropJournalFails
  PROVE  IInv'
<1> USE DEF IInv, MemoryInv, OwnerTypeOK, MemoryTypeOK, CommitTypeOK, ErrorTypeOK,
           OpeningOK, MemoryOK, NamingOK, BeforeOpen, Ended, disk, mem, commits
<1>1. CASE FinalSync
  <2>1. part \in Inodes /\ UNCHANGED <<ns, part, journal>> /\ Sync(part)
    BY <1>1 DEF FinalSync
  <2>2. /\ DiskInv'
        /\ \A j \in Inodes : file'[j].bytes = file[j].bytes /\ file[j].durable \subseteq file'[j].durable
        /\ file'[part].bytes \subseteq file'[part].durable
    BY <2>1, SyncedFile
  <2>3. MemoryInv'
    BY <1>1, <2>1, <2>2 DEF FinalSync, Noted
  <2> QED
    BY <2>2, <2>3
<1>2. CASE FinalSyncFails
  <2>1. DiskInv'
    BY <1>2, SameDisk DEF FinalSyncFails, SyncFails
  <2>2. MemoryInv'
    BY <1>2 DEF FinalSyncFails, SyncFails
  <2> QED
    BY <2>1, <2>2
<1>3. CASE FinalCloseFails
  <2>1. part \in Inodes /\ UNCHANGED <<ns, part, journal>> /\ Sync(part)
    BY <1>3 DEF FinalCloseFails
  <2>2. /\ DiskInv'
        /\ \A j \in Inodes : file'[j].bytes = file[j].bytes /\ file[j].durable \subseteq file'[j].durable
        /\ file'[part].bytes \subseteq file'[part].durable
    BY <2>1, SyncedFile
  <2>3. MemoryInv'
    BY <1>3, <2>1, <2>2 DEF FinalCloseFails, Noted
  <2> QED
    BY <2>2, <2>3
<1>4. CASE BatchSync
  <2>1. part \in Inodes /\ UNCHANGED <<ns, part, journal>>
        /\ file' = [i \in Inodes |-> Flushed(file[i])] /\ crash' = {ns}
    BY <1>4 DEF BatchSync
  <2>2. /\ DiskInv'
        /\ \A i \in Inodes : file'[i].bytes = file[i].bytes /\ file'[i].bytes \subseteq file'[i].durable
    BY <2>1, SyncedAll
  <2>3. MemoryInv'
    BY <1>4, <2>1, <2>2, ZenonT(40) DEF BatchSync, Noted
  <2> QED
    BY <2>2, <2>3
<1>5. CASE BatchSyncFails
  <2>1. DiskInv'
    BY <1>5, SameDisk DEF BatchSyncFails, SyncFails
  <2>2. MemoryInv'
    BY <1>5 DEF BatchSyncFails, SyncFails
  <2> QED
    BY <2>1, <2>2
<1>6. CASE Publish
  <2>1. DiskInv'
    BY <1>6, SameDisk DEF Publish
  <2>2. MemoryInv'
    BY <1>6 DEF Publish
  <2> QED
    BY <2>1, <2>2
<1>7. CASE Rename
  <2>1. part \in Inodes /\ Chunks \subseteq file[part].durable /\ UNCHANGED <<file, part, journal>>
    BY <1>7 DEF Rename
  <2>2. DiskInv'
    <3>1. CASE UNCHANGED <<ns, crash>>
      BY <2>1, <3>1, SameDisk
    <3>2. CASE ns.part = part /\ SetNames([ns EXCEPT !.part = None, !.final = part])
      BY <2>1, <3>2, RenamedPart
    <3> QED
      BY <1>7, <3>1, <3>2 DEF Rename
  <2>3. MemoryInv'
    BY <1>7, <2>1 DEF Rename, Noted
  <2> QED
    BY <2>2, <2>3
<1>8. CASE NoteUnnamed
  <2>1. DiskInv'
    BY <1>8, SameDisk DEF NoteUnnamed, TakePending
  <2>2. MemoryInv'
    BY <1>8 DEF NoteUnnamed, TakePending
  <2> QED
    BY <2>1, <2>2
<1>9. CASE SyncFolder
  <2>1. DiskInv'
    <3>1. UNCHANGED <<ns, file, part, journal>> /\ (crash' = {ns} \/ crash' = crash)
      BY <1>9 DEF SyncFolder
    <3> QED
      BY <3>1, SettledNames, SameDisk
  <2>2. MemoryInv'
    BY <1>9 DEF SyncFolder, Noted
  <2> QED
    BY <2>1, <2>2
<1>10. CASE DropJournal
  <2>1. DiskInv'
    <3> DEFINE n == [ns EXCEPT !.journal = None]
    <3>1. /\ n \in Names /\ n.part \in {ns.part, None} /\ n.journal \in {ns.journal, None}
          /\ n.final = ns.final
      BY DEF DiskInv, DiskTypeOK, Names, Entry
    <3>2. UNCHANGED file /\ (UNCHANGED <<part, journal>> \/ (Forget /\ part' = None /\ journal' = None))
      BY <1>10 DEF DropJournal, Forget
    <3> HIDE DEF n
    <3>3. CASE SetNames(n)
      BY <3>1, <3>2, <3>3, RemovedName
    <3>4. CASE UNCHANGED <<ns, crash>>
      BY <3>2, <3>4, SameDisk, ForgottenDisk
    <3> QED
      BY <1>10, <3>3, <3>4 DEF DropJournal, n
  <2>2. MemoryInv'
    BY <1>10 DEF DropJournal
  <2> QED
    BY <2>1, <2>2
<1>11. CASE DropJournalFails
  <2>1. DiskInv'
    BY <1>11, SameDisk DEF DropJournalFails
  <2>2. MemoryInv'
    BY <1>11 DEF DropJournalFails
  <2> QED
    BY <2>1, <2>2
<1>12. CASE BatchCloseFails
  <2>1. part \in Inodes /\ UNCHANGED <<ns, part, journal>>
        /\ file' = [i \in Inodes |-> Flushed(file[i])] /\ crash' = {ns}
    BY <1>12 DEF BatchCloseFails
  <2>2. /\ DiskInv'
        /\ \A i \in Inodes : file'[i].bytes = file[i].bytes /\ file'[i].bytes \subseteq file'[i].durable
    BY <2>1, SyncedAll
  <2>3. MemoryInv'
    BY <1>12, <2>1, <2>2, ZenonT(40) DEF BatchCloseFails, Noted
  <2> QED
    BY <2>2, <2>3
<1> QED
  BY <1>1, <1>2, <1>3, <1>4, <1>5, <1>6, <1>7, <1>8, <1>9, <1>10, <1>11, <1>12

\* Stops, write-back and the user.
LEMMA WorldStep ==
  ASSUME IInv, SyncDrops = FALSE, World
  PROVE  IInv'
<1> USE DEF IInv, MemoryInv, OwnerTypeOK, MemoryTypeOK, CommitTypeOK, ErrorTypeOK,
           OpeningOK, MemoryOK, NamingOK, BeforeOpen, Ended, disk, mem, commits
<1>1. CASE Kill
  <2>1. DiskInv'
    BY <1>1, ForgottenDisk DEF Kill, Restart
  <2>2. MemoryInv'
    BY <1>1 DEF Kill, Restart, Forget
  <2> QED
    BY <2>1, <2>2
<1>2. CASE PowerLoss
  <2>1. DiskInv'
    BY <1>2, PowerLossDisk
  <2>2. MemoryInv'
    BY <1>2 DEF PowerLoss, Restart, Forget
  <2> QED
    BY <2>1, <2>2
<1>3. CASE WriteBack
  <2>1. DiskInv'
    BY <1>3, SettledNames DEF WriteBack
  <2>2. MemoryInv'
    BY <1>3 DEF WriteBack, Noted
  <2> QED
    BY <2>1, <2>2
<1>4. CASE UserTakesName
  <2>1. DiskInv'
    BY <1>4, TakenName DEF UserTakesName
  <2>2. MemoryInv'
    BY <1>4 DEF UserTakesName, SetNames, Noted, DiskInv, DiskTypeOK, Names
  <2> QED
    BY <2>1, <2>2
<1>5. CASE UserDeletesPart
  <2>1. DiskInv'
    <3> DEFINE n == [ns EXCEPT !.part = None]
    <3>1. /\ n \in Names /\ n.part \in {ns.part, None} /\ n.journal \in {ns.journal, None}
          /\ n.final = ns.final
      BY DEF DiskInv, DiskTypeOK, Names, Entry
    <3>2. UNCHANGED file /\ (UNCHANGED <<part, journal>> \/ (Forget /\ part' = None /\ journal' = None))
      BY <1>5 DEF UserDeletesPart, Forget
    <3> HIDE DEF n
    <3>3. CASE SetNames(n)
      BY <3>1, <3>2, <3>3, RemovedName
    <3>4. CASE UNCHANGED <<ns, crash>>
      BY <3>2, <3>4, SameDisk, ForgottenDisk
    <3> QED
      BY <1>5, <3>3, <3>4 DEF UserDeletesPart, n
  <2>2. MemoryInv'
    BY <1>5 DEF UserDeletesPart, NoFile, SetNames, DiskInv, DiskTypeOK, Names
  <2> QED
    BY <2>1, <2>2
<1> QED
  BY <1>1, <1>2, <1>3, <1>4, <1>5 DEF World

\* Nothing happens.
LEMMA Stutter ==
  ASSUME IInv, UNCHANGED vars
  PROVE  IInv'
<1>1. UNCHANGED <<disk, pc, op, stage, have, pending, part, journal, handles>>
      /\ UNCHANGED <<bg, bgErr, holder, cstep, batch>>
  BY DEF vars, mem, commits
<1>2. DiskInv'
  BY <1>1, SameDisk DEF IInv
<1>3. OwnerTypeOK' /\ MemoryTypeOK' /\ CommitTypeOK' /\ ErrorTypeOK'
  BY <1>1 DEF IInv, MemoryInv, OwnerTypeOK, MemoryTypeOK, CommitTypeOK, ErrorTypeOK, Ended
<1>4. OpeningOK' /\ MemoryOK' /\ NamingOK'
  BY <1>1 DEF IInv, MemoryInv, OpeningOK, MemoryOK, NamingOK, BeforeOpen, Ended, Noted, disk
<1> QED
  BY <1>2, <1>3, <1>4 DEF IInv, MemoryInv

LEMMA StepIInv ==
  ASSUME SyncDrops = FALSE, IInv, [Next]_vars
  PROVE  IInv'
<1>1. CASE Next
  BY <1>1, OpenStep, WriteStep, CommitStep, BeginStep, ClosingStep, NamingStep, WorldStep
     DEF Next, OwnerGoesOn
<1>2. CASE UNCHANGED vars
  BY <1>2, Stutter
<1> QED
  BY <1>1, <1>2

-----------------------------------------------------------------------------
(* What was told durable is kept.                                          *)

\* What a step does to the promise: a name given stays, and nothing kept is lost but by Discard and by the user.
Keeps ==
  /\ Named => Named'
  /\ Kept \subseteq Kept' \/ op = "discard" \/ UserDeletesPart

\* No new state of the names, and nothing durable lost.
LEMMA NoNewName ==
  ASSUME DiskInv, crash' \subseteq crash,
         \A s \in crash : \A i \in Inodes : i \in {s.part, s.journal, s.final} => file[i].durable \subseteq file'[i].durable
  PROVE  Keeps
<1>1. Named => Named'
  BY DEF Named
<1>2. ASSUME NEW c \in Kept, NEW s \in crash' PROVE Survives(s, c)'
  <2>1. Survives(s, c) /\ s \in crash
    BY DEF Kept
  <2> QED
    BY <2>1 DEF Survives
<1> QED
  BY <1>1, <1>2 DEF Keeps, Kept

LEMMA NoChange ==
  ASSUME DiskInv, UNCHANGED disk
  PROVE  Keeps
BY NoNewName DEF disk

\* Names change where the next Open would have resumed nothing: what is kept has its final name.
LEMMA NewName ==
  ASSUME DiskInv, NEW n \in Names, crash' \subseteq crash \cup {n}, n.final = ns.final,
         \A s \in crash : \A i \in Inodes : i \in {s.part, s.journal, s.final} => file[i].durable \subseteq file'[i].durable,
         ns.part \notin Inodes \/ ~Readable(ns.journal)
  PROVE  Keeps
<1>1. ns \in crash
  BY DEF DiskInv
<1>2. Named => Named'
  BY <1>1 DEF Named
<1>3. ASSUME NEW c \in Kept, NEW s \in crash' PROVE Survives(s, c)'
  <2>1. CASE s \in crash
    <3>1. Survives(s, c)
      BY <2>1 DEF Kept
    <3> QED
      BY <2>1, <3>1 DEF Survives
  <2>2. CASE s = n
    <3>1. Survives(ns, c)
      BY <1>1 DEF Kept
    <3>2. ns.journal \in Inodes => file[ns.journal].durable \subseteq file[ns.journal].bytes
      BY DEF DiskInv, FilesOK
    <3>3. ns.final \in Inodes /\ c \in file[ns.final].durable
      BY <3>1, <3>2 DEF Survives, Readable
    <3>4. c \in file'[ns.final].durable
      BY <1>1, <3>3
    <3> QED
      BY <2>2, <3>3, <3>4 DEF Survives
  <2> QED
    BY <2>1, <2>2
<1> QED
  BY <1>2, <1>3 DEF Keeps, Kept

\* Names change that leave the final name to a complete file.
LEMMA NamedName ==
  ASSUME DiskInv, NEW n \in Names, crash' \subseteq crash \cup {n}, UNCHANGED file,
         n.final \in Inodes, Chunks \subseteq file[n.final].durable
  PROVE  Keeps
<1>1. Named => Named'
  BY DEF Named
<1>2. ASSUME NEW c \in Kept, NEW s \in crash' PROVE Survives(s, c)'
  <2>1. CASE s \in crash
    <3>1. Survives(s, c)
      BY <2>1 DEF Kept
    <3> QED
      BY <3>1 DEF Survives
  <2>2. CASE s = n
    BY <2>2 DEF Survives, Kept
  <2> QED
    BY <2>1, <2>2
<1> QED
  BY <1>1, <1>2 DEF Keeps, Kept

\* A file of the user takes the name that was free.
LEMMA UsersName ==
  ASSUME DiskInv, UserTakesName
  PROVE  Keeps
<1>1. ns \in crash /\ ns.final = None /\ UNCHANGED file /\ SetNames([ns EXCEPT !.final = User])
  BY DEF DiskInv, UserTakesName
<1>2. ns'.part = ns.part /\ ns'.journal = ns.journal /\ ns'.final = User /\ crash' = crash \cup {ns'}
  BY <1>1 DEF SetNames, DiskInv, DiskTypeOK, Names
<1>3. ~ Named
  BY <1>1 DEF Named
<1>4. ASSUME NEW c \in Kept, NEW s \in crash' PROVE Survives(s, c)'
  <2>1. Survives(ns, c) /\ (s \in crash => Survives(s, c))
    BY <1>1 DEF Kept
  <2> QED
    BY <1>1, <1>2, <2>1 DEF Survives
<1> QED
  BY <1>3, <1>4 DEF Keeps, Kept

\* A new journal where there is none under its name.
LEMMA JournalMade ==
  ASSUME DiskInv, CreateJournal
  PROVE  Keeps
<1> PICK j \in Free :
       /\ file' = [file EXCEPT ![j] = [Empty EXCEPT !.bytes = {Header}, !.dirty = {Header}]]
       /\ SetNames([ns EXCEPT !.journal = j])
  BY DEF CreateJournal
<1>1. j \in Inodes /\ \A s \in crash : j # s.part /\ j # s.journal /\ j # s.final
  BY FreeIsNew
<1>2. ns' \in Names /\ ns'.final = ns.final /\ crash' = crash \cup {ns'}
  BY <1>1 DEF SetNames, DiskInv, DiskTypeOK, Names, Entry
<1>3. \A i \in Inodes : i # j => file'[i] = file[i]
  BY DEF DiskInv, DiskTypeOK
<1>4. ~ Readable(ns.journal)
  BY DEF CreateJournal, Readable
<1> QED
  BY <1>1, <1>2, <1>3, <1>4, NewName

\* A name is removed where the next Open would have resumed nothing.
LEMMA NameGone ==
  ASSUME DiskInv, UNCHANGED file, SetNames([ns EXCEPT !.part = None]) \/ SetNames([ns EXCEPT !.journal = None]),
         ns.part \notin Inodes \/ ~Readable(ns.journal)
  PROVE  Keeps
<1>1. ns' \in Names /\ ns'.final = ns.final /\ crash' = crash \cup {ns'}
  BY DEF SetNames, DiskInv, DiskTypeOK, Names, Entry
<1> QED
  BY <1>1, NewName

\* A sync, of one file or of all.
LEMMA SyncKeeps ==
  ASSUME DiskInv, crash' = {ns}, \A i \in Inodes : file[i].durable \subseteq file'[i].durable
  PROVE  Keeps
BY NoNewName DEF DiskInv

\* Blocks written, not synced.
LEMMA WritesKeep ==
  ASSUME DiskInv, NEW i \in Inodes \cup {None}, NEW blocks, file' = [file EXCEPT ![i] = Written(i, blocks)], UNCHANGED crash
  PROVE  Keeps
<1>1. \A j \in Inodes : file'[j].durable = file[j].durable
  BY DEF Written, DiskInv, DiskTypeOK, Content
<1> QED
  BY <1>1, NoNewName

LEMMA PowerLossKeeps ==
  ASSUME DiskInv, PowerLoss
  PROVE  Keeps
<1> PICK s \in crash :
       LET named == {s.part, s.journal, s.final} \cap Inodes
       IN /\ ns' = s /\ crash' = {s}
          /\ \E lost \in SUBSET UNION {{<<i, b>> : b \in file[i].bytes \ file[i].durable} : i \in named} :
               file' = [i \in Inodes |->
                          LET left == {b \in file[i].bytes : i \in named /\ <<i, b>> \notin lost}
                          IN [bytes |-> left, dirty |-> {}, durable |-> left]]
  BY DEF PowerLoss
<1> DEFINE named == {s.part, s.journal, s.final} \cap Inodes
<1> PICK lost \in SUBSET UNION {{<<i, b>> : b \in file[i].bytes \ file[i].durable} : i \in named} :
       file' = [i \in Inodes |->
                  LET left == {b \in file[i].bytes : i \in named /\ <<i, b>> \notin lost}
                  IN [bytes |-> left, dirty |-> {}, durable |-> left]]
  OBVIOUS
<1>1. crash' = {s}
  OBVIOUS
<1>2. \A i \in named : file[i].durable \subseteq file'[i].durable
  <2> SUFFICES ASSUME NEW i \in named, NEW b \in file[i].durable PROVE b \in file'[i].durable
    OBVIOUS
  <2>1. b \in file[i].bytes /\ <<i, b>> \notin lost
    BY DEF DiskInv, FilesOK
  <2>2. file'[i].durable = {x \in file[i].bytes : i \in named /\ <<i, x>> \notin lost}
    OBVIOUS
  <2> QED
    BY <2>1, <2>2
<1> HIDE DEF named
<1>3. ASSUME NEW c \in Kept PROVE Survives(s, c)'
  <2>1. Survives(s, c)
    BY DEF Kept
  <2> QED
    BY <1>2, <2>1 DEF Survives, named
<1>4. Named => Named'
  BY <1>1 DEF Named
<1> QED
  BY <1>1, <1>3, <1>4 DEF Keeps, Kept

-----------------------------------------------------------------------------
(* What the calls that take a name away have made sure of.                 *)

LEMMA InitKept == Init => KeptOK
BY DEF Init, KeptOK, LeftoversOK, SettledOK, UnlinkOK

\* Open leaves nothing under a name that the next Open would resume.
LEMMA OpenKept ==
  ASSUME IInv, KeptOK, Resolve \/ Open
  PROVE  KeptOK'
<1> USE DEF IInv, KeptOK, DiskInv, DiskTypeOK, Names, Entry, MemoryInv, OwnerTypeOK, MemoryTypeOK, CommitTypeOK, OpeningOK, NamingOK, BeforeOpen, Ended,
           disk, mem, commits
<1>1. CASE Resolve
  <2>1. LeftoversOK'
    BY <1>1 DEF Resolve, Forget, LeftoversOK, Readable
  <2>2. SettledOK'
    BY <1>1 DEF Resolve, Forget, SettledOK
  <2>3. UnlinkOK'
    BY <1>1 DEF Resolve, Forget, UnlinkOK, SettledOK
  <2> QED
    BY <2>1, <2>2, <2>3
<1>2. CASE OpenResume
  <2>1. LeftoversOK'
    BY <1>2 DEF OpenResume, LeftoversOK, Readable
  <2>2. SettledOK'
    BY <1>2 DEF OpenResume, SettledOK
  <2>3. UnlinkOK'
    BY <1>2 DEF OpenResume, UnlinkOK, SettledOK
  <2> QED
    BY <2>1, <2>2, <2>3
<1>3. CASE OpenStale
  <2>1. LeftoversOK'
    BY <1>3 DEF OpenStale, Foreign, Ours, LeftoversOK, Readable
  <2>2. SettledOK'
    BY <1>3 DEF OpenStale, SettledOK
  <2>3. UnlinkOK'
    BY <1>3 DEF OpenStale, UnlinkOK, SettledOK
  <2> QED
    BY <2>1, <2>2, <2>3
<1>4. CASE OpenForeign
  <2>1. LeftoversOK'
    BY <1>4 DEF OpenForeign, LeftoversOK, Readable
  <2>2. SettledOK'
    BY <1>4 DEF OpenForeign, SettledOK
  <2>3. UnlinkOK'
    BY <1>4 DEF OpenForeign, UnlinkOK, SettledOK
  <2> QED
    BY <2>1, <2>2, <2>3
<1>5. CASE OpenNew
  <2>1. LeftoversOK'
    BY <1>5 DEF OpenNew, LeftoversOK, Readable
  <2>2. SettledOK'
    BY <1>5 DEF OpenNew, SettledOK
  <2>3. UnlinkOK'
    BY <1>5 DEF OpenNew, UnlinkOK, SettledOK
  <2> QED
    BY <2>1, <2>2, <2>3
<1>6. CASE RemoveStale
  <2>1. LeftoversOK'
    BY <1>6 DEF RemoveStale, SetNames, LeftoversOK, Readable
  <2>2. SettledOK'
    BY <1>6 DEF RemoveStale, SetNames, SettledOK
  <2>3. UnlinkOK'
    BY <1>6 DEF RemoveStale, SetNames, UnlinkOK, SettledOK
  <2> QED
    BY <2>1, <2>2, <2>3
<1>7. CASE OpenJournal
  <2>1. LeftoversOK'
    BY <1>7 DEF OpenJournal, CreateJournal, SetNames, LeftoversOK, Readable
  <2>2. SettledOK'
    BY <1>7 DEF OpenJournal, CreateJournal, SetNames, SettledOK
  <2>3. UnlinkOK'
    BY <1>7 DEF OpenJournal, CreateJournal, SetNames, UnlinkOK, SettledOK
  <2> QED
    BY <2>1, <2>2, <2>3
<1>8. CASE OpenPart
  <2>1. LeftoversOK'
    BY <1>8 DEF OpenPart, SetNames, LeftoversOK, Readable
  <2>2. SettledOK'
    BY <1>8 DEF OpenPart, SetNames, SettledOK
  <2>3. UnlinkOK'
    BY <1>8 DEF OpenPart, SetNames, UnlinkOK, SettledOK
  <2> QED
    BY <2>1, <2>2, <2>3
<1>9. CASE OpenPartFails
  <2>1. LeftoversOK'
    BY <1>9 DEF OpenPartFails, Forget, LeftoversOK, Readable
  <2>2. SettledOK'
    BY <1>9 DEF OpenPartFails, Forget, SettledOK
  <2>3. UnlinkOK'
    BY <1>9 DEF OpenPartFails, Forget, UnlinkOK, SettledOK
  <2> QED
    BY <2>1, <2>2, <2>3
<1> QED
  BY <1>1, <1>2, <1>3, <1>4, <1>5, <1>6, <1>7, <1>8, <1>9 DEF Open

\* The writers: none starts but on an open file.
LEMMA WriteKept ==
  ASSUME IInv, KeptOK, NEW c \in Chunks, WriteAt(c) \/ NotePending(c) \/ CommitIfDue(c) \/ CommitAfterWait(c)
  PROVE  KeptOK'
<1> USE DEF IInv, KeptOK, DiskInv, DiskTypeOK, Names, Entry, MemoryInv, OwnerTypeOK, MemoryTypeOK, CommitTypeOK, OpeningOK, NamingOK, BeforeOpen, Ended,
           disk, mem, commits
<1>1. pc = "open" /\ UNCHANGED <<ns, pc, op, part, journal, holder>>
  BY DEF SettledOK, WriteAt, NotePending, CommitIfDue, CommitAfterWait
<1>2. LeftoversOK'
  BY <1>1 DEF LeftoversOK
<1>3. SettledOK'
  BY <1>1 DEF SettledOK
<1>4. UnlinkOK'
  BY <1>1 DEF UnlinkOK
<1> QED
  BY <1>2, <1>3, <1>4

\* The background commit ends before a Suspend looks for the journal.
LEMMA CommitKept ==
  ASSUME IInv, KeptOK, Commit
  PROVE  KeptOK'
<1> USE DEF IInv, KeptOK, DiskInv, DiskTypeOK, Names, Entry, MemoryInv, OwnerTypeOK, MemoryTypeOK, CommitTypeOK, OpeningOK, NamingOK, BeforeOpen, Ended,
           disk, mem, commits
<1>1. CASE BgTakes
  <2>1. LeftoversOK'
    BY <1>1 DEF BgTakes, TakePending, LeftoversOK, Readable
  <2>2. SettledOK'
    BY <1>1 DEF BgTakes, TakePending, SettledOK
  <2>3. UnlinkOK'
    BY <1>1 DEF BgTakes, TakePending, UnlinkOK, SettledOK
  <2> QED
    BY <2>1, <2>2, <2>3
<1>2. CASE BgFindsNothing
  <2>1. LeftoversOK'
    BY <1>2 DEF BgFindsNothing, BgEnds, LeftoversOK, Readable
  <2>2. SettledOK'
    BY <1>2 DEF BgFindsNothing, BgEnds, SettledOK
  <2>3. UnlinkOK'
    BY <1>2 DEF BgFindsNothing, BgEnds, UnlinkOK, SettledOK
  <2> QED
    BY <2>1, <2>2, <2>3
<1>3. CASE CommitSync
  <2>1. LeftoversOK'
    BY <1>3 DEF CommitSync, LeftoversOK, Readable
  <2>2. SettledOK'
    BY <1>3 DEF CommitSync, SettledOK
  <2>3. UnlinkOK'
    BY <1>3 DEF CommitSync, UnlinkOK, SettledOK
  <2> QED
    BY <2>1, <2>2, <2>3
<1>4. CASE CommitSyncFails
  <2>1. LeftoversOK'
    BY <1>4 DEF CommitSyncFails, SyncFails, CommitReturns, BgEnds, LeftoversOK, Readable
  <2>2. SettledOK'
    BY <1>4 DEF CommitSyncFails, SyncFails, CommitReturns, BgEnds, SettledOK
  <2>3. UnlinkOK'
    BY <1>4 DEF CommitSyncFails, SyncFails, CommitReturns, BgEnds, UnlinkOK, SettledOK
  <2> QED
    BY <2>1, <2>2, <2>3
<1>5. CASE CommitEnsure
  <2>1. LeftoversOK'
    BY <1>5 DEF CommitEnsure, CreateJournal, SetNames, LeftoversOK, Readable
  <2>2. SettledOK'
    BY <1>5 DEF CommitEnsure, CreateJournal, SetNames, SettledOK
  <2>3. UnlinkOK'
    BY <1>5 DEF CommitEnsure, CreateJournal, SetNames, UnlinkOK, SettledOK
  <2> QED
    BY <2>1, <2>2, <2>3
<1>6. CASE CommitEnsureFails
  <2>1. LeftoversOK'
    BY <1>6 DEF CommitEnsureFails, CommitReturns, BgEnds, LeftoversOK, Readable
  <2>2. SettledOK'
    BY <1>6 DEF CommitEnsureFails, CommitReturns, BgEnds, SettledOK
  <2>3. UnlinkOK'
    BY <1>6 DEF CommitEnsureFails, CommitReturns, BgEnds, UnlinkOK, SettledOK
  <2> QED
    BY <2>1, <2>2, <2>3
<1>7. CASE CommitRecords
  <2>1. LeftoversOK'
    BY <1>7 DEF CommitRecords, LeftoversOK, Readable
  <2>2. SettledOK'
    BY <1>7 DEF CommitRecords, SettledOK
  <2>3. UnlinkOK'
    BY <1>7 DEF CommitRecords, UnlinkOK, SettledOK
  <2> QED
    BY <2>1, <2>2, <2>3
<1>8. CASE CommitRecordsFail
  <2>1. LeftoversOK'
    BY <1>8 DEF CommitRecordsFail, CommitReturns, BgEnds, LeftoversOK, Readable
  <2>2. SettledOK'
    BY <1>8 DEF CommitRecordsFail, CommitReturns, BgEnds, SettledOK
  <2>3. UnlinkOK'
    BY <1>8 DEF CommitRecordsFail, CommitReturns, BgEnds, UnlinkOK, SettledOK
  <2> QED
    BY <2>1, <2>2, <2>3
<1>9. CASE CommitJournalSync
  <2>1. LeftoversOK'
    BY <1>9 DEF CommitJournalSync, CommitReturns, BgEnds, LeftoversOK, Readable
  <2>2. SettledOK'
    BY <1>9 DEF CommitJournalSync, CommitReturns, BgEnds, SettledOK
  <2>3. UnlinkOK'
    BY <1>9 DEF CommitJournalSync, CommitReturns, BgEnds, UnlinkOK, SettledOK
  <2> QED
    BY <2>1, <2>2, <2>3
<1>10. CASE CommitJournalSyncFails
  <2>1. LeftoversOK'
    BY <1>10 DEF CommitJournalSyncFails, SyncFails, CommitReturns, BgEnds, LeftoversOK, Readable
  <2>2. SettledOK'
    BY <1>10 DEF CommitJournalSyncFails, SyncFails, CommitReturns, BgEnds, SettledOK
  <2>3. UnlinkOK'
    BY <1>10 DEF CommitJournalSyncFails, SyncFails, CommitReturns, BgEnds, UnlinkOK, SettledOK
  <2> QED
    BY <2>1, <2>2, <2>3
<1> QED
  BY <1>1, <1>2, <1>3, <1>4, <1>5, <1>6, <1>7, <1>8, <1>9, <1>10 DEF Commit

\* The owner begins once no writer is at work.
LEMMA BeginKept ==
  ASSUME IInv, KeptOK, Owner
  PROVE  KeptOK'
<1> USE DEF IInv, KeptOK, DiskInv, DiskTypeOK, Names, Entry, MemoryInv, OwnerTypeOK, MemoryTypeOK, CommitTypeOK, OpeningOK, NamingOK, BeforeOpen, Ended,
           disk, mem, commits
<1>1. CASE Close
  <2>1. LeftoversOK'
    BY <1>1 DEF Close, Begin, Busy, LeftoversOK, Readable
  <2>2. SettledOK'
    BY <1>1 DEF Close, Begin, Busy, SettledOK
  <2>3. UnlinkOK'
    BY <1>1 DEF Close, Begin, Busy, UnlinkOK, SettledOK
  <2> QED
    BY <2>1, <2>2, <2>3
<1>2. CASE Suspend
  <2>1. LeftoversOK'
    BY <1>2 DEF Suspend, Begin, Busy, LeftoversOK, Readable
  <2>2. SettledOK'
    BY <1>2 DEF Suspend, Begin, Busy, SettledOK
  <2>3. UnlinkOK'
    BY <1>2 DEF Suspend, Begin, Busy, UnlinkOK, SettledOK
  <2> QED
    BY <2>1, <2>2, <2>3
<1>3. CASE Discard
  <2>1. LeftoversOK'
    BY <1>3 DEF Discard, Begin, Busy, LeftoversOK, Readable
  <2>2. SettledOK'
    BY <1>3 DEF Discard, Begin, Busy, SettledOK
  <2>3. UnlinkOK'
    BY <1>3 DEF Discard, Begin, Busy, UnlinkOK, SettledOK
  <2> QED
    BY <2>1, <2>2, <2>3
<1>4. CASE Finalize
  <2>1. LeftoversOK'
    BY <1>4 DEF Finalize, Begin, Busy, LeftoversOK, Readable
  <2>2. SettledOK'
    BY <1>4 DEF Finalize, Begin, Busy, SettledOK
  <2>3. UnlinkOK'
    BY <1>4 DEF Finalize, Begin, Busy, UnlinkOK, SettledOK
  <2> QED
    BY <2>1, <2>2, <2>3
<1>5. CASE BatchAdd
  <2>1. LeftoversOK'
    BY <1>5 DEF BatchAdd, Begin, Busy, LeftoversOK, Readable
  <2>2. SettledOK'
    BY <1>5 DEF BatchAdd, Begin, Busy, SettledOK
  <2>3. UnlinkOK'
    BY <1>5 DEF BatchAdd, Begin, Busy, UnlinkOK, SettledOK
  <2> QED
    BY <2>1, <2>2, <2>3
<1> QED
  BY <1>1, <1>2, <1>3, <1>4, <1>5 DEF Owner

\* Close, Suspend and Discard: a .part is unlinked by Discard, or without its journal.
LEMMA ClosingKept ==
  ASSUME IInv, KeptOK, Settle \/ CloseCommits \/ CloseHeader \/ CloseFiles \/ Unlink \/ UnlinkJournal
  PROVE  KeptOK'
<1> USE DEF IInv, KeptOK, DiskInv, DiskTypeOK, Names, Entry, MemoryInv, OwnerTypeOK, MemoryTypeOK, CommitTypeOK, OpeningOK, NamingOK, BeforeOpen, Ended,
           disk, mem, commits
<1>1. CASE Settle
  <2>1. LeftoversOK'
    BY <1>1 DEF Settle, LeftoversOK, Readable
  <2>2. SettledOK'
    BY <1>1 DEF Settle, SettledOK
  <2>3. UnlinkOK'
    BY <1>1 DEF Settle, UnlinkOK, SettledOK
  <2> QED
    BY <2>1, <2>2, <2>3
<1>2. CASE CloseCommits
  <2>1. LeftoversOK'
    BY <1>2 DEF CloseCommits, TakePending, LeftoversOK, Readable
  <2>2. SettledOK'
    BY <1>2 DEF CloseCommits, TakePending, SettledOK
  <2>3. UnlinkOK'
    BY <1>2 DEF CloseCommits, TakePending, UnlinkOK, SettledOK
  <2> QED
    BY <2>1, <2>2, <2>3
<1>3. CASE CloseHeader
  <2>1. LeftoversOK'
    BY <1>3 DEF CloseHeader, CreateJournal, SetNames, LeftoversOK, Readable
  <2>2. SettledOK'
    BY <1>3 DEF CloseHeader, CreateJournal, SetNames, SettledOK
  <2>3. UnlinkOK'
    BY <1>3 DEF CloseHeader, CreateJournal, SetNames, UnlinkOK, SettledOK
  <2> QED
    BY <2>1, <2>2, <2>3
<1>4. CASE CloseFiles
  <2>1. LeftoversOK'
    BY <1>4 DEF CloseFiles, Forget, LeftoversOK, Readable
  <2>2. SettledOK'
    BY <1>4 DEF CloseFiles, Forget, SettledOK
  <2>3. UnlinkOK'
    BY <1>4 DEF CloseFiles, Forget, UnlinkOK, SettledOK
  <2> QED
    BY <2>1, <2>2, <2>3
<1>5. CASE Unlink
  <2>1. LeftoversOK'
    BY <1>5 DEF Unlink, Forget, SetNames, LeftoversOK, Readable
  <2>2. SettledOK'
    BY <1>5 DEF Unlink, Forget, SetNames, SettledOK
  <2>3. UnlinkOK'
    BY <1>5 DEF Unlink, Forget, SetNames, UnlinkOK, SettledOK
  <2> QED
    BY <2>1, <2>2, <2>3
<1>6. CASE UnlinkJournal
  <2>1. LeftoversOK'
    BY <1>6 DEF UnlinkJournal, Forget, SetNames, LeftoversOK, Readable
  <2>2. SettledOK'
    BY <1>6 DEF UnlinkJournal, Forget, SetNames, SettledOK
  <2>3. UnlinkOK'
    BY <1>6 DEF UnlinkJournal, Forget, SetNames, UnlinkOK, SettledOK
  <2> QED
    BY <2>1, <2>2, <2>3
<1> QED
  BY <1>1, <1>2, <1>3, <1>4, <1>5, <1>6

\* The journal goes once the file has its name.
LEMMA NamingKept ==
  ASSUME IInv, KeptOK, \/ FinalSync \/ FinalSyncFails \/ FinalCloseFails
         \/ BatchSync \/ BatchCloseFails \/ BatchSyncFails
         \/ Publish \/ Rename \/ NoteUnnamed \/ SyncFolder \/ DropJournal \/ DropJournalFails
  PROVE  KeptOK'
<1> USE DEF IInv, KeptOK, DiskInv, DiskTypeOK, Names, Entry, MemoryInv, OwnerTypeOK, MemoryTypeOK, CommitTypeOK, OpeningOK, NamingOK, BeforeOpen, Ended,
           disk, mem, commits
<1>1. CASE FinalSync
  <2>1. LeftoversOK'
    BY <1>1 DEF FinalSync, LeftoversOK, Readable
  <2>2. SettledOK'
    BY <1>1 DEF FinalSync, SettledOK
  <2>3. UnlinkOK'
    BY <1>1 DEF FinalSync, UnlinkOK, SettledOK
  <2> QED
    BY <2>1, <2>2, <2>3
<1>2. CASE FinalSyncFails
  <2>1. LeftoversOK'
    BY <1>2 DEF FinalSyncFails, SyncFails, LeftoversOK, Readable
  <2>2. SettledOK'
    BY <1>2 DEF FinalSyncFails, SyncFails, SettledOK
  <2>3. UnlinkOK'
    BY <1>2 DEF FinalSyncFails, SyncFails, UnlinkOK, SettledOK
  <2> QED
    BY <2>1, <2>2, <2>3
<1>3. CASE FinalCloseFails
  <2>1. LeftoversOK'
    BY <1>3 DEF FinalCloseFails, LeftoversOK, Readable
  <2>2. SettledOK'
    BY <1>3 DEF FinalCloseFails, SettledOK
  <2>3. UnlinkOK'
    BY <1>3 DEF FinalCloseFails, UnlinkOK, SettledOK
  <2> QED
    BY <2>1, <2>2, <2>3
<1>4. CASE BatchSync
  <2>1. LeftoversOK'
    BY <1>4 DEF BatchSync, LeftoversOK, Readable
  <2>2. SettledOK'
    BY <1>4 DEF BatchSync, SettledOK
  <2>3. UnlinkOK'
    BY <1>4 DEF BatchSync, UnlinkOK, SettledOK
  <2> QED
    BY <2>1, <2>2, <2>3
<1>5. CASE BatchSyncFails
  <2>1. LeftoversOK'
    BY <1>5 DEF BatchSyncFails, SyncFails, LeftoversOK, Readable
  <2>2. SettledOK'
    BY <1>5 DEF BatchSyncFails, SyncFails, SettledOK
  <2>3. UnlinkOK'
    BY <1>5 DEF BatchSyncFails, SyncFails, UnlinkOK, SettledOK
  <2> QED
    BY <2>1, <2>2, <2>3
<1>6. CASE Publish
  <2>1. LeftoversOK'
    BY <1>6 DEF Publish, LeftoversOK, Readable
  <2>2. SettledOK'
    BY <1>6 DEF Publish, SettledOK
  <2>3. UnlinkOK'
    BY <1>6 DEF Publish, UnlinkOK, SettledOK
  <2> QED
    BY <2>1, <2>2, <2>3
<1>7. CASE Rename
  <2>1. LeftoversOK'
    BY <1>7 DEF Rename, SetNames, LeftoversOK, Readable
  <2>2. SettledOK'
    BY <1>7 DEF Rename, SetNames, SettledOK
  <2>3. UnlinkOK'
    BY <1>7 DEF Rename, SetNames, UnlinkOK, SettledOK
  <2> QED
    BY <2>1, <2>2, <2>3
<1>8. CASE NoteUnnamed
  <2>1. LeftoversOK'
    BY <1>8 DEF NoteUnnamed, TakePending, LeftoversOK, Readable
  <2>2. SettledOK'
    BY <1>8 DEF NoteUnnamed, TakePending, SettledOK
  <2>3. UnlinkOK'
    BY <1>8 DEF NoteUnnamed, TakePending, UnlinkOK, SettledOK
  <2> QED
    BY <2>1, <2>2, <2>3
<1>9. CASE SyncFolder
  <2>1. LeftoversOK'
    BY <1>9 DEF SyncFolder, LeftoversOK, Readable
  <2>2. SettledOK'
    BY <1>9 DEF SyncFolder, SettledOK
  <2>3. UnlinkOK'
    BY <1>9 DEF SyncFolder, UnlinkOK, SettledOK
  <2> QED
    BY <2>1, <2>2, <2>3
<1>10. CASE DropJournal
  <2>1. LeftoversOK'
    BY <1>10 DEF DropJournal, SetNames, LeftoversOK, Readable
  <2>2. SettledOK'
    BY <1>10 DEF DropJournal, SetNames, SettledOK
  <2>3. UnlinkOK'
    BY <1>10 DEF DropJournal, SetNames, UnlinkOK, SettledOK
  <2> QED
    BY <2>1, <2>2, <2>3
<1>11. CASE DropJournalFails
  <2>1. LeftoversOK'
    BY <1>11 DEF DropJournalFails, LeftoversOK, Readable
  <2>2. SettledOK'
    BY <1>11 DEF DropJournalFails, SettledOK
  <2>3. UnlinkOK'
    BY <1>11 DEF DropJournalFails, UnlinkOK, SettledOK
  <2> QED
    BY <2>1, <2>2, <2>3
<1>12. CASE BatchCloseFails
  <2>1. LeftoversOK'
    BY <1>12 DEF BatchCloseFails, LeftoversOK, Readable
  <2>2. SettledOK'
    BY <1>12 DEF BatchCloseFails, SettledOK
  <2>3. UnlinkOK'
    BY <1>12 DEF BatchCloseFails, UnlinkOK, SettledOK
  <2> QED
    BY <2>1, <2>2, <2>3
<1> QED
  BY <1>1, <1>2, <1>3, <1>4, <1>5, <1>6, <1>7, <1>8, <1>9, <1>10, <1>11, <1>12

\* Stops, write-back and the user.
LEMMA WorldKept ==
  ASSUME IInv, KeptOK, World
  PROVE  KeptOK'
<1> USE DEF IInv, KeptOK, DiskInv, DiskTypeOK, Names, Entry, MemoryInv, OwnerTypeOK, MemoryTypeOK, CommitTypeOK, OpeningOK, NamingOK, BeforeOpen, Ended,
           disk, mem, commits
<1>1. CASE Kill
  <2>1. LeftoversOK'
    BY <1>1 DEF Kill, Restart, Forget, LeftoversOK, Readable
  <2>2. SettledOK'
    BY <1>1 DEF Kill, Restart, Forget, SettledOK
  <2>3. UnlinkOK'
    BY <1>1 DEF Kill, Restart, Forget, UnlinkOK, SettledOK
  <2> QED
    BY <2>1, <2>2, <2>3
<1>2. CASE PowerLoss
  <2>1. LeftoversOK'
    BY <1>2 DEF PowerLoss, Restart, Forget, LeftoversOK, Readable
  <2>2. SettledOK'
    BY <1>2 DEF PowerLoss, Restart, Forget, SettledOK
  <2>3. UnlinkOK'
    BY <1>2 DEF PowerLoss, Restart, Forget, UnlinkOK, SettledOK
  <2> QED
    BY <2>1, <2>2, <2>3
<1>3. CASE WriteBack
  <2>1. LeftoversOK'
    BY <1>3 DEF WriteBack, LeftoversOK, Readable
  <2>2. SettledOK'
    BY <1>3 DEF WriteBack, SettledOK
  <2>3. UnlinkOK'
    BY <1>3 DEF WriteBack, UnlinkOK, SettledOK
  <2> QED
    BY <2>1, <2>2, <2>3
<1>4. CASE UserTakesName
  <2>1. LeftoversOK'
    BY <1>4 DEF UserTakesName, SetNames, LeftoversOK, Readable
  <2>2. SettledOK'
    BY <1>4 DEF UserTakesName, SetNames, SettledOK
  <2>3. UnlinkOK'
    BY <1>4 DEF UserTakesName, SetNames, UnlinkOK, SettledOK
  <2> QED
    BY <2>1, <2>2, <2>3
<1>5. CASE UserDeletesPart
  <2>1. LeftoversOK'
    BY <1>5 DEF UserDeletesPart, SetNames, LeftoversOK, Readable
  <2>2. SettledOK'
    BY <1>5 DEF UserDeletesPart, SetNames, SettledOK
  <2>3. UnlinkOK'
    BY <1>5 DEF UserDeletesPart, SetNames, UnlinkOK, SettledOK
  <2> QED
    BY <2>1, <2>2, <2>3
<1> QED
  BY <1>1, <1>2, <1>3, <1>4, <1>5 DEF World

LEMMA StepKept ==
  ASSUME IInv, KeptOK, [Next]_vars
  PROVE  KeptOK'
<1>1. CASE Next
  BY <1>1, OpenKept, WriteKept, CommitKept, BeginKept, ClosingKept, NamingKept, WorldKept
     DEF Next, Write, OwnerGoesOn
<1>2. CASE UNCHANGED vars
  BY <1>2 DEF vars, disk, mem, commits, KeptOK, LeftoversOK, SettledOK, UnlinkOK, Readable
<1> QED
  BY <1>1, <1>2

\* Every step keeps what was told durable.
LEMMA OpenKeeps ==
  ASSUME IInv, KeptOK, Resolve \/ Open
  PROVE  Keeps
<1> USE DEF IInv, KeptOK, DiskInv, MemoryInv, OpeningOK, BeforeOpen, disk
<1>1. CASE UNCHANGED disk
  BY <1>1, NoChange
<1>2. CASE RemoveStale
  <2>1. ns.part \notin Inodes \/ ~Readable(ns.journal)
    BY <1>2, NamesAssumption DEF RemoveStale, LeftoversOK
  <2> QED
    BY <1>1, <1>2, <2>1, NameGone DEF RemoveStale
<1>3. CASE OpenJournal
  BY <1>1, <1>3, JournalMade DEF OpenJournal
<1>4. CASE OpenPart
  <2> PICK d \in Free : file' = [file EXCEPT ![d] = Empty] /\ SetNames([ns EXCEPT !.part = d])
    BY <1>4 DEF OpenPart
  <2>1. d \in Inodes /\ \A s \in crash : d # s.part /\ d # s.journal /\ d # s.final
    BY FreeIsNew
  <2>2. ns' \in Names /\ ns'.final = ns.final /\ crash' = crash \cup {ns'}
    BY <2>1 DEF SetNames, DiskTypeOK, Names, Entry
  <2>3. \A i \in Inodes : i # d => file'[i] = file[i]
    BY DEF DiskTypeOK
  <2>4. ns.part \notin Inodes
    BY <1>4, NamesAssumption DEF OpenPart
  <2> QED
    BY <2>1, <2>2, <2>3, <2>4, NewName
<1>5. CASE OpenPartFails
  <2>1. ns.part \notin Inodes
    BY <1>5, NamesAssumption DEF OpenPartFails
  <2> QED
    BY <1>1, <1>5, <2>1, NameGone DEF OpenPartFails
<1> QED
  BY <1>1, <1>2, <1>3, <1>4, <1>5 DEF Open, Resolve, OpenResume, OpenStale, OpenForeign, OpenNew

LEMMA WriteKeeps ==
  ASSUME IInv, NEW c \in Chunks, WriteAt(c) \/ NotePending(c) \/ CommitIfDue(c) \/ CommitAfterWait(c)
  PROVE  Keeps
<1>1. CASE WriteAt(c)
  BY <1>1, WritesKeep DEF WriteAt, IInv, MemoryInv, MemoryTypeOK
<1> QED
  BY <1>1, NoChange DEF NotePending, CommitIfDue, CommitAfterWait, IInv

LEMMA CommitKeeps ==
  ASSUME IInv, SyncDrops = FALSE, Commit
  PROVE  Keeps
<1> USE DEF IInv, MemoryInv, MemoryTypeOK
<1>1. CASE UNCHANGED disk
  BY <1>1, NoChange
<1>2. ASSUME NEW i \in Inodes \cup {None}, Sync(i), UNCHANGED ns PROVE Keeps
  <2>1. \A k \in Inodes : file[k].durable \subseteq file'[k].durable
    BY <1>2 DEF Sync, Flushed, DiskInv, DiskTypeOK, Content
  <2> QED
    BY <1>2, <2>1, SyncKeeps DEF Sync
<1>3. CASE CommitSync
  BY <1>2, <1>3 DEF CommitSync
<1>4. CASE CommitSyncFails
  BY <1>1, <1>4 DEF CommitSyncFails, SyncFails, disk
<1>5. CASE CommitEnsure
  BY <1>1, <1>5, JournalMade DEF CommitEnsure
<1>6. CASE CommitRecords
  BY <1>6, WritesKeep DEF CommitRecords
<1>7. CASE CommitRecordsFail
  BY <1>1, <1>7, WritesKeep DEF CommitRecordsFail
<1>8. CASE CommitJournalSync
  BY <1>2, <1>8 DEF CommitJournalSync
<1>9. CASE CommitJournalSyncFails
  BY <1>1, <1>9 DEF CommitJournalSyncFails, SyncFails, disk
<1> QED
  BY <1>1, <1>3, <1>4, <1>5, <1>6, <1>7, <1>8, <1>9 DEF Commit, BgTakes, BgFindsNothing, CommitEnsureFails

LEMMA ClosingKeeps ==
  ASSUME IInv, KeptOK, Settle \/ CloseCommits \/ CloseHeader \/ CloseFiles \/ Unlink \/ UnlinkJournal
  PROVE  Keeps
<1> USE DEF IInv, KeptOK, DiskInv, MemoryInv, MemoryTypeOK, OpeningOK, BeforeOpen, Ended
<1>1. CASE UNCHANGED disk
  BY <1>1, NoChange
<1>2. CASE CloseHeader
  <2>1. ASSUME journal = None, ns.journal = None, NEW j \in Free,
               file' = [file EXCEPT ![j] = [bytes |-> {Header}, dirty |-> {}, durable |-> {Header}]],
               ns' = [ns EXCEPT !.journal = j], crash' = {ns'}
        PROVE  Keeps
    <3>1. j \in Inodes /\ \A s \in crash : j # s.part /\ j # s.journal /\ j # s.final
      BY FreeIsNew
    <3>2. ns' \in Names /\ ns'.final = ns.final
      BY <2>1, <3>1 DEF DiskTypeOK, Names, Entry
    <3>3. \A i \in Inodes : i # j => file'[i] = file[i]
      BY <2>1 DEF DiskTypeOK
    <3>4. ~ Readable(ns.journal)
      BY <2>1, NamesAssumption DEF Readable
    <3>5. crash' \subseteq crash \cup {ns'}
      BY <2>1
    <3>6. \A s \in crash : \A i \in Inodes : i \in {s.part, s.journal, s.final} => file[i].durable \subseteq file'[i].durable
      BY <3>1, <3>3
    <3>7. DiskInv
      OBVIOUS
    <3> QED
      BY ONLY <3>2, <3>4, <3>5, <3>6, <3>7, NewName
  <2> QED
    BY <1>1, <1>2, <2>1, JournalMade DEF CloseHeader
<1>3. ASSUME op = "discard", UNCHANGED file,
             SetNames([ns EXCEPT !.part = None]) \/ SetNames([ns EXCEPT !.journal = None])
      PROVE  Keeps
  <2>1. ns'.final = ns.final /\ crash' = crash \cup {ns'} /\ ns \in crash
    BY <1>3 DEF SetNames, DiskTypeOK, Names
  <2> QED
    BY <1>3, <2>1 DEF Keeps, Named
<1>4. CASE Unlink
  <2>1. CASE op = "discard"
    BY <1>1, <1>3, <1>4, <2>1 DEF Unlink, disk
  <2>2. CASE op # "discard"
    <3>1. ns.journal = None /\ part # None
      BY <1>4, <2>2 DEF Unlink, UnlinkOK, LeftoversOK
    <3> QED
      BY <1>1, <1>4, <3>1, NameGone, NamesAssumption DEF Unlink, Readable, disk
  <2> QED
    BY <2>1, <2>2
<1>5. CASE UnlinkJournal
  BY <1>1, <1>3, <1>5 DEF UnlinkJournal, UnlinkOK, disk
<1> QED
  BY <1>1, <1>2, <1>4, <1>5 DEF Settle, CloseCommits, CloseFiles

LEMMA NamingKeeps ==
  ASSUME IInv, KeptOK, SyncDrops = FALSE, \/ FinalSync \/ FinalSyncFails \/ FinalCloseFails
         \/ BatchSync \/ BatchCloseFails \/ BatchSyncFails
         \/ Publish \/ Rename \/ NoteUnnamed \/ SyncFolder \/ DropJournal \/ DropJournalFails
  PROVE  Keeps
<1> USE DEF IInv, KeptOK, DiskInv, MemoryInv, MemoryTypeOK
<1>1. CASE UNCHANGED disk
  BY <1>1, NoChange
<1>2. CASE FinalSync \/ FinalCloseFails
  <2>1. Sync(part)
    BY <1>2 DEF FinalSync, FinalCloseFails
  <2>2. \A k \in Inodes : file[k].durable \subseteq file'[k].durable
    BY <2>1 DEF Sync, Flushed, DiskTypeOK, Content
  <2> QED
    BY <2>1, <2>2, SyncKeeps DEF Sync
<1>3. CASE BatchSync \/ BatchCloseFails
  <2>1. ASSUME NEW k \in Inodes PROVE file[k].durable \subseteq file'[k].durable
    <3>1. file'[k] = Flushed(file[k]) /\ file[k] \in Content
      BY <1>3 DEF BatchSync, BatchCloseFails, DiskTypeOK
    <3> QED
      BY <3>1 DEF Flushed, Content
  <2> QED
    BY <1>3, <2>1, SyncKeeps DEF BatchSync, BatchCloseFails
<1>4. CASE FinalSyncFails \/ BatchSyncFails
  BY <1>1, <1>4 DEF FinalSyncFails, BatchSyncFails, SyncFails, disk
<1>5. CASE Rename
  <2>1. part \in Inodes /\ Chunks \subseteq file[part].durable /\ UNCHANGED file
    BY <1>5 DEF Rename, OpeningOK, BeforeOpen, Ended, MemoryOK, NamingOK
  <2>2. CASE SetNames([ns EXCEPT !.part = None, !.final = part])
    <3>1. ns' \in Names /\ ns'.final = part /\ crash' = crash \cup {ns'}
      BY <2>1, <2>2 DEF SetNames, DiskTypeOK, Names, Entry
    <3> QED
      BY <2>1, <3>1, NamedName
  <2> QED
    BY <1>1, <1>5, <2>2 DEF Rename, disk
<1>6. CASE SyncFolder
  BY <1>1, <1>6, SyncKeeps DEF SyncFolder, disk
<1>7. CASE DropJournal
  <2>1. CASE SetNames([ns EXCEPT !.journal = None])
    <3>1. ns' \in Names /\ ns'.final = ns.final /\ crash' = crash \cup {ns'} /\ ns \in crash /\ UNCHANGED file
      BY <1>7, <2>1 DEF DropJournal, SetNames, DiskTypeOK, Names, Entry
    <3>2. ns.final \in Inodes /\ Chunks \subseteq file[ns.final].durable
      BY <1>7, <3>1 DEF DropJournal, UnlinkOK, NamedIsComplete
    <3> QED
      BY <3>1, <3>2, NamedName
  <2> QED
    BY <1>1, <1>7, <2>1 DEF DropJournal, disk
<1> QED
  BY <1>1, <1>2, <1>3, <1>4, <1>5, <1>6, <1>7 DEF Publish, NoteUnnamed, DropJournalFails

LEMMA WorldKeeps ==
  ASSUME IInv, World
  PROVE  Keeps
<1> USE DEF IInv
<1>1. CASE Kill
  BY <1>1, NoChange DEF Kill
<1>2. CASE PowerLoss
  BY <1>2, PowerLossKeeps
<1>3. CASE WriteBack
  BY <1>3, SyncKeeps DEF WriteBack
<1>4. CASE UserTakesName
  BY <1>4, UsersName
<1>5. CASE UserDeletesPart
  <2>1. ns'.final = ns.final /\ crash' = crash \cup {ns'} /\ ns \in crash /\ UNCHANGED file
    BY <1>5 DEF UserDeletesPart, SetNames, DiskInv, DiskTypeOK, Names
  <2> QED
    BY <1>5, <2>1 DEF Keeps, Named
<1> QED
  BY <1>1, <1>2, <1>3, <1>4, <1>5 DEF World

LEMMA StepKeeps ==
  ASSUME SyncDrops = FALSE, IInv, KeptOK, [Next]_vars
  PROVE  Keeps
<1>1. CASE Owner
  BY <1>1, NoChange DEF Owner, Close, Suspend, Discard, Finalize, BatchAdd, Begin, IInv
<1>2. CASE Next
  BY <1>1, <1>2, OpenKeeps, WriteKeeps, CommitKeeps, ClosingKeeps, NamingKeeps, WorldKeeps DEF Next, Write, OwnerGoesOn
<1>3. CASE UNCHANGED vars
  BY <1>3, NoChange DEF vars, IInv
<1> QED
  BY <1>2, <1>3

\* A step that turns to a Discard leaves the disk alone.
LEMMA Mismatched ==
  ASSUME Next, op # "discard", op' = "discard"
  PROVE  UNCHANGED disk
<1> USE DEF disk, mem, commits
<1>1. ~ (Resolve \/ Open)
  BY DEF Resolve, Open, OpenResume, OpenStale, OpenForeign, OpenNew, RemoveStale, OpenJournal, OpenPart, OpenPartFails, Forget
<1>2. ~ Write
  BY DEF Write, WriteAt, NotePending, CommitIfDue, CommitAfterWait
<1>3. ~ Commit
  BY DEF Commit, BgTakes, BgFindsNothing, CommitSync, CommitSyncFails, CommitEnsure, CommitEnsureFails,
         CommitRecords, CommitRecordsFail, CommitJournalSync, CommitJournalSyncFails, CommitReturns
<1>4. Owner => UNCHANGED disk
  BY DEF Owner, Close, Suspend, Discard, Finalize, BatchAdd, Begin
<1>5. ~ (Settle \/ CloseCommits \/ CloseHeader \/ CloseFiles \/ Unlink \/ UnlinkJournal)
  BY DEF Settle, CloseCommits, CloseHeader, CloseFiles, Unlink, UnlinkJournal, Forget
<1>6. ~ (\/ FinalSync \/ FinalSyncFails \/ FinalCloseFails
         \/ BatchSync \/ BatchCloseFails \/ BatchSyncFails
         \/ Publish \/ Rename \/ NoteUnnamed \/ SyncFolder \/ DropJournal \/ DropJournalFails)
  BY DEF FinalSync, FinalSyncFails, FinalCloseFails, BatchSync, BatchCloseFails, BatchSyncFails, Publish, Rename, NoteUnnamed, SyncFolder,
         DropJournal, DropJournalFails
<1>7. ~ World
  BY DEF World, Kill, PowerLoss, WriteBack, UserTakesName, UserDeletesPart, Restart, Forget
<1> QED
  BY <1>1, <1>2, <1>3, <1>4, <1>5, <1>6, <1>7 DEF Next, OwnerGoesOn

\* A file that has its name, whatever the stop, keeps all its chunks.
LEMMA NamedKeepsAll ==
  ASSUME NamedIsComplete, Named
  PROVE  Kept = Chunks
BY DEF NamedIsComplete, Named, Kept, Survives

\* The first state of the file is one of the promise.
LEMMA InitPromise == Init => Promise!Init
<1> SUFFICES ASSUME Init PROVE Promise!Init
  OBVIOUS
<1>1. crash = {ns} /\ ns.final \notin Inodes /\ ns.journal \notin Inodes /\ op = "none"
  BY DEF Init
<1>2. Kept = {}
  BY <1>1 DEF Kept, Survives
<1>3. Named = FALSE
  BY <1>1 DEF Named
<1>4. (op = "discard") = FALSE
  BY <1>1
<1> QED
  BY <1>2, <1>3, <1>4 DEF Promise!Init

\* And a step of it one of the promise, but the user's deletion.
LEMMA StepPromise ==
  ASSUME SyncDrops = FALSE, IInv, KeptOK, [Next]_vars
  PROVE  [Promise!Next \/ UserDeletesPart]_(Promise!vars)
<1>1. Keeps
  BY StepKeeps
<1>2. NamedIsComplete /\ NamedIsComplete'
  BY StepIInv DEF IInv, DiskInv
<1>3. Kept \subseteq Chunks /\ Kept' \subseteq Chunks
  BY DEF Kept
<1>4. Named \in BOOLEAN /\ Named' \in BOOLEAN
  BY DEF Named
<1>5. (Named => Kept = Chunks) /\ (Named' => Kept' = Chunks)
  <2>1. Named => Kept = Chunks
    BY <1>2, NamedKeepsAll
  <2>2. Named' => Kept' = Chunks
    BY <1>2 DEF NamedIsComplete, Named, Kept, Survives
  <2> QED
    BY <2>1, <2>2
<1>6. op # "discard" /\ op' = "discard" => Kept' = Kept /\ (Named <=> Named')
  <2> SUFFICES ASSUME op # "discard", op' = "discard" PROVE Kept' = Kept /\ (Named <=> Named')
    OBVIOUS
  <2>1. UNCHANGED disk
    BY Mismatched DEF vars
  <2> QED
    BY <2>1 DEF disk, Kept, Survives, Named
<1> DEFINE m == (op = "discard")
<1>7. m \in BOOLEAN /\ m' \in BOOLEAN
  OBVIOUS
<1>8. /\ Named => Named'
      /\ Kept \subseteq Kept' \/ m \/ UserDeletesPart
      /\ ~m /\ m' => Kept' = Kept /\ (Named <=> Named')
  BY <1>1, <1>6 DEF Keeps
<1> HIDE DEF m
<1>9. CASE ~m /\ m'
  BY <1>4, <1>7, <1>8, <1>9 DEF Promise!Next, Promise!Mismatch, m
<1>10. CASE ~Named /\ Named' /\ ~(~m /\ m')
  BY <1>4, <1>5, <1>7, <1>10 DEF Promise!Next, Promise!Name, m
<1>11. CASE m /\ (Named <=> Named')
  BY <1>3, <1>4, <1>5, <1>7, <1>11 DEF Promise!Next, Promise!StartOver, m
<1>12. CASE ~m /\ ~m' /\ (Named <=> Named')
  BY <1>3, <1>4, <1>5, <1>7, <1>8, <1>12 DEF Promise!Next, Promise!Keep, Promise!vars, m
<1> QED
  BY <1>8, <1>9, <1>10, <1>11, <1>12

-----------------------------------------------------------------------------
(* The theorems.                                                           *)

\* IInv holds in every state, where a failed fsync keeps its pages.
THEOREM IInvHolds ==
  ASSUME SyncDrops = FALSE
  PROVE  Spec => []IInv
<1>1. Init => IInv
  BY InitIInv
<1>2. IInv /\ [Next]_vars => IInv'
  BY StepIInv
<1> QED
  BY <1>1, <1>2, PTL DEF Spec

\* The state of store.File stays within its types, whatever fails or stops.
THEOREM TypeCorrect ==
  ASSUME SyncDrops = FALSE
  PROVE  Spec => []TypeOK
<1>1. IInv => TypeOK
  BY DEF IInv, DiskInv, MemoryInv, TypeOK
<1> QED
  BY <1>1, IInvHolds, PTL

\* Invariant J of the store (STO-03): whatever the moment of a power loss, a
\* chunk that a journal notes is durable in the data file of that journal.
THEOREM JHolds ==
  ASSUME SyncDrops = FALSE
  PROVE  Spec => []InvariantJ
<1>1. IInv => InvariantJ
  BY DEF IInv, DiskInv
<1> QED
  BY <1>1, IInvHolds, PTL

\* STO-01: whatever the moment of a power loss, a file of this transfer that
\* bears its final name holds all its chunks.
THEOREM NamedHolds ==
  ASSUME SyncDrops = FALSE
  PROVE  Spec => []NamedIsComplete
<1>1. IInv => NamedIsComplete
  BY DEF IInv, DiskInv
<1> QED
  BY <1>1, IInvHolds, PTL
\* KeptOK holds in every state with IInv.
THEOREM KeptOKHolds ==
  ASSUME SyncDrops = FALSE
  PROVE  Spec => []KeptOK
<1>1. Init => KeptOK
  BY InitKept
<1>2. IInv /\ KeptOK /\ [Next]_vars => KeptOK'
  BY StepKept
<1> QED
  BY <1>1, <1>2, IInvHolds, PTL DEF Spec

\* A chunk that a commit of the store told durable is not asked again: whatever fails or stops, no step loses it,
\* until the file starts over, its digest being another, or the user deletes the partial file.
THEOREM KeptHolds ==
  ASSUME SyncDrops = FALSE
  PROVE  Spec => NothingKeptIsLost
<1>1. IInv /\ KeptOK /\ [Next]_vars => [Kept \subseteq Kept' \/ op = "discard" \/ UserDeletesPart]_vars
  BY StepKeeps DEF Keeps
<1> QED
  BY <1>1, IInvHolds, KeptOKHolds, PTL DEF Spec, NothingKeptIsLost

\* The store (store.go, batch.go) is a ResumableFile, the user's own deletion of the partial file apart: each of its
\* steps, a failed call, a kill or a power loss included, is a step of that promise or leaves it as it was.
THEOREM PromiseHolds ==
  ASSUME SyncDrops = FALSE
  PROVE  Spec => KeepsItsPromise
<1>1. Init => Promise!Init
  BY InitPromise
<1>2. IInv /\ KeptOK /\ [Next]_vars => [Promise!Next \/ UserDeletesPart]_(Promise!vars)
  BY StepPromise
<1> QED
  BY <1>1, <1>2, IInvHolds, KeptOKHolds, PTL DEF Spec, KeepsItsPromise

\* Where the user leaves the partial file alone, the store implements ResumableFile: a refinement, by the map that
\* Promise names.
THEOREM Implements ==
  ASSUME SyncDrops = FALSE, "delete" \notin UserActs
  PROVE  Spec => Promise!Spec
<1>1. ~ UserDeletesPart
  BY DEF UserDeletesPart
<1>2. Init => Promise!Init
  BY InitPromise
<1>3. IInv /\ KeptOK /\ [Next]_vars => [Promise!Next]_(Promise!vars)
  BY <1>1, StepPromise
<1> QED
  BY <1>2, <1>3, IInvHolds, KeptOKHolds, PTL DEF Spec, Promise!Spec
=============================================================================
