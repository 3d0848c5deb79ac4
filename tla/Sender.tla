------------------------------- MODULE Sender -------------------------------
(***************************************************************************)
(* The sending of one accepted offer: pkg/transfer's Sender (Serve), on    *)
(* the Listener the device's port gives it (Hub).                          *)
(*                                                                         *)
(* One goroutine accepts the data connections; each has two, one prepares  *)
(* the answers to its requests (chunk, digest), one writes them; one       *)
(* hashes ahead the chunks a resume does not ask for; one waits for the    *)
(* context's end.  They share the open files, the hashes of the chunks     *)
(* served (s.mu) and the connections to close (connsMu).                   *)
(*                                                                         *)
(* The receiver and the disk are the environment: the receiver asks what   *)
(* it has not, at most InFlight requests on a connection; a source file    *)
(* may be written over or replaced.  A chunk's hash is the version of the  *)
(* content it is of: 0 as offered.  The bytes counted, the stages and the  *)
(* speed are left out, and so is the bench source.                         *)
(***************************************************************************)
EXTENDS Naturals, Sequences, FiniteSets

CONSTANTS
  Items,      \* the offer's items, numbers
  ChunksOf,   \* function: how many chunks an item has
  Had,        \* function: how many of them the receiver has from an earlier session
  MaxOpen,    \* maxOpenFiles
  Conns,      \* bound: the data connections, numbers
  Room,       \* the Listener's queue
  Plans       \* what may happen in a run: conns the last connection made, fixed the items whose
              \* file is open already (NewSenderFiles), sealed those the receiver had whole, inflight its maxInFlight, faults and max: at most so
              \* many of "write", "replace" (a source), "lose" (a connection), "stop" (the receiver)

Frames == 2        \* serveConn's frame buffers
DigestIndex == 99  \* a request of the digest, by its index

ASSUME FramesAssumption == \A p \in Plans : p.inflight <= Frames
ASSUME ConnsAssumption == IsFiniteSet(Conns) /\ Conns \subseteq Nat \ {0}
ASSUME ChunksAssumption == ChunksOf \in [Items -> 0 .. DigestIndex]

VARIABLES
  ctx,        \* the context: "on" or "ended"
  closer,     \* the goroutine that waits for its end: where it is
  port,       \* the Listener: registered with the Hub, closed, done, and its queue
  serve,      \* Serve's loop: where it is, and the connection just accepted
  conn,       \* per connection
  entry,      \* per item: the entry of s.files, and how many read it
  source,     \* per item: what became of its file
  served,     \* per item: the hash of each chunk served
  ahead,      \* per item: its chunks hashed ahead
  hasher,     \* hashAhead: where it is
  finished, partial, told,  \* DONE, and what the progress events said of it first
  want,       \* the receiver: the chunks and digests it has, the items it gave up, its DONE
  digests,    \* ghost: the hashes in each digest sent
  plan, faults  \* the one of Plans, and how many faults there were

sendVars == <<ctx, closer, port, serve, conn, entry, source, served, ahead, hasher, finished, partial, told, want, digests, plan, faults>>
bounds == <<plan, faults>>
ends == <<ctx, closer, serve>>
done == <<finished, partial, told>>
files == <<entry, source, served, ahead, hasher, digests>>

Index(i) == 0 .. ChunksOf[i] - 1
Request == (UNION {{[item |-> i, chunk |-> k] : k \in Index(i)} : i \in Items}) \cup [item : Items, chunk : {DigestIndex}]

\* A connection.  asked: the requests not answered yet, in their order; taken: how many of them
\* were read; at: the goroutine that prepares, sum the hashes of its digest and
\* pre whether those ahead are among them; ready: the answers
\* prepared, the first being written; out: the goroutine that writes; free: the frame buffers left.
NoConn == [st |-> "none", link |-> "up", asked |-> <<>>, taken |-> 0, at |-> "none", sum |-> <<>>,
           pre |-> FALSE, ready |-> <<>>, out |-> "none", now |-> TRUE, free |-> Frames]

Set(c, r) == conn' = [conn EXCEPT ![c] = r]
Now(c) == conn[c].asked[conn[c].taken]       \* the request being answered
Listed == {c \in Conns : conn[c].st = "listed"}

-----------------------------------------------------------------------------
(* The end of the context, and the Listener.                                *)

\* The user's cancel, the session's end, or done(), once the receiver is.
EndContext ==
  /\ ctx = "on"
  /\ ctx' = "ended"
  /\ UNCHANGED <<closer, port, serve, conn, files, done, want, bounds>>

\* quit, then Listener.Close: no delivery; the Hub forgets it; Accept fails; the queue is
\* emptied; then the connections.
Steps == <<"none", "quit", "unregister", "done", "drain", "conns", "over">>

Step(s) == closer = s /\ closer' = Steps[1 + CHOOSE n \in 1 .. 6 : Steps[n] = s]

Quits ==
  /\ ctx = "ended" /\ Step("none")
  /\ UNCHANGED <<ctx, port, serve, conn, files, done, want, bounds>>

Refuses ==
  /\ Step("quit")
  /\ port' = [port EXCEPT !.closed = TRUE]
  /\ UNCHANGED <<ctx, serve, conn, files, done, want, bounds>>

Unregisters ==
  /\ Step("unregister")
  /\ port' = [port EXCEPT !.registered = FALSE]
  /\ UNCHANGED <<ctx, serve, conn, files, done, want, bounds>>

FailsAccept ==
  /\ Step("done")
  /\ port' = [port EXCEPT !.done = TRUE]
  /\ UNCHANGED <<ctx, serve, conn, files, done, want, bounds>>

CloseLink(cs) == [c \in Conns |-> IF c \in cs /\ conn[c].link = "up" THEN [conn[c] EXCEPT !.link = "closed"] ELSE conn[c]]

Drains ==
  /\ closer = "drain"
  /\ IF port.queue = <<>> THEN Step("drain") /\ UNCHANGED <<port, conn>>
     ELSE /\ conn' = CloseLink({Head(port.queue)})
          /\ port' = [port EXCEPT !.queue = Tail(@)]
          /\ UNCHANGED closer
  /\ UNCHANGED <<ctx, serve, files, done, want, bounds>>

ClosesConns ==
  /\ Step("conns")
  /\ conn' = CloseLink(Listed)
  /\ UNCHANGED <<ctx, port, serve, files, done, want, bounds>>

\* deliver: not to a Listener closed meanwhile, nor to one too far behind.
Delivered(c) == IF ~port.closed /\ Len(port.queue) < Room THEN [port EXCEPT !.queue = Append(@, c)] ELSE port

\* Hub.handle: a DATA_JOIN of the transfer's peer, while it is registered; then its delivery.
Joins(c) ==
  /\ conn[c].st = "none" /\ c <= plan.conns /\ \A d \in Conns : d < c => conn[d].st # "none"
  /\ port.registered /\ want.done = "no"
  /\ Set(c, [NoConn EXCEPT !.st = "joins"])
  /\ UNCHANGED <<ends, port, files, done, want, bounds>>

Delivers(c) ==
  /\ conn[c].st = "joins"
  /\ port' = Delivered(c)
  /\ Set(c, [conn[c] EXCEPT !.st = "queued", !.link = IF port'.queue = port.queue THEN "closed" ELSE @])
  /\ UNCHANGED <<ends, files, done, want, bounds>>

-----------------------------------------------------------------------------
(* Serve.                                                                   *)

\* Accept: of a queue that is not empty, even once done.
Accepts ==
  /\ serve.at = "accepts" /\ port.queue # <<>>
  /\ serve' = [at |-> "lists", conn |-> Head(port.queue)]
  /\ port' = [port EXCEPT !.queue = Tail(@)]
  /\ UNCHANGED <<ctx, closer, conn, files, done, want, bounds>>

\* Under connsMu: the connection is one to close; then its goroutines.
Lists ==
  /\ serve.at = "lists"
  /\ serve' = [at |-> "accepts", conn |-> 0]
  /\ Set(serve.conn, [conn[serve.conn] EXCEPT !.st = "listed", !.at = "reads", !.out = "waits"])
  /\ UNCHANGED <<ctx, closer, port, files, done, want, bounds>>

StopsAccepting ==
  /\ serve.at = "accepts" /\ port.done
  /\ serve' = [serve EXCEPT !.at = "waits"]
  /\ UNCHANGED <<ctx, closer, port, conn, files, done, want, bounds>>

\* closeFiles: the entries go, and the files with them.
ClosesFiles == entry' = [i \in Items |-> [st |-> "none", refs |-> 0]]

\* wg.Wait, then closeFiles.
Returns ==
  /\ serve.at = "waits" /\ Listed = {}
  /\ serve' = [serve EXCEPT !.at = "returned"]
  /\ ClosesFiles
  /\ UNCHANGED <<ctx, closer, port, conn, source, served, ahead, hasher, digests, done, want, bounds>>

\* The connection's last step: both goroutines are over.
Gone(c) ==
  /\ conn[c].st = "listed" /\ conn[c].at = "ended" /\ conn[c].ready = <<>> /\ conn[c].out # "over"
  /\ Set(c, [conn[c] EXCEPT !.st = "gone", !.out = "none", !.link = IF @ = "up" THEN "closed" ELSE @])
  /\ UNCHANGED <<ends, port, files, done, want, bounds>>

-----------------------------------------------------------------------------
(* The source files.  A file open stays the one offered: one opened later   *)
(* is of the offer too, or refused (unchanged).                             *)

ContentOf(i) == IF source[i] = "written" THEN 1 ELSE 0
Unchanged(i) == source[i] # "written"                          \* of the file open
AtPath(i) == source[i] = "offered"                             \* of the one opened now

NoEntry == [st |-> "none", refs |-> 0]
Held(i) == [entry EXCEPT ![i].refs = @ + 1]

\* Mutant: a file over the limit is closed, read or not.
EvictsAny(f, i) == {j \in Items \ {i} : f[j].st = "open"}

\* acquire, too many files open: one nobody reads may be closed.
Evictable(f, i) == {j \in Items \ {i} : f[j].st = "open" /\ f[j].refs = 0}

Entries(f) == {j \in Items : f[j].st # "none"}

\* acquire, the open over: by which the entry is there, or gone if it failed; closeFiles may
\* have taken it away.
Opened(i, ok) ==
  LET f == [entry EXCEPT ![i] = IF ok THEN [st |-> "open", refs |-> 1] ELSE NoEntry] IN
  IF entry[i].st # "opening" THEN UNCHANGED entry
  ELSE IF ~ok \/ Cardinality(Entries(f)) <= MaxOpen \/ Evictable(f, i) = {} THEN entry' = f
  ELSE \E j \in Evictable(f, i) : entry' = [f EXCEPT ![j] = NoEntry]

Released(i) == IF entry[i].refs > 0 THEN [entry EXCEPT ![i].refs = @ - 1] ELSE entry

\* Where a goroutine is once it has the item's file, or has not.
\* acquire, by a goroutine: a file fixed, an open one, or its own open; another's is waited for.
Acquires(i, Got, Fails, Opens) ==
  \/ i \in plan.fixed /\ (IF Unchanged(i) THEN Got ELSE Fails) /\ UNCHANGED entry
  \/ i \notin plan.fixed /\ entry[i].st = "open" /\ Got /\ entry' = Held(i)
  \/ i \notin plan.fixed /\ entry[i].st = "none" /\ Opens /\ entry' = [entry EXCEPT ![i] = [st |-> "opening", refs |-> 0]]

-----------------------------------------------------------------------------
(* The goroutine that prepares a connection's answers.                      *)

To(c, at) == Set(c, [conn[c] EXCEPT !.at = at])
Answers(c, ok) == Set(c, [conn[c] EXCEPT !.at = "puts", !.now = ok, !.sum = <<>>, !.pre = FALSE])
First(c) == IF Now(c).chunk = DigestIndex THEN "checks" ELSE "serves"

\* ReadFrame: a request, in its order; a connection closed here reads nothing more.
Reads(c) ==
  /\ conn[c].at = "reads"
  /\ \/ /\ conn[c].taken < Len(conn[c].asked) /\ conn[c].link # "closed"
        /\ Set(c, [conn[c] EXCEPT !.taken = @ + 1, !.at = "acquires"])
     \/ /\ conn[c].link = "closed" \/ (conn[c].link = "lost" /\ conn[c].taken = Len(conn[c].asked))
        /\ To(c, "ended")
  /\ UNCHANGED <<ends, port, files, done, want, bounds>>

\* A frame buffer, then the item's file.
Acquire(c) ==
  LET r == [conn[c] EXCEPT !.free = @ - 1] IN
  /\ conn[c].at = "acquires" /\ conn[c].free > 0
  /\ Acquires(Now(c).item, Set(c, [r EXCEPT !.at = First(c)]), Set(c, [r EXCEPT !.at = "puts", !.now = FALSE]),
              Set(c, [r EXCEPT !.at = "opens"]))
  /\ UNCHANGED <<ends, port, source, served, ahead, hasher, digests, done, want, bounds>>

Opens(c) ==
  /\ conn[c].at = "opens"
  /\ LET i == Now(c).item IN Opened(i, AtPath(i)) /\ (IF AtPath(i) THEN To(c, First(c)) ELSE Answers(c, FALSE))
  /\ UNCHANGED <<ends, port, source, served, ahead, hasher, digests, done, want, bounds>>

\* markServed: the first chunk served of an item is not its first: those before it are to be
\* hashed ahead.
MarkServed(i, k) ==
  /\ served' = [served EXCEPT ![i] = [@ EXCEPT ![k] = {ContentOf(i)}]]
  /\ IF (\A j \in Index(i) : served[i][j] = {}) /\ k > 0
     THEN /\ ahead' = [ahead EXCEPT ![i] = [upTo |-> k, st |-> "queued", hash |-> [j \in 0 .. k - 1 |-> {}]]]
          /\ hasher' = [hasher EXCEPT !.queue = Append(@, i)]
     ELSE UNCHANGED <<ahead, hasher>>

\* chunk: the read, markServed, release.
Serves(c) ==
  /\ conn[c].at = "serves"
  /\ MarkServed(Now(c).item, Now(c).chunk)
  /\ entry' = Released(Now(c).item)
  /\ Answers(c, TRUE)
  /\ UNCHANGED <<ends, port, source, digests, done, want, bounds>>

\* hashedAhead: there are none, they are all hashed or could not be, or quit is closed.
HashedAhead(i) == ahead[i].st \in {"none", "hashed", "failed"} \/ closer # "none"

\* digest: the source is as offered; then the chunks being hashed ahead are waited for.
Checks(c) ==
  LET i == Now(c).item IN
  /\ conn[c].at = "checks"
  /\ \/ ~Unchanged(i) /\ Answers(c, FALSE) /\ entry' = Released(i)
     \/ /\ Unchanged(i) /\ HashedAhead(i)
        /\ Set(c, [conn[c] EXCEPT !.at = "sums", !.pre = ahead[i].st = "hashed"]) /\ UNCHANGED entry
  /\ UNCHANGED <<ends, port, source, served, ahead, hasher, digests, done, want, bounds>>

\* The hash of chunk k: as served, as hashed ahead, or of what is read now.
HashOf(i, k, pre) ==
  IF served[i][k] # {} THEN served[i][k]
  ELSE IF pre /\ k < ahead[i].upTo THEN ahead[i].hash[k]
  ELSE {ContentOf(i)}

Sums(c) ==
  LET i == Now(c).item  k == Len(conn[c].sum) IN
  /\ conn[c].at = "sums" /\ k < ChunksOf[i]
  /\ Set(c, [conn[c] EXCEPT !.sum = Append(@, HashOf(i, k, conn[c].pre))])
  /\ UNCHANGED <<ends, port, files, done, want, bounds>>

\* Mutant: the source is checked before the hash only.
ChecksOnce(c) == TRUE

\* ... and again: a file changed meanwhile has no digest.
StillUnchanged(c) == Unchanged(Now(c).item)

Digests(c) ==
  LET i == Now(c).item IN
  /\ conn[c].at = "sums" /\ Len(conn[c].sum) = ChunksOf[i]
  /\ digests' = IF StillUnchanged(c) THEN digests \cup {conn[c].sum} ELSE digests
  /\ Answers(c, StillUnchanged(c))
  /\ entry' = Released(i)
  /\ UNCHANGED <<ends, port, source, served, ahead, hasher, done, want, bounds>>

\* The answer to the goroutine that writes: one is being written, one waits.
Puts(c) ==
  /\ conn[c].at = "puts" /\ Len(conn[c].ready) < 2
  /\ Set(c, [conn[c] EXCEPT !.at = "reads", !.ready = Append(@, conn[c].now)])
  /\ UNCHANGED <<ends, port, files, done, want, bounds>>

-----------------------------------------------------------------------------
(* The goroutine that writes them.                                          *)

\* The receiver has the answer: of an item that failed nothing more is asked.
Taken(r, ok) ==
  IF ~ok THEN [want EXCEPT !.failed = @ \cup {r.item}]
  ELSE IF r.chunk = DigestIndex THEN [want EXCEPT !.digest = @ \cup {r.item}]
  ELSE [want EXCEPT !.has[r.item] = @ \cup {r.chunk}]

Writing(c) == conn[c].out = "waits" /\ conn[c].ready # <<>>

Writes(c) ==
  /\ Writing(c) /\ conn[c].link = "up"
  /\ Set(c, [conn[c] EXCEPT !.asked = Tail(@), !.taken = @ - 1, !.free = @ + 1, !.ready = Tail(@)])
  /\ want' = Taken(Head(conn[c].asked), Head(conn[c].ready))
  /\ UNCHANGED <<ends, port, files, done, bounds>>

\* Mutant: the goroutine is over once its write fails.
FailsLeaving(c) == Set(c, [conn[c] EXCEPT !.out = "over", !.ready = Tail(@), !.link = "closed"])

\* A write that fails closes the connection; what is prepared still is dropped.
FailsDraining(c) == Set(c, [conn[c] EXCEPT !.out = "drains", !.ready = Tail(@), !.link = "closed"])

WriteFails(c) ==
  /\ Writing(c) /\ conn[c].link # "up"
  /\ FailsDraining(c)
  /\ UNCHANGED <<ends, port, files, done, want, bounds>>

DropsAnswer(c) ==
  /\ conn[c].out = "drains" /\ conn[c].ready # <<>>
  /\ Set(c, [conn[c] EXCEPT !.ready = Tail(@)])
  /\ UNCHANGED <<ends, port, files, done, want, bounds>>

-----------------------------------------------------------------------------
(* hashAhead.                                                               *)

HasherTo(at) == hasher' = [hasher EXCEPT !.at = at]

HasherStarts ==
  /\ hasher.at = "waits" /\ hasher.queue # <<>>
  /\ hasher' = [at |-> "acquires", item |-> Head(hasher.queue), queue |-> Tail(hasher.queue), k |-> 0]
  /\ UNCHANGED <<ends, port, conn, entry, source, served, ahead, digests, done, want, bounds>>

HasherStops ==
  /\ hasher.at = "waits" /\ ctx = "ended"
  /\ HasherTo("over")
  /\ UNCHANGED <<ends, port, conn, entry, source, served, ahead, digests, done, want, bounds>>

HasherEnds(st) == HasherTo("waits") /\ ahead' = [ahead EXCEPT ![hasher.item].st = st]

HasherAcquires ==
  /\ hasher.at = "acquires"
  /\ Acquires(hasher.item, HasherTo("hashes") /\ UNCHANGED ahead, HasherEnds("failed"), HasherTo("opens") /\ UNCHANGED ahead)
  /\ UNCHANGED <<ends, port, conn, source, served, digests, done, want, bounds>>

HasherOpens ==
  /\ hasher.at = "opens"
  /\ Opened(hasher.item, AtPath(hasher.item))
  /\ IF AtPath(hasher.item) THEN HasherTo("hashes") /\ UNCHANGED ahead ELSE HasherEnds("failed")
  /\ UNCHANGED <<ends, port, conn, source, served, digests, done, want, bounds>>

\* A chunk served meanwhile is skipped; a file closed under it (closeFiles) gives nothing.
Hashes ==
  LET i == hasher.item  k == hasher.k IN
  /\ hasher.at = "hashes" /\ k < ahead[i].upTo /\ ctx = "on"
  /\ ahead' = IF served[i][k] # {} THEN ahead ELSE [ahead EXCEPT ![i].hash[k] = {ContentOf(i)}]
  /\ hasher' = [hasher EXCEPT !.k = @ + 1]
  /\ UNCHANGED <<ends, port, conn, entry, source, served, digests, done, want, bounds>>

HashedAll ==
  /\ hasher.at = "hashes" /\ (hasher.k = ahead[hasher.item].upTo \/ ctx = "ended")
  /\ HasherEnds(IF hasher.k = ahead[hasher.item].upTo THEN "hashed" ELSE "failed")
  /\ entry' = Released(hasher.item)
  /\ UNCHANGED <<ends, port, conn, source, served, digests, done, want, bounds>>

-----------------------------------------------------------------------------
(* DONE, and the progress events.                                           *)

\* receiverDone: the first DONE; whether it is partial comes after.
Finishes(c) ==
  /\ conn[c].at = "reads" /\ conn[c].taken = Len(conn[c].asked) /\ conn[c].link # "closed" /\ want.done # "no"
  /\ finished' = TRUE
  /\ To(c, IF finished THEN "ended" ELSE "reports")
  /\ UNCHANGED <<ends, port, files, partial, told, want, bounds>>

StoresPartial(c) ==
  /\ conn[c].at = "reports"
  /\ partial' = (want.done = "partial")
  /\ To(c, "tells")
  /\ UNCHANGED <<ends, port, files, finished, told, want, bounds>>

\* OnProgress: what it says first of the end counts, and ends the context.
Says ==
  /\ told' = IF told # "nothing" \/ ~finished THEN told ELSE IF partial THEN "partial" ELSE "complete"
  /\ ctx' = IF told' # "nothing" THEN "ended" ELSE ctx

Tells(c) ==
  /\ conn[c].at = "tells"
  /\ Says
  /\ To(c, "ended")
  /\ UNCHANGED <<closer, serve, port, files, finished, partial, want, bounds>>

\* reportProgress, every progressEvery.
Ticks ==
  /\ ctx = "on" /\ finished /\ told = "nothing"
  /\ Says
  /\ UNCHANGED <<closer, serve, port, conn, files, finished, partial, want, bounds>>

-----------------------------------------------------------------------------
(* The receiver, the network, the disk.                                     *)

Lost(c) == conn[c].link # "up"
Elsewhere(r) == \E c \in Conns : ~Lost(c) /\ \E n \in 1 .. Len(conn[c].asked) : conn[c].asked[n] = r
Wanted(r) ==
  /\ r.item \notin want.failed /\ ~Elsewhere(r)
  /\ IF r.chunk = DigestIndex THEN want.has[r.item] = Index(r.item) /\ r.item \notin want.digest
     ELSE r.chunk \notin want.has[r.item]

Asks(c) ==
  /\ conn[c].st # "none" /\ ~Lost(c) /\ want.done = "no" /\ Len(conn[c].asked) < plan.inflight
  /\ \E r \in Request : Wanted(r) /\ Set(c, [conn[c] EXCEPT !.asked = Append(@, r)])
  /\ UNCHANGED <<ends, port, files, done, want, bounds>>

\* Every item has its digest or failed; or the receiver's user stops.
IsDone ==
  /\ want.done = "no"
  /\ \A c \in Conns : conn[c].asked = <<>> \/ Lost(c)
  /\ \/ want.digest \cup want.failed = Items /\ want' = [want EXCEPT !.done = IF want.failed = {} THEN "complete" ELSE "partial"]
     \/ "stop" \in plan.faults /\ want' = [want EXCEPT !.done = "partial"]
  /\ UNCHANGED <<ends, port, conn, files, done, bounds>>

May(f) == f \in plan.faults /\ faults < plan.max /\ faults' = faults + 1 /\ UNCHANGED plan

Loses(c) ==
  /\ May("lose") /\ conn[c].st \notin {"none", "gone"} /\ ~Lost(c)
  /\ Set(c, [conn[c] EXCEPT !.link = "lost"])
  /\ UNCHANGED <<ends, port, files, done, want>>

Changes(i) ==
  /\ source[i] = "offered"
  /\ \/ May("write") /\ source' = [source EXCEPT ![i] = "written"]
     \/ May("replace") /\ source' = [source EXCEPT ![i] = "replaced"]
  /\ UNCHANGED <<ends, port, conn, entry, served, ahead, hasher, digests, done, want>>

-----------------------------------------------------------------------------
SendInit ==
  /\ plan \in Plans
  /\ ctx = "on" /\ closer = "none"
  /\ port = [registered |-> TRUE, closed |-> FALSE, done |-> FALSE, queue |-> <<>>]
  /\ serve = [at |-> "accepts", conn |-> 0]
  /\ conn = [c \in Conns |-> NoConn]
  /\ entry = [i \in Items |-> NoEntry]
  /\ source = [i \in Items |-> "offered"]
  /\ served = [i \in Items |-> [k \in Index(i) |-> {}]]
  /\ ahead = [i \in Items |-> [upTo |-> 0, st |-> "none", hash |-> <<>>]]
  /\ hasher = [at |-> "waits", item |-> 0, queue |-> <<>>, k |-> 0]
  /\ finished = FALSE /\ partial = FALSE /\ told = "nothing"
  /\ want = [has |-> [i \in Items |-> IF i \in plan.sealed THEN Index(i) ELSE 0 .. Had[i] - 1], digest |-> plan.sealed, failed |-> {}, done |-> "no"]
  /\ digests = {}
  /\ faults = 0

Closing == Quits \/ Refuses \/ Unregisters \/ FailsAccept \/ Drains \/ ClosesConns
Serving == Accepts \/ Lists \/ StopsAccepting \/ Returns
Preparer(c) == \/ Reads(c) \/ Acquire(c) \/ Opens(c) \/ Serves(c) \/ Checks(c) \/ Sums(c)
               \/ Digests(c) \/ Puts(c) \/ Finishes(c) \/ StoresPartial(c) \/ Tells(c)
Writer(c) == Writes(c) \/ WriteFails(c) \/ DropsAnswer(c) \/ Gone(c)
Hasher == HasherStarts \/ HasherStops \/ HasherAcquires \/ HasherOpens \/ Hashes \/ HashedAll

SendNext ==
  \/ EndContext \/ Closing \/ Serving \/ Hasher \/ Ticks \/ IsDone
  \/ \E c \in Conns : Joins(c) \/ Delivers(c) \/ Preparer(c) \/ Writer(c) \/ Asks(c) \/ Loses(c)
  \/ \E i \in Items : Changes(i)

SendSpec == SendInit /\ [][SendNext]_sendVars

\* Some goroutine goes on while one can, which is less than each of them does; nothing makes the
\* receiver ask, or a connection end.
Goroutines == Closing \/ Serving \/ Hasher \/ \E c \in Conns : Preparer(c) \/ Writer(c)
FairSendSpec == SendSpec /\ WF_sendVars(Goroutines)

-----------------------------------------------------------------------------
(* A digest is of the content offered, all of it, whatever was served,     *)
(* hashed ahead or read while the file changed (digest, XFER-07).          *)
DigestIsOffered == \A d \in digests : \A n \in 1 .. Len(d) : d[n] = {0}

(* The file of an item that is read, by a connection or hashed ahead, is   *)
(* open, and each of its readers is counted: it is closed neither for      *)
(* another one nor at the end (acquire, release, closeFiles after wg.Wait).*)
Reading(c) == conn[c].st = "listed" /\ conn[c].at \in {"serves", "checks", "sums"}
Hashing == hasher.at = "hashes" /\ serve.at # "returned"
ReadFilesAreOpen ==
  \A i \in Items \ plan.fixed :
    LET readers == {c \in Conns : Reading(c) /\ Now(c).item = i} \cup {d \in {0} : Hashing /\ hasher.item = i} IN
    readers # {} => entry[i].st = "open" /\ entry[i].refs = Cardinality(readers)

(* The context ended, Serve returns, whatever the receiver does: but for a *)
(* connection accepted while the others were being closed.                 *)
Late == \E c \in Conns : conn[c].st = "listed" /\ conn[c].link = "up"
ServeEnds == closer = "over" ~> (serve.at = "returned" \/ Late)
=============================================================================
