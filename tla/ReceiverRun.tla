---------------------------- MODULE ReceiverRun ----------------------------
(***************************************************************************)
(* One Run of pkg/transfer's Receiver: the scheduler that hands out the    *)
(* chunks of an offer, the workers with their connection and their writer  *)
(* goroutine, the user who pauses, skips and cancels, the full disk that   *)
(* sets an item aside, the digest that ends or restarts it, the batch      *)
(* that names small files in one go, and the end of the run.               *)
(*                                                                         *)
(* Every goroutine is a thread with a call in progress; each critical      *)
(* section of the source (item.mu, Receiver.mu, run.batchMu) is one        *)
(* action, so that the threads interleave exactly where the code lets go   *)
(* of a lock.  A file is the set of its chunks: PartFile has its details.  *)
(* Left out: the null sink, the speed, the bars and the stages.            *)
(***************************************************************************)
EXTENDS Naturals, FiniteSets, Sequences

CONSTANTS
  InRoot,      \* whether the items go to the transfer's own folder
  BatchFiles,  \* files in a batch (0: a system without syncfs)
  MaxAttempts, \* maxChunkAttempts
  DigestIndex, \* the index of a task that asks for the digest
  Plans        \* the offers, and bounds: what may happen in a run, one of these records
               \*   total: per item, its number of chunks (0: an empty file);
               \*   workers: the data connections;
               \*   earlier: what earlier sessions left, "kept", "old" chunks, "named" files;
               \*   faults: what may go wrong, see FaultKinds; maxFaults: how often;
               \*   users: what the user may do, see UserKinds; maxActs: how often

FaultKinds == {"lost", "chunk", "gone", "digest", "connect", "open", "write", "sync", "name", "full", "rootFull"}
UserKinds == {"pause", "pauseItem", "skip", "cancel"}

ASSUME PlansAssumption ==
  \A p \in Plans :
    /\ p.total \in Seq(Nat)
    /\ \A i \in DOMAIN p.total : p.total[i] \in Nat /\ p.total[i] < DigestIndex
    /\ IsFiniteSet(p.workers) /\ p.faults \subseteq FaultKinds /\ p.users \subseteq UserKinds
ASSUME RunBoundsAssumption == {BatchFiles, MaxAttempts, DigestIndex} \subseteq Nat /\ InRoot \in BOOLEAN

VARIABLES
  item,         \* run.items
  disk,         \* per item: what is on disk
  paused, pausedItems, cancelled,
  conn,         \* per worker: its connection: "none", "up"; "left": it returned
  inflight,     \* per worker: its requests in flight
  writes,       \* per worker: the chunks read, waiting for its writer
  at,           \* per thread: the call it is in
  batched,      \* run.batched
  marked,       \* run.markOnce and markErr: "no", "ok", "full"
  phase,        \* Run: "runs", "flushes", "returned"
  doneSent,     \* the DONE a worker sent
  room,         \* whether the disk has room
  faults, acts, \* how often something went wrong, how often the user acted
  plan          \* the one of Plans

control == <<paused, pausedItems, cancelled>>
net == <<conn, inflight, writes>>
ending == <<marked, phase, doneSent>>
world == <<room, faults, acts, plan>>
vars == <<item, disk, control, net, at, batched, ending, world>>

-----------------------------------------------------------------------------
(* The threads and their calls.                                            *)

Items == DOMAIN plan.total
Total(i) == plan.total[i]
Workers == plan.workers

Reader(w) == <<"reader", w>>
Writer(w) == <<"writer", w>>
Timer == <<"timer">>
User == <<"user">>
Main == <<"main">>
Threads == {Reader(w) : w \in Workers} \cup {Writer(w) : w \in Workers} \cup {Timer, User, Main}

Chunks(i) == {c \in 0..Total(i) : c < Total(i)}
Target(i) == IF Total(i) = 0 THEN 1 ELSE Total(i)

NoTask == [item |-> 0, index |-> 0, gen |-> 0]
\* ends: the items to mark ended; taken: the batch being flushed; full: the
\* disk had no room when the call in question failed.
Idle == [op |-> "idle", task |-> NoTask, ends |-> {}, taken |-> {}, full |-> FALSE]

Step(t, op) == at' = [at EXCEPT ![t].op = op]
Returns(t) == at' = [at EXCEPT ![t] = Idle]
Ends(t, i, state) ==
  at' = [at EXCEPT ![t] = [Idle EXCEPT !.op = "end", !.task.item = i, !.ends = {<<i, state>>}]]
Marks(t, i, state) ==
  at' = [at EXCEPT ![t] = [Idle EXCEPT !.op = "mark", !.ends = {<<i, state>>}]]

Pending(i) == item[i].state = "pending"
AllEnded == \A i \in Items : ~Pending(i)
Current(k) == k.gen = item[k.item].gen

May(kind) == kind \in plan.faults /\ faults < plan.maxFaults
Fault(kind) == May(kind) /\ faults' = faults + 1
Act(kind) == kind \in plan.users /\ acts < plan.maxActs /\ acts' = acts + 1 /\ phase = "runs"

-----------------------------------------------------------------------------
Fresh == [state |-> "pending", next |-> 0, retries |-> {}, bad |-> [c \in {} |-> 0],
          opened |-> FALSE, closed |-> FALSE, file |-> "none", processed |-> 0,
          fresh |-> {}, local |-> "none", digest |-> FALSE, restarted |-> FALSE, gen |-> 0]

\* An earlier session left some chunks in a journal, some of another version of
\* the source with the same size and date, or the complete file.
Left(i) ==
  {d \in [has : {{}}, kept : SUBSET Chunks(i), old : SUBSET Chunks(i), named : {"no", "earlier"}] :
     /\ d.old \subseteq d.kept
     /\ d.kept # {} => "kept" \in plan.earlier
     /\ d.old # {} => "old" \in plan.earlier
     /\ d.named = "earlier" => "named" \in plan.earlier /\ d.kept = {}}

Init ==
  /\ plan \in Plans
  /\ item = [i \in Items |-> Fresh]
  /\ disk \in {d \in [Items -> UNION {Left(i) : i \in Items}] : \A i \in Items : d[i] \in Left(i)}
  /\ paused = FALSE /\ pausedItems = {} /\ cancelled = FALSE
  /\ conn = [w \in Workers |-> "none"]
  /\ inflight = [w \in Workers |-> <<>>] /\ writes = [w \in Workers |-> <<>>]
  /\ at = [t \in Threads |-> Idle]
  /\ batched = {}
  /\ marked = "no" /\ phase = "runs" /\ doneSent = "none"
  /\ room = TRUE /\ faults = 0 /\ acts = 0

-----------------------------------------------------------------------------
(* The scheduler.                                                          *)

Requestable(i) == /\ Pending(i) /\ i \notin pausedItems
                  /\ \/ item[i].digest
                     \/ item[i].retries # {}
                     \/ item[i].next < Target(i)
Requests == {i \in Items : Requestable(i)}
Nothing == paused \/ cancelled \/ Requests = {}

Least(s) == CHOOSE x \in s : \A y \in s : x <= y

NextIndex(i) == IF item[i].digest THEN DigestIndex
                ELSE IF item[i].retries # {} THEN Least(item[i].retries) ELSE item[i].next
Handed(s) == IF s.digest THEN [s EXCEPT !.digest = FALSE]
             ELSE IF s.retries # {} THEN [s EXCEPT !.retries = @ \ {Least(@)}]
             ELSE [s EXCEPT !.next = @ + 1]

InFlight(w, k) == inflight' = [inflight EXCEPT ![w] = Append(@, k)]

\* next: the first task of the first item that has one.
Fetch(w) ==
  /\ at[Reader(w)] = Idle /\ conn[w] = "up" /\ Len(inflight[w]) < 2
  /\ ~Nothing
  /\ LET i == Least(Requests)
         k == [item |-> i, index |-> NextIndex(i), gen |-> item[i].gen] IN
     /\ item' = [item EXCEPT ![i] = Handed(@)]
     /\ IF k.index = DigestIndex
        THEN InFlight(w, k) /\ UNCHANGED at
        ELSE /\ at' = [at EXCEPT ![Reader(w)] = [Idle EXCEPT !.op = "prepare", !.task = k]]
             /\ UNCHANGED inflight
  /\ UNCHANGED <<disk, control, conn, writes, batched, ending, world>>

\* No more to ask for now: it reads.
FillEnds(w) ==
  /\ at[Reader(w)] = Idle /\ conn[w] = "up" /\ inflight[w] # <<>>
  /\ Len(inflight[w]) = 2 \/ Nothing
  /\ Step(Reader(w), "read")
  /\ UNCHANGED <<item, disk, control, net, batched, ending, world>>

\* Mutant: a request for the digest is not asked again.
RetriedChunksOnly(items, k) ==
  IF items[k.item].state = "pending" /\ Current(k) /\ k.index # DigestIndex
  THEN [items EXCEPT ![k.item].retries = @ \cup {k.index}] ELSE items

\* What is not pending or of another generation is not asked again.
Retried(items, k) ==
  IF items[k.item].state = "pending" /\ k.gen = items[k.item].gen
  THEN [items EXCEPT ![k.item].retries = @ \cup {k.index}] ELSE items
AllRetried(ks) ==
  IF ks = <<>> THEN item
  ELSE IF Len(ks) = 1 THEN Retried(item, ks[1]) ELSE Retried(Retried(item, ks[1]), ks[2])

\* drop: the requests in flight are scheduled again, the connection closes.
Drop(w, next) ==
  /\ item' = AllRetried(inflight[w])
  /\ inflight' = [inflight EXCEPT ![w] = <<>>]
  /\ conn' = [conn EXCEPT ![w] = next]
  /\ Returns(Reader(w))

-----------------------------------------------------------------------------
(* The connections.                                                        *)

Connect(w) ==
  /\ at[Reader(w)] = Idle /\ conn[w] = "none"
  /\ ~paused /\ ~cancelled /\ ~AllEnded
  /\ conn' = [conn EXCEPT ![w] = "up"]
  /\ UNCHANGED <<item, disk, control, inflight, writes, at, batched, ending, world>>

\* The attempts are used up: the worker returns an error.
ConnectFails(w) ==
  /\ at[Reader(w)] = Idle /\ conn[w] = "none" /\ ~paused /\ ~AllEnded
  /\ Fault("connect")
  /\ conn' = [conn EXCEPT ![w] = "left"]
  /\ UNCHANGED <<item, disk, control, inflight, writes, at, batched, ending, room, acts, plan>>

\* The connection is lost, or a pause interrupts its read.
Lose(w) ==
  /\ at[Reader(w)].op = "read"
  /\ \/ paused /\ UNCHANGED faults
     \/ Fault("lost")
  /\ Drop(w, "none")
  /\ UNCHANGED <<disk, control, writes, batched, ending, room, acts, plan>>

\* Two buffers a worker: one at its writer, one waiting for it.
Buffers(w) == Len(writes[w]) + IF at[Writer(w)] = Idle THEN 0 ELSE 1
Answered(w) == inflight' = [inflight EXCEPT ![w] = Tail(@)]

\* A chunk, with its SHA-256 or not.
Data(w) ==
  /\ at[Reader(w)].op = "read" /\ Head(inflight[w]).index # DigestIndex
  /\ Buffers(w) < 2
  /\ \E good \in BOOLEAN :
       /\ (good /\ UNCHANGED faults) \/ (~good /\ Fault("chunk"))
       /\ writes' = [writes EXCEPT ![w] = Append(@, [task |-> Head(inflight[w]), good |-> good])]
  /\ Answered(w) /\ Returns(Reader(w))
  /\ UNCHANGED <<item, disk, control, conn, batched, ending, room, acts, plan>>

\* CHUNK_ERR.
Gone(w) ==
  /\ at[Reader(w)].op = "read" /\ Buffers(w) < 2
  /\ Fault("gone")
  /\ Ends(Reader(w), Head(inflight[w]).item, "failed")
  /\ Answered(w)
  /\ UNCHANGED <<item, disk, control, conn, writes, batched, ending, room, acts, plan>>

\* Mutant: whatever the digest, the file is finished.
DigestUnchecked(w) ==
  LET k == Head(inflight[w]) IN
  /\ at[Reader(w)].op = "read" /\ k.index = DigestIndex /\ Buffers(w) < 2
  /\ at' = [at EXCEPT ![Reader(w)] = IF Current(k) THEN [Idle EXCEPT !.op = "finish", !.task = k] ELSE Idle]
  /\ Answered(w)
  /\ UNCHANGED <<item, disk, control, conn, writes, batched, ending, world>>

\* The sender's digest, of the content it has now; "digest": of yet another.
Digest(w) ==
  LET k == Head(inflight[w]) IN
  /\ at[Reader(w)].op = "read" /\ k.index = DigestIndex
  /\ Buffers(w) < 2
  /\ \/ ~Current(k) /\ Returns(Reader(w)) /\ UNCHANGED faults
     \/ /\ Current(k) /\ item[k.item].local = "same"
        /\ at' = [at EXCEPT ![Reader(w)] = [Idle EXCEPT !.op = "finish", !.task = k]]
        /\ UNCHANGED faults
     \/ /\ Current(k)
        /\ at' = [at EXCEPT ![Reader(w)] = [Idle EXCEPT !.op = "startOver", !.task = k]]
        /\ (item[k.item].local # "same" /\ UNCHANGED faults) \/ Fault("digest")
  /\ Answered(w)
  /\ UNCHANGED <<item, disk, control, conn, writes, batched, ending, room, acts, plan>>

\* Mutants: a skipped or failed item does not show; a cancel is not looked at.
StatusUnseen == "complete"
OverUncancelled == AllEnded

\* The worker returns: with DONE once every item ended, unless cancelled.
Status == IF \A i \in Items : item[i].state = "done" THEN "complete" ELSE "partial"
Over == AllEnded \/ cancelled
Leave(w) ==
  /\ at[Reader(w)] = Idle /\ conn[w] \in {"none", "up"} /\ inflight[w] = <<>>
  /\ \/ conn[w] = "up" /\ Over
     \/ conn[w] = "none" /\ (cancelled \/ (~paused /\ AllEnded))
  /\ conn' = [conn EXCEPT ![w] = "left"]
  /\ doneSent' = IF conn[w] = "none" \/ cancelled \/ ~AllEnded THEN doneSent
                 ELSE Status
  /\ UNCHANGED <<item, disk, control, inflight, writes, at, batched, marked, phase, world>>

\* A cancel closes the connection.
LeaveCancelled(w) ==
  /\ at[Reader(w)].op = "read" /\ cancelled
  /\ Drop(w, "left")
  /\ UNCHANGED <<disk, control, writes, batched, ending, world>>

\* The writer takes a chunk; one with a wrong hash is asked again, at most
\* MaxAttempts times.
Attempts(i, c) == IF c \in DOMAIN item[i].bad THEN item[i].bad[c] ELSE 0
Take(w) ==
  LET k == Head(writes[w]).task
      n == Attempts(k.item, k.index) + 1
      counts == Pending(k.item) /\ Current(k) IN
  /\ at[Writer(w)] = Idle /\ writes[w] # <<>>
  /\ writes' = [writes EXCEPT ![w] = Tail(@)]
  /\ \/ /\ Head(writes[w]).good
        /\ at' = [at EXCEPT ![Writer(w)] = [Idle EXCEPT !.op = "write", !.task = k]]
        /\ UNCHANGED item
     \/ ~Head(writes[w]).good /\ ~counts /\ UNCHANGED <<item, at>>
     \/ /\ ~Head(writes[w]).good /\ counts
        /\ LET bad == [c \in DOMAIN item[k.item].bad \cup {k.index} |->
                         IF c = k.index THEN n ELSE item[k.item].bad[c]] IN
           IF n >= MaxAttempts
           THEN /\ item' = [item EXCEPT ![k.item].bad = bad]
                /\ Ends(Writer(w), k.item, "failed")
           ELSE /\ item' = [item EXCEPT ![k.item].bad = bad, ![k.item].retries = @ \cup {k.index}]
                /\ UNCHANGED at
  /\ UNCHANGED <<disk, control, conn, inflight, batched, ending, world>>

-----------------------------------------------------------------------------
(* The calls about an item, whichever thread makes them.                   *)

\* open: what needs no request.
OpensDone(i) == disk[i].named = "earlier"

\* open, of a file to be had: its own partial file is reopened, with what it kept.
Open(i) ==
  /\ item' = [item EXCEPT ![i].opened = TRUE,
                          ![i].file = IF disk[i].kept # {} THEN "open" ELSE "none"]
  /\ disk' = [disk EXCEPT ![i].has = disk[i].kept]

\* prepare, and the open of an item not opened yet.
Prepare(w) ==
  LET t == Reader(w)  k == at[t].task  i == k.item  s == item[i] IN
  /\ at[t].op = "prepare"
  /\ \/ /\ s.closed \/ ~Current(k)
        /\ Returns(t) /\ UNCHANGED <<item, disk, inflight, faults>>
     \/ /\ ~s.closed /\ Current(k) /\ s.opened
        /\ IF s.file # "none" /\ k.index \in disk[i].has
           THEN Step(t, "count") /\ UNCHANGED inflight
           ELSE Returns(t) /\ InFlight(w, k)
        /\ UNCHANGED <<item, disk, faults>>
     \/ /\ ~s.closed /\ Current(k) /\ ~s.opened /\ OpensDone(i)
        /\ item' = [item EXCEPT ![i].opened = TRUE, ![i].closed = TRUE]
        /\ Marks(t, i, "done")
        /\ UNCHANGED <<disk, inflight, faults>>
     \/ /\ ~s.closed /\ Current(k) /\ ~s.opened /\ ~OpensDone(i)
        /\ Open(i)
        /\ IF k.index \in disk[i].kept
           THEN Step(t, "count") /\ UNCHANGED inflight
           ELSE Returns(t) /\ InFlight(w, k)
        /\ UNCHANGED faults
     \/ /\ ~s.closed /\ Current(k) /\ ~s.opened /\ Fault("open")
        /\ Ends(t, i, "failed")
        /\ UNCHANGED <<item, disk, inflight>>
  /\ UNCHANGED <<control, conn, writes, batched, ending, room, acts, plan>>

\* A failed call: a full disk sets the item aside, another error ends it.
FullFails(t) == at' = [at EXCEPT ![t].op = "diskFull", ![t].full = ~room]

\* WriteChunk and CommitIfDue: the chunk is noted, and maybe durable.
StoreChunk(t, k) ==
  LET i == k.item  c == k.index
      noted == [disk[i] EXCEPT !.has = @ \cup {c}]
      new == c \in Chunks(i) /\ c \notin disk[i].has IN
  \/ /\ ~new \/ room
     /\ item' = [item EXCEPT ![i].fresh = @ \cup ({c} \cap Chunks(i))]
     /\ IF new THEN \E durable \in {disk[i].kept, noted.has} :
                      disk' = [disk EXCEPT ![i] = [noted EXCEPT !.kept = durable]]
        ELSE UNCHANGED disk
     /\ Step(t, "count") /\ UNCHANGED faults
  \/ /\ new /\ ~room
     /\ \/ UNCHANGED disk
        \/ disk' = [disk EXCEPT ![i] = noted]
     /\ FullFails(t) /\ UNCHANGED <<item, faults>>
  \/ /\ new /\ Fault("write")
     /\ Ends(t, i, "failed") /\ UNCHANGED <<item, disk>>

\* write, under the item's read lock.
Write(t) ==
  LET k == at[t].task  i == k.item  s == item[i] IN
  /\ at[t].op \in {"write", "writeMade"}
  /\ \/ /\ \/ s.closed \/ ~Current(k)
           \/ s.file = "none" /\ at[t].op = "writeMade"
        /\ Returns(t) /\ UNCHANGED <<item, disk, faults>>
     \/ /\ s.file = "none" /\ ~s.closed /\ Current(k) /\ at[t].op = "write"
        /\ Step(t, "create") /\ UNCHANGED <<item, disk, faults>>
     \/ /\ s.file # "none" /\ ~s.closed /\ Current(k)
        /\ StoreChunk(t, k)
  /\ UNCHANGED <<control, net, batched, ending, room, acts, plan>>

\* The item's first verified chunk makes the root folder, once, and its file.
Create(t) ==
  LET k == at[t].task  i == k.item  s == item[i]
      needed == s.file = "none" /\ ~s.closed /\ Current(k)
      mark == IF InRoot /\ marked = "no" THEN (IF room THEN "ok" ELSE "full") ELSE marked IN
  /\ at[t].op = "create"
  /\ \/ ~needed /\ Step(t, "writeMade") /\ UNCHANGED <<item, disk, marked, faults>>
     \/ /\ needed /\ marked' = mark
        /\ \/ /\ mark # "full" /\ room
              /\ item' = [item EXCEPT ![i].file = "open"]
              /\ disk' = [disk EXCEPT ![i].has = disk[i].kept]
              /\ Step(t, "writeMade") /\ UNCHANGED faults
           \/ /\ mark = "full" \/ ~room
              /\ FullFails(t) /\ UNCHANGED <<item, disk, faults>>
           \/ /\ mark # "full" /\ Fault("write")
              /\ Ends(t, i, "failed") /\ UNCHANGED <<item, disk>>
  /\ UNCHANGED <<control, net, batched, phase, doneSent, room, acts, plan>>

\* diskFull: the item is set aside and opened again on Resume.
SetAside(s) == [s EXCEPT !.gen = @ + 1, !.next = 0, !.retries = {}, !.digest = FALSE,
                         !.file = "none", !.opened = FALSE, !.processed = 0, !.fresh = {}]
Suspended(d) == [d EXCEPT !.has = {}]
DiskFull(t) ==
  LET k == at[t].task  i == k.item
      aside == Pending(i) /\ ~item[i].closed /\ Current(k) IN
  /\ at[t].op = "diskFull"
  /\ item' = IF aside THEN [item EXCEPT ![i] = SetAside(@)] ELSE item
  /\ disk' = IF aside /\ item[i].file # "none" THEN [disk EXCEPT ![i] = Suspended(@)] ELSE disk
  /\ paused' = (paused \/ aside)
  /\ Returns(t)
  /\ UNCHANGED <<pausedItems, cancelled, net, batched, ending, world>>

\* countChunk, after the item's lock is let go.
Count(t) ==
  LET i == at[t].task.item IN
  /\ at[t].op = "count"
  /\ item' = [item EXCEPT ![i].processed = @ + 1]
  /\ IF item[i].processed + 1 = Target(i) THEN Step(t, "complete") ELSE Returns(t)
  /\ UNCHANGED <<disk, control, net, batched, ending, world>>

\* complete: a file of one chunk received now needs no digest.
NeedsNoDigest(i) == Total(i) = 0 \/ (Total(i) = 1 /\ 0 \in item[i].fresh)
Complete(t) ==
  LET i == at[t].task.item  s == item[i] IN
  /\ at[t].op = "complete"
  /\ \/ /\ NeedsNoDigest(i)
        /\ at' = [at EXCEPT ![t].op = "finish", ![t].task.gen = s.gen]
        /\ UNCHANGED item
     \/ /\ ~NeedsNoDigest(i) /\ (s.closed \/ s.file = "none")
        /\ Returns(t) /\ UNCHANGED item
     \/ /\ ~NeedsNoDigest(i) /\ ~s.closed /\ s.file # "none"
        /\ disk[i].has # Chunks(i)
        /\ Ends(t, i, "failed") /\ UNCHANGED item
     \/ /\ ~NeedsNoDigest(i) /\ ~s.closed /\ s.file # "none"
        /\ disk[i].has = Chunks(i)
        /\ item' = [item EXCEPT ![i].local = IF disk[i].old = {} THEN "same" ELSE "other"]
        /\ Step(t, "arm")
  /\ UNCHANGED <<disk, control, net, batched, ending, world>>

\* The digest waits to be asked for.
Arm(t) ==
  LET i == at[t].task.item IN
  /\ at[t].op = "arm"
  /\ item' = IF Pending(i) THEN [item EXCEPT ![i].digest = TRUE] ELSE item
  /\ Returns(t)
  /\ UNCHANGED <<disk, control, net, batched, ending, world>>

-----------------------------------------------------------------------------
(* The end of an item.                                                     *)

\* startOver: once; the second mismatch fails the item.
StartOver(t) ==
  LET i == at[t].task.item IN
  /\ at[t].op = "startOver"
  /\ item' = [item EXCEPT ![i].restarted = TRUE]
  /\ IF ~Pending(i) THEN Returns(t)
     ELSE IF item[i].restarted THEN Ends(t, i, "failed") ELSE Step(t, "discard")
  /\ UNCHANGED <<disk, control, net, batched, ending, world>>

DiscardItem(t) ==
  LET i == at[t].task.item IN
  /\ at[t].op = "discard"
  /\ \/ /\ item[i].closed /\ Returns(t) /\ UNCHANGED <<item, disk>>
     \/ /\ ~item[i].closed
        /\ item' = [item EXCEPT ![i].file = "none", ![i].processed = 0, ![i].fresh = {}]
        /\ disk' = IF item[i].file = "none" THEN disk
                   ELSE [disk EXCEPT ![i].has = {}, ![i].kept = {}, ![i].old = {}]
        /\ Step(t, "askAgain")
  /\ UNCHANGED <<control, net, batched, ending, world>>

AskAgain(t) ==
  LET i == at[t].task.item IN
  /\ at[t].op = "askAgain"
  /\ item' = [item EXCEPT ![i].next = 0, ![i].retries = {}, ![i].bad = [c \in {} |-> 0]]
  /\ Returns(t)
  /\ UNCHANGED <<disk, control, net, batched, ending, world>>

Named(d) == [has |-> {}, kept |-> {}, old |-> {}, named |-> IF d.old = {} THEN "good" ELSE "other"]
Batchable(i) == BatchFiles > 0 /\ InRoot /\ disk[i].kept = {}

\* finish: the batch, or Finalize with its outcomes.  A failed sync leaves the
\* File open.
Finish(t) ==
  LET i == at[t].task.item  s == item[i] IN
  /\ at[t].op = "finish"
  /\ \/ /\ s.closed /\ Returns(t) /\ UNCHANGED <<item, disk, batched, faults>>
     \/ /\ ~s.closed /\ s.file # "none" /\ Batchable(i)
        /\ batched' = batched \cup {i}
        /\ item' = [item EXCEPT ![i].closed = TRUE, ![i].file = "sealed"]
        /\ at' = [at EXCEPT ![t] = [Idle EXCEPT !.op = "flush"]]
        /\ UNCHANGED <<disk, faults>>
     \/ /\ ~s.closed /\ (s.file = "none" \/ ~Batchable(i))
        /\ item' = [item EXCEPT ![i].closed = TRUE, ![i].file = "none"]
        /\ disk' = IF s.file = "none" THEN disk ELSE [disk EXCEPT ![i] = Named(@)]
        /\ Marks(t, i, "done")
        /\ UNCHANGED <<batched, faults>>
     \/ /\ ~s.closed /\ s.file # "none" /\ ~Batchable(i)
        /\ \/ /\ ~room
              /\ at' = [at EXCEPT ![t].op = "diskFull", ![t].full = TRUE, ![t].task.gen = s.gen]
              /\ UNCHANGED <<item, faults>>
           \/ /\ Fault("sync")
              /\ item' = [item EXCEPT ![i].closed = TRUE] /\ Ends(t, i, "failed")
           \/ /\ Fault("name")
              /\ item' = [item EXCEPT ![i].closed = TRUE, ![i].file = "none"]
              /\ Ends(t, i, "failed")
        /\ UNCHANGED <<disk, batched>>
  /\ UNCHANGED <<control, net, ending, room, acts, plan>>

\* Mutant: the partial file is removed.
CloseFileRemoves(i, kept) ==
  IF item[i].closed THEN UNCHANGED <<item, disk>>
  ELSE /\ item' = [item EXCEPT ![i].closed = TRUE, ![i].file = "none"]
       /\ disk' = [disk EXCEPT ![i].kept = {}]

\* endItem: a skipped or failed item's file is closed with its state.
CloseFile(i, kept) ==
  IF item[i].closed THEN UNCHANGED <<item, disk>>
  ELSE /\ item' = [item EXCEPT ![i].closed = TRUE, ![i].file = "none"]
       /\ disk' = IF item[i].file = "none" THEN disk ELSE [disk EXCEPT ![i].kept = kept]
End(t) ==
  LET i == at[t].task.item IN
  /\ at[t].op = "end"
  /\ \E kept \in {disk[i].kept} \cup (IF room THEN {disk[i].has} ELSE {}) :
       (kept = disk[i].kept => plan.maxFaults > 0 \/ disk[i].has = kept \/ item[i].file = "none") /\ CloseFile(i, kept)
  /\ Step(t, "mark")
  /\ UNCHANGED <<control, net, batched, ending, world>>

After(ends) == IF ends = {} THEN Idle ELSE [Idle EXCEPT !.op = "mark", !.ends = ends]

\* markEnded: once.
Mark(t) ==
  /\ at[t].op = "mark"
  /\ \E e \in at[t].ends :
       IF Pending(e[1])
       THEN /\ item' = [item EXCEPT ![e[1]].state = e[2]]
            /\ at' = [at EXCEPT ![t] = [Idle EXCEPT !.op = "flush", !.ends = at[t].ends \ {e}]]
       ELSE at' = [at EXCEPT ![t] = After(at[t].ends \ {e})] /\ UNCHANGED item
  /\ UNCHANGED <<disk, control, net, batched, ending, world>>

\* flushBatch: due when it is full, or nothing else is left to receive.
OnlyBatchedLeft == Cardinality({i \in Items : Pending(i)}) <= Cardinality(batched)
Due == Cardinality(batched) >= BatchFiles \/ OnlyBatchedLeft
Flush(t) ==
  /\ at[t].op \in {"flush", "force"}
  /\ IF batched # {} /\ (at[t].op = "force" \/ Due)
     THEN /\ at' = [at EXCEPT ![t].op = "names", ![t].taken = batched]
          /\ batched' = {}
     ELSE at' = [at EXCEPT ![t] = After(at[t].ends)] /\ UNCHANGED batched
  /\ UNCHANGED <<item, disk, control, net, ending, world>>

\* Batch.Flush: durable, then named; not through a root already closed.
Names(t) ==
  /\ at[t].op = "names"
  /\ \E lost \in SUBSET at[t].taken :
       /\ IF phase = "returned" THEN lost = at[t].taken /\ UNCHANGED faults
          ELSE (lost = {} /\ UNCHANGED faults) \/ (lost # {} /\ Fault("name"))
       /\ disk' = [i \in Items |-> IF i \in at[t].taken \ lost THEN Named(disk[i]) ELSE disk[i]]
       /\ item' = [i \in Items |-> IF i \in at[t].taken THEN [item[i] EXCEPT !.file = "none"] ELSE item[i]]
       /\ at' = [at EXCEPT ![t] = After(at[t].ends \cup {<<i, IF i \in lost THEN "failed" ELSE "done">> :
                                                          i \in at[t].taken})]
  /\ UNCHANGED <<control, net, batched, ending, room, acts, plan>>

\* batchWait after the first file of a batch.
TimerFires ==
  /\ at[Timer] = Idle /\ batched # {}
  /\ at' = [at EXCEPT ![Timer] = [Idle EXCEPT !.op = "force"]]
  /\ UNCHANGED <<item, disk, control, net, batched, ending, world>>

-----------------------------------------------------------------------------
(* The end of the run.                                                     *)

WorkersLeft == \A w \in Workers : conn[w] = "left" /\ writes[w] = <<>>
                                  /\ at[Reader(w)] = Idle /\ at[Writer(w)] = Idle

RunFlushes ==
  /\ phase = "runs" /\ WorkersLeft
  /\ phase' = "flushes" /\ cancelled' = TRUE
  /\ at' = [at EXCEPT ![Main] = [Idle EXCEPT !.op = "force"]]
  /\ UNCHANGED <<item, disk, paused, pausedItems, net, batched, marked, doneSent, world>>

\* closeAll, then the results and the root's Close.
Closed(s) == IF ~s.closed /\ s.file # "none" THEN [s EXCEPT !.closed = TRUE, !.file = "none"] ELSE s
RunReturns ==
  /\ phase = "flushes" /\ at[Main] = Idle
  /\ phase' = "returned"
  /\ item' = [i \in Items |-> Closed(item[i])]
  /\ disk' = [i \in Items |-> IF ~item[i].closed /\ item[i].file # "none" /\ room
                              THEN [disk[i] EXCEPT !.kept = disk[i].has] ELSE disk[i]]
  /\ UNCHANGED <<control, net, at, batched, marked, doneSent, world>>

-----------------------------------------------------------------------------
(* The user, and the disk's room.                                          *)

Pause ==
  /\ Act("pause") /\ ~paused /\ paused' = TRUE
  /\ UNCHANGED <<item, disk, pausedItems, cancelled, net, at, batched, ending, room, faults, plan>>
\* The user resumes once there is room again.
Resume ==
  /\ paused /\ room /\ phase = "runs" /\ paused' = FALSE
  /\ UNCHANGED <<item, disk, pausedItems, cancelled, net, at, batched, ending, world>>
PauseItem(i) ==
  /\ Act("pauseItem") /\ i \notin pausedItems /\ pausedItems' = pausedItems \cup {i}
  /\ UNCHANGED <<item, disk, paused, cancelled, net, at, batched, ending, room, faults, plan>>
ResumeItem(i) ==
  /\ i \in pausedItems /\ phase = "runs" /\ pausedItems' = pausedItems \ {i}
  /\ UNCHANGED <<item, disk, paused, cancelled, net, at, batched, ending, world>>
SkipItem(i) ==
  /\ Act("skip") /\ at[User] = Idle
  /\ Ends(User, i, "skipped")
  /\ UNCHANGED <<item, disk, control, net, batched, ending, room, faults, plan>>
Cancel ==
  /\ Act("cancel") /\ ~cancelled /\ cancelled' = TRUE
  /\ UNCHANGED <<item, disk, paused, pausedItems, net, at, batched, ending, room, faults, plan>>

\* Before the root folder is made only with "rootFull": markRoot keeps its error
\* for ever, and the run then pauses again after every Resume.
DiskFills ==
  /\ room /\ Fault("full") /\ phase = "runs" /\ room' = FALSE
  /\ InRoot /\ marked = "no" => "rootFull" \in plan.faults
  /\ UNCHANGED <<item, disk, control, net, at, batched, ending, acts, plan>>
DiskFreed ==
  /\ ~room /\ room' = TRUE
  /\ UNCHANGED <<item, disk, control, net, at, batched, ending, faults, acts, plan>>

-----------------------------------------------------------------------------
ReaderSteps(w) == Fetch(w) \/ FillEnds(w) \/ Connect(w) \/ Leave(w) \/ LeaveCancelled(w) \/ Prepare(w)
Network(w) == Data(w) \/ Digest(w)
Trouble(w) == ConnectFails(w) \/ Lose(w) \/ Gone(w)
Call(t) == \/ Write(t) \/ Create(t) \/ DiskFull(t) \/ Count(t) \/ Complete(t) \/ Arm(t)
           \/ StartOver(t) \/ DiscardItem(t) \/ AskAgain(t) \/ Finish(t)
           \/ End(t) \/ Mark(t) \/ Flush(t) \/ Names(t)
UserMoves == Pause \/ Cancel \/ \E i \in Items : PauseItem(i) \/ SkipItem(i)
UserResumes == Resume \/ \E i \in Items : ResumeItem(i)

Next == \/ \E w \in Workers : ReaderSteps(w) \/ Network(w) \/ Trouble(w) \/ Take(w)
        \/ \E t \in Threads : Call(t)
        \/ TimerFires \/ RunFlushes \/ RunReturns
        \/ UserMoves \/ UserResumes \/ DiskFills \/ DiskFreed

Spec == Init /\ [][Next]_vars

\* The goroutines go on, the sender answers, the batch's timer fires; the user
\* resumes what is paused, once there is room.
Goes == \/ \E w \in Workers : ReaderSteps(w) \/ (paused /\ Lose(w)) \/ Network(w) \/ Take(w)
        \/ \E t \in Threads : Call(t)
        \/ TimerFires \/ RunFlushes \/ RunReturns \/ DiskFreed \/ Resume
        \/ \E i \in Items : ResumeItem(i)
Fairness == WF_vars(Goes)
FairSpec == Spec /\ Fairness

-----------------------------------------------------------------------------
(* Properties.                                                             *)

\* How many times chunk c of item i is to be asked for, or asked for and not
\* handled yet, wherever it is.
Asked(i, c) ==
  LET here(k) == k.item = i /\ k.index = c /\ Current(k)
      calls == {t \in Threads : /\ here(at[t].task)
                                /\ at[t].op \in {"prepare", "write", "writeMade", "create", "count", "diskFull"}}
      flying == {q \in Workers \X {1, 2} : q[2] <= Len(inflight[q[1]]) /\ here(inflight[q[1]][q[2]])}
      read == {q \in Workers \X {1, 2} : q[2] <= Len(writes[q[1]]) /\ here(writes[q[1]][q[2]].task)} IN
  Cardinality(calls) + Cardinality(flying) + Cardinality(read)
  + (IF c \in item[i].retries THEN 1 ELSE 0) + (IF c >= item[i].next THEN 1 ELSE 0)

\* Item i starts over, or is being ended.
Restarts(i) == \E t \in Threads : at[t].op \in {"discard", "askAgain", "end"} /\ at[t].task.item = i
Waiting(i) == Cardinality({c \in 0..(Target(i) - 1) : Asked(i, c) > 0})

\* An item that did not end is in someone's hands: a chunk of it or its digest is
\* to be asked for or on its way, it waits in a batch, or a call about it goes on;
\* and each chunk not on disk is on its way (diskFull, startOver, drop).
NoItemForgotten ==
  \A i \in Items : Pending(i) /\ phase = "runs" =>
    /\ \/ \E c \in 0..(Target(i) - 1) : Asked(i, c) > 0
       \/ item[i].digest \/ DigestIndex \in item[i].retries
       \/ \E w \in Workers : \E n \in 1..Len(inflight[w]) :
            inflight[w][n].item = i /\ inflight[w][n].index = DigestIndex /\ Current(inflight[w][n])
       \/ i \in batched
       \/ \E t \in Threads : \/ i \in at[t].taken \/ \E e \in at[t].ends : e[1] = i
                             \/ at[t].task.item = i /\ at[t].op # "idle"
    /\ item[i].closed \/ Restarts(i)
       \/ \A c \in Chunks(i) : \/ Asked(i, c) > 0
                               \/ item[i].file # "none" /\ c \in disk[i].has

\* What has its name in this run is the sender's file: received now, or resumed and
\* checked against the sender's digest; an item told done has it (complete,
\* verified, finish, flushBatch).
NamedIsVerified ==
  \A i \in Items : /\ disk[i].named # "other"
                   /\ item[i].state = "done" => disk[i].named \in {"good", "earlier"}

\* DONE says what happened: every item ended, and every one has its name if it
\* says complete (sendDone).
DoneFrameIsTrue ==
  /\ doneSent # "none" => AllEnded
  /\ doneSent = "complete" => \A i \in Items : disk[i].named \in {"good", "earlier"}

\* What an interrupted item has in its journal stays for a later resume, unless
\* its digest did not match (endItem, diskFull, closeAll).
KeptForResume ==
  [][\A i \in Items : \/ disk[i].kept \subseteq disk'[i].kept
                      \/ disk'[i].named # "no"
                      \/ item[i].restarted]_vars

\* Run returns, items that could not end or not (a cancel, a lost sender).
RunEnds == <>(phase = "returned")
=============================================================================
