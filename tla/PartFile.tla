------------------------------ MODULE PartFile ------------------------------
(***************************************************************************)
(* One file being received: pkg/store's File, from Resolve and Open to     *)
(* Finalize, Close, Suspend or Discard, on a disk that loses power.        *)
(*                                                                         *)
(* Three names stand for one received file: NAME.part (the bytes),         *)
(* NAME.part.state (the journal) and NAME.  A file's content is the set of *)
(* its blocks: chunks for the data, the header and one record per chunk    *)
(* for the journal.                                                        *)
(*                                                                         *)
(* Three kinds of process run: the writers (the receiver's workers, under  *)
(* the read lock of the item), the owner (the call that closes or names    *)
(* the file, under its write lock) and the background commit.  Data and    *)
(* control are those of the source; the order of the records is abstracted *)
(* (the journal is a set), a torn tail being any part of what was not      *)
(* synced.  NoSync (a mode of the bench) and Windows' missing folder sync  *)
(* are left out.                                                           *)
(***************************************************************************)
EXTENDS Naturals, FiniteSets

CONSTANTS
  Chunks,        \* the chunks of the file
  Inodes,        \* identities of the files the store creates
  Writers,       \* how many workers may be writing a chunk at once
  CommitChunks,  \* Params.CommitBytes, in chunks
  VerifyTail,    \* chunks read again on resume
  Owned,         \* Params.Owned: the file is in its transfer's own folder
  Overwrite,     \* Params.Overwrite
  Batching,      \* whether the caller has a Batch (a system with syncfs)
  Faults,        \* the calls that may fail: see FaultKinds
  SyncDrops,     \* whether a failed fsync leaves its unwritten pages clean
  Crashes,       \* what may stop the process: "kill", "power"
  UserActs,      \* what the user may do: "create" NAME, "delete" NAME.part
  None, User,    \* no file; a file that is not this transfer's
  Header         \* the header block of a journal

FaultKinds == {"sync", "write", "rename", "close", "remove"}

ASSUME BlocksAssumption == Header \notin Chunks /\ IsFiniteSet(Chunks)
ASSUME NamesAssumption == None # User /\ None \notin Inodes /\ User \notin Inodes
ASSUME FlagsAssumption ==
  /\ Owned \in BOOLEAN /\ Overwrite \in BOOLEAN
  /\ Batching \in BOOLEAN /\ SyncDrops \in BOOLEAN
  /\ Faults \subseteq FaultKinds
ASSUME BoundsAssumption == {Writers, CommitChunks, VerifyTail} \subseteq Nat

VARIABLES
  ns,       \* the three names, as the processes see them
  crash,    \* the states of the names a power loss may leave
  file,     \* per file: blocks read back, not written back yet, durable
  pc,       \* where the owner is
  op,       \* what it is doing
  stage,    \* per chunk: where the writer that has it is
  have,     \* File.have
  pending,  \* File.pending
  part, journal,  \* File.part, File.journal (None: no handle)
  handles,  \* which of the two are open
  bg,       \* the background commit: "none", "called", "runs"
  bgErr,    \* File.bgErr
  holder,   \* who holds commitMu
  cstep,    \* the next step of its commit
  batch     \* the records it commits

disk == <<ns, crash, file>>
mem == <<stage, have, pending, part, journal, handles>>
commits == <<bg, bgErr, holder, cstep, batch>>
vars == <<disk, pc, op, mem, commits>>

-----------------------------------------------------------------------------
(* The disk.                                                               *)

Blocks == Chunks \cup {Header}
Entry == Inodes \cup {None, User}
Names == [part : Entry, journal : Entry, final : Entry]
Content == [bytes : SUBSET Blocks, dirty : SUBSET Blocks, durable : SUBSET Blocks]
Empty == [bytes |-> {}, dirty |-> {}, durable |-> {}]

\* Names change in order, and durably only at the next sync.
SetNames(n) == ns' = n /\ crash' = crash \cup {n}

\* Blocks written to an open file, not synced yet.
Written(i, blocks) == [file[i] EXCEPT !.bytes = @ \cup blocks, !.dirty = @ \cup blocks]

\* What an fsync leaves: all written back.  A file system with a metadata log
\* commits the names with it.
Flushed(c) == [c EXCEPT !.dirty = {}, !.durable = @ \cup c.dirty]
Sync(i) == file' = [file EXCEPT ![i] = Flushed(@)] /\ crash' = {ns}

\* A failed fsync: nothing durable.  Linux may then drop the pages it could
\* not write, so that the next fsync has nothing to report (SyncDrops).
SyncFails(i) ==
  /\ file' = IF SyncDrops THEN [file EXCEPT ![i].dirty = {}] ELSE file
  /\ UNCHANGED <<ns, crash>>

\* A file that no name, now or after a power loss, and no handle knows.
Free == {i \in Inodes : /\ i \notin {part, journal}
                        /\ \A s \in crash : i \notin {s.part, s.journal, s.final}}

\* A journal with its header; and the chunks a journal notes.
Readable(j) == j \in Inodes /\ Header \in file[j].bytes
Noted(j) == IF j \in Inodes THEN file[j].bytes \cap Chunks ELSE {}

Min2(a, b) == IF a < b THEN a ELSE b

-----------------------------------------------------------------------------
(* Resolve and Open.                                                       *)

Ours == Readable(ns.journal)
Foreign == ~Ours /\ (ns.journal # None \/ ns.part # None)

Ended == {"done", "failed", "exists", "elsewhere"}
NoFile == {"absent"} \cup Ended

\* A File no longer used; a commit of it that has not begun finds its files
\* closed and changes nothing.
Forget ==
  /\ op' = "none"
  /\ stage' = [c \in Chunks |-> "idle"]
  /\ have' = {} /\ pending' = {}
  /\ part' = None /\ journal' = None /\ handles' = {}
  /\ bg' = "none" /\ bgErr' = FALSE /\ holder' = "none" /\ cstep' = "none" /\ batch' = {}

\* Where the file goes: its own partial file, a free name, a file to overwrite,
\* or another candidate ("elsewhere").
Resolve ==
  /\ pc \in NoFile /\ bg = "none"
  /\ pc' = IF \/ Ours
              \/ Foreign /\ Owned
              \/ ~Foreign /\ (ns.final = None \/ Overwrite)
             THEN "placed" ELSE "elsewhere"
  /\ Forget
  /\ UNCHANGED disk

\* This transfer's journal and its data: the chunks it notes are there, but
\* those of the tail that do not match.
OpenResume ==
  /\ pc = "placed" /\ Ours /\ ns.part \in Inodes
  /\ \E tail \in SUBSET Noted(ns.journal) :
       /\ Cardinality(tail) = Min2(VerifyTail, Cardinality(Noted(ns.journal)))
       /\ have' = Noted(ns.journal) \ (tail \ file[ns.part].bytes)
  /\ part' = ns.part /\ journal' = ns.journal /\ handles' = {"part", "journal"}
  /\ pc' = "open"
  /\ UNCHANGED <<disk, op, stage, pending, commits>>

\* Mutant: the journal without its data is adopted by a new .part.
OpenStaleAdopts ==
  /\ pc = "placed"
  /\ (Ours /\ ns.part = None) \/ (Foreign /\ Owned)
  /\ IF Ours THEN pc' = "mkpart" /\ journal' = ns.journal /\ handles' = {"journal"}
             ELSE pc' = "stale" /\ UNCHANGED <<journal, handles>>
  /\ UNCHANGED <<disk, op, stage, have, pending, part, commits>>

\* Mutant: a partial file to resume is removed too.
OpenStaleAlways ==
  /\ pc = "placed" /\ (Ours \/ (Foreign /\ Owned))
  /\ pc' = "stale"
  /\ UNCHANGED <<disk, op, mem, commits>>

\* Leftovers that may go: the journal without its data; in the transfer's own
\* folder, anything without a readable journal.
OpenStale ==
  /\ pc = "placed"
  /\ (Ours /\ ns.part = None) \/ (Foreign /\ Owned)
  /\ pc' = "stale"
  /\ UNCHANGED <<disk, op, mem, commits>>

OpenForeign ==
  /\ pc = "placed" /\ Foreign /\ ~Owned
  /\ pc' = "failed"
  /\ UNCHANGED <<disk, op, mem, commits>>

OpenNew ==
  /\ pc = "placed" /\ ns.part = None /\ ns.journal = None
  /\ pc' = "fresh"
  /\ UNCHANGED <<disk, op, mem, commits>>

RemoveStale ==
  /\ pc = "stale"
  /\ \/ /\ ns.part # None
        /\ SetNames([ns EXCEPT !.part = None])
        /\ UNCHANGED pc
     \/ /\ ns.part = None /\ ns.journal # None
        /\ SetNames([ns EXCEPT !.journal = None])
        /\ UNCHANGED pc
     \/ /\ ns.part = None /\ ns.journal = None
        /\ pc' = "fresh"
        /\ UNCHANGED <<ns, crash>>
     \/ /\ "remove" \in Faults
        /\ pc' = "failed"
        /\ UNCHANGED <<ns, crash>>
  /\ UNCHANGED <<file, op, mem, commits>>

\* ensureJournal: a new journal and its header, not synced.
CreateJournal ==
  /\ ns.journal = None
  /\ \E j \in Free :
       /\ file' = [file EXCEPT ![j] = [Empty EXCEPT !.bytes = {Header}, !.dirty = {Header}]]
       /\ journal' = j
       /\ SetNames([ns EXCEPT !.journal = j])
  /\ handles' = handles \cup {"journal"}

\* Outside the transfer's own folder the journal comes first.
OpenJournal ==
  /\ pc = "fresh"
  /\ \/ Owned /\ pc' = "mkpart" /\ UNCHANGED <<disk, journal, handles>>
     \/ ~Owned /\ pc' = "mkpart" /\ CreateJournal
     \/ ~Owned /\ (ns.journal # None \/ "write" \in Faults)
        /\ pc' = "failed" /\ UNCHANGED <<disk, journal, handles>>
  /\ UNCHANGED <<op, stage, have, pending, part, commits>>

OpenPart ==
  /\ pc = "mkpart" /\ ns.part = None
  /\ \E d \in Free :
       /\ file' = [file EXCEPT ![d] = Empty]
       /\ part' = d
       /\ SetNames([ns EXCEPT !.part = d])
  /\ handles' = handles \cup {"part"}
  /\ pc' = "open"
  /\ UNCHANGED <<op, stage, have, pending, journal, commits>>

OpenPartFails ==
  /\ pc = "mkpart" /\ (ns.part # None \/ "write" \in Faults)
  /\ IF journal # None THEN SetNames([ns EXCEPT !.journal = None])
                       ELSE UNCHANGED <<ns, crash>>
  /\ Forget
  /\ pc' = "failed"
  /\ UNCHANGED file

Open == \/ OpenResume \/ OpenStale \/ OpenForeign \/ OpenNew
        \/ RemoveStale \/ OpenJournal \/ OpenPart \/ OpenPartFails

-----------------------------------------------------------------------------
(* The writers: WriteChunk, then CommitIfDue, under the item's read lock.  *)

Busy == {c \in Chunks : stage[c] # "idle"}
SetStage(c, s) == stage' = [stage EXCEPT ![c] = s]

WriteAt(c) ==
  /\ pc = "open" /\ c \notin have /\ stage[c] = "idle"
  /\ Cardinality(Busy) < Writers
  /\ file' = [file EXCEPT ![part] = Written(part, {c})]
  /\ SetStage(c, "written")
  /\ UNCHANGED <<ns, crash, pc, op, have, pending, part, journal, handles, commits>>

NotePending(c) ==
  /\ stage[c] = "written"
  /\ have' = have \cup {c} /\ pending' = pending \cup {c}
  /\ SetStage(c, "noted")
  /\ UNCHANGED <<disk, pc, op, part, journal, handles, commits>>

\* A group commit is due: for its bytes, or for its time.
MustCommit == Cardinality(pending) >= CommitChunks
MayCommit == pending # {}

StartCommit(c) ==
  /\ bg = "none" /\ bg' = "called"
  /\ SetStage(c, "idle")
  /\ UNCHANGED bgErr

TakeError(c) ==
  /\ bgErr /\ bgErr' = FALSE
  /\ SetStage(c, "idle")
  /\ UNCHANGED bg

CommitIfDue(c) ==
  /\ stage[c] = "noted"
  /\ \/ TakeError(c)
     \/ ~bgErr /\ ~MustCommit /\ SetStage(c, "idle") /\ UNCHANGED <<bg, bgErr>>
     \/ ~bgErr /\ MayCommit /\ StartCommit(c)
     \/ ~bgErr /\ MayCommit /\ bg # "none" /\ SetStage(c, "waits") /\ UNCHANGED <<bg, bgErr>>
  /\ UNCHANGED <<disk, pc, op, have, pending, part, journal, handles, holder, cstep, batch>>

\* The commit it waited for ended; another writer may have started the next.
CommitAfterWait(c) ==
  /\ stage[c] = "woken"
  /\ \/ TakeError(c)
     \/ ~bgErr /\ bg # "none" /\ SetStage(c, "idle") /\ UNCHANGED <<bg, bgErr>>
     \/ ~bgErr /\ StartCommit(c)
  /\ UNCHANGED <<disk, pc, op, have, pending, part, journal, handles, holder, cstep, batch>>

Write == \E c \in Chunks : WriteAt(c) \/ NotePending(c) \/ CommitIfDue(c) \/ CommitAfterWait(c)

-----------------------------------------------------------------------------
(* A commit, by the background goroutine or by the owner: the data synced, *)
(* then the records written, then the journal synced (invariant J).        *)

\* The end of the background commit: its error is kept for the next call, the
\* writers that wait for it go on.
BgEnds(failed) ==
  /\ bg' = "none"
  /\ bgErr' = (bgErr \/ failed)
  /\ stage' = [c \in Chunks |-> IF stage[c] = "waits" THEN "woken" ELSE stage[c]]

TakePending(who, first) ==
  /\ holder = "none" /\ holder' = who
  /\ batch' = pending /\ pending' = {}
  /\ cstep' = first

BgTakes ==
  /\ bg = "called" /\ pending # {}
  /\ TakePending("bg", "sync")
  /\ bg' = "runs"
  /\ UNCHANGED <<disk, pc, op, stage, have, part, journal, handles, bgErr>>

BgFindsNothing ==
  /\ bg = "called" /\ holder = "none" /\ pending = {}
  /\ BgEnds(FALSE)
  /\ UNCHANGED <<disk, pc, op, have, pending, part, journal, handles, holder, cstep, batch>>

\* commit returns to its caller, which notes a failed batch again.
CommitReturns(failed) ==
  /\ holder' = "none" /\ cstep' = "none" /\ batch' = {}
  /\ pending' = IF failed THEN pending \cup batch ELSE pending
  /\ \/ /\ holder = "bg"
        /\ BgEnds(failed)
        /\ UNCHANGED <<pc, handles>>
     \/ /\ holder = "owner" /\ pc = "commit"
        /\ pc' = IF failed THEN "closing" ELSE "header"
        /\ UNCHANGED <<bg, bgErr, stage, handles>>
     \/ /\ holder = "owner" /\ pc = "note"
        /\ pc' = op /\ handles' = {}
        /\ UNCHANGED <<bg, bgErr, stage>>
  /\ UNCHANGED <<op, have, part>>

CommitSync ==
  /\ cstep = "sync" /\ "part" \in handles
  /\ Sync(part) /\ UNCHANGED ns
  /\ cstep' = "ensure"
  /\ UNCHANGED <<pc, op, mem, bg, bgErr, holder, batch>>

CommitSyncFails ==
  /\ cstep = "sync"
  /\ \/ "part" \notin handles /\ UNCHANGED disk
     \/ "part" \in handles /\ "sync" \in Faults /\ SyncFails(part)
  /\ CommitReturns(TRUE) /\ UNCHANGED journal

CommitEnsure ==
  /\ cstep = "ensure" /\ cstep' = "records"
  /\ \/ journal # None /\ UNCHANGED <<disk, journal, handles>>
     \/ journal = None /\ CreateJournal
  /\ UNCHANGED <<pc, op, stage, have, pending, part, bg, bgErr, holder, batch>>

CommitEnsureFails ==
  /\ cstep = "ensure" /\ journal = None
  /\ ns.journal # None \/ "write" \in Faults
  /\ CommitReturns(TRUE) /\ UNCHANGED <<disk, journal>>

CommitRecords ==
  /\ cstep = "records" /\ "journal" \in handles
  /\ file' = [file EXCEPT ![journal] = Written(journal, batch)]
  /\ cstep' = "jsync"
  /\ UNCHANGED <<ns, crash, pc, op, mem, bg, bgErr, holder, batch>>

\* The disk is full: some of the records are written.
CommitRecordsFail ==
  /\ cstep = "records"
  /\ \/ "journal" \notin handles /\ UNCHANGED disk
     \/ /\ "journal" \in handles /\ "write" \in Faults
        /\ \E some \in SUBSET batch : file' = [file EXCEPT ![journal] = Written(journal, some)]
        /\ UNCHANGED <<ns, crash>>
  /\ CommitReturns(TRUE) /\ UNCHANGED journal

CommitJournalSync ==
  /\ cstep = "jsync" /\ "journal" \in handles
  /\ Sync(journal) /\ UNCHANGED ns
  /\ CommitReturns(FALSE) /\ UNCHANGED journal

CommitJournalSyncFails ==
  /\ cstep = "jsync"
  /\ \/ "journal" \notin handles /\ UNCHANGED disk
     \/ "journal" \in handles /\ "sync" \in Faults /\ SyncFails(journal)
  /\ CommitReturns(TRUE) /\ UNCHANGED journal

Commit == \/ BgTakes \/ BgFindsNothing
          \/ CommitSync \/ CommitSyncFails
          \/ CommitEnsure \/ CommitEnsureFails
          \/ CommitRecords \/ CommitRecordsFail
          \/ CommitJournalSync \/ CommitJournalSyncFails

-----------------------------------------------------------------------------
(* The owner, under the item's write lock: no writer is at work.           *)

Complete == have = Chunks

\* Close (a pause, a cancel, a failure), Suspend (a full disk), Discard (a
\* digest that did not match) and Finalize.
Begin(o, first) ==
  /\ pc = "open" /\ Busy = {}
  /\ op' = o /\ pc' = first
  /\ UNCHANGED <<disk, mem, commits>>

Close == Begin("close", "settle")
Suspend == Begin("suspend", "settle")
Discard == Complete /\ Begin("discard", "closing")
Finalize == Complete /\ Begin("finalize", "settle")

\* Batchable and Batch.Add: a complete file that has no journal is sealed.
BatchAdd ==
  /\ Batching /\ Owned /\ holder = "none" /\ journal = None
  /\ Complete /\ Begin("batch", "sealed")

\* The background commit is waited for; Finalize does not need what it did.
Settle ==
  /\ pc = "settle" /\ bg = "none"
  /\ bgErr' = FALSE
  /\ pc' = IF op = "finalize" THEN "sync" ELSE "commit"
  /\ UNCHANGED <<disk, op, mem, bg, holder, cstep, batch>>

CloseCommits ==
  /\ pc = "commit" /\ holder = "none"
  /\ IF pending = {} THEN pc' = "header" /\ UNCHANGED <<pending, holder, cstep, batch>>
                     ELSE TakePending("owner", "sync") /\ UNCHANGED pc
  /\ UNCHANGED <<disk, op, stage, have, part, journal, handles, bg, bgErr>>

\* Nothing to commit: the file gets its journal all the same, synced.
CloseHeader ==
  /\ pc = "header" /\ pc' = "closing"
  /\ \/ journal # None /\ UNCHANGED <<disk, journal, handles>>
     \/ /\ journal = None /\ ns.journal = None
        /\ \E j \in Free :
             /\ file' = [file EXCEPT ![j] = [bytes |-> {Header}, dirty |-> {}, durable |-> {Header}]]
             /\ journal' = j
             /\ ns' = [ns EXCEPT !.journal = j] /\ crash' = {ns'}
        /\ handles' = handles \cup {"journal"}
     \/ journal = None /\ "sync" \in Faults /\ CreateJournal
     \/ /\ journal = None /\ (ns.journal # None \/ "write" \in Faults)
        /\ UNCHANGED <<disk, journal, handles>>
  /\ UNCHANGED <<op, stage, have, pending, part, commits>>

\* Mutant: Suspend removes the .part whether or not it has a journal.
CloseFilesRemoves ==
  /\ pc = "closing" /\ holder = "none"
  /\ IF op \in {"discard", "suspend"}
       THEN /\ pc' = "unlink" /\ handles' = {}
            /\ UNCHANGED <<op, stage, have, pending, part, journal, commits>>
       ELSE pc' = "absent" /\ Forget
  /\ UNCHANGED disk

\* closeFiles waits for a commit that writes the journal.
CloseFiles ==
  /\ pc = "closing" /\ holder = "none"
  /\ IF op = "discard" \/ (op = "suspend" /\ journal = None)
       THEN /\ pc' = "unlink" /\ handles' = {}
            /\ UNCHANGED <<op, stage, have, pending, part, journal, commits>>
       ELSE pc' = "absent" /\ Forget
  /\ UNCHANGED disk

\* Suspend removes a .part without journal; Discard removes both, then the
\* file starts over under its name.
Unlink ==
  /\ pc = "unlink"
  /\ \/ SetNames([ns EXCEPT !.part = None])
     \/ "remove" \in Faults /\ UNCHANGED <<ns, crash>>
  /\ IF op = "discard"
       THEN pc' = "unlinkJournal" /\ UNCHANGED <<op, mem, commits>>
       ELSE pc' = "absent" /\ Forget
  /\ UNCHANGED file

UnlinkJournal ==
  /\ pc = "unlinkJournal" /\ pc' = "placed"
  /\ \/ journal # None /\ SetNames([ns EXCEPT !.journal = None])
     \/ (journal = None \/ "remove" \in Faults) /\ UNCHANGED <<ns, crash>>
  /\ Forget
  /\ UNCHANGED file

-----------------------------------------------------------------------------
(* Finalize and Batch.Flush: the data synced, then the name.               *)

FinalSync ==
  /\ pc = "sync"
  /\ Sync(part) /\ UNCHANGED ns
  /\ handles' = handles \ {"part"}
  /\ pc' = "publish"
  /\ UNCHANGED <<op, stage, have, pending, part, journal, commits>>

\* Not synced: the file is open again, for Close to keep it resumable.
FinalSyncFails ==
  /\ pc = "sync" /\ "sync" \in Faults
  /\ SyncFails(part)
  /\ pc' = "open" /\ op' = "none"
  /\ UNCHANGED <<mem, commits>>

\* Synced, but the close fails.
FinalCloseFails ==
  /\ pc = "sync" /\ "close" \in Faults
  /\ Sync(part) /\ UNCHANGED ns
  /\ pc' = "failed" /\ handles' = {}
  /\ UNCHANGED <<op, stage, have, pending, part, journal, commits>>

\* Mutant: the batch is renamed without syncfs.
BatchSyncSkipped ==
  /\ pc = "sealed" /\ pc' = "publish"
  /\ handles' = handles \ {"part"}
  /\ UNCHANGED <<disk, op, stage, have, pending, part, journal, commits>>

\* Flush: syncfs, for every file of the batch and the folder.
BatchSync ==
  /\ pc = "sealed"
  /\ file' = [i \in Inodes |-> Flushed(file[i])] /\ crash' = {ns} /\ UNCHANGED ns
  /\ handles' = handles \ {"part"}
  /\ pc' = "publish"
  /\ UNCHANGED <<op, stage, have, pending, part, journal, commits>>

\* Synced, but this file's close fails: no name.
BatchCloseFails ==
  /\ pc = "sealed" /\ "close" \in Faults
  /\ file' = [i \in Inodes |-> Flushed(file[i])] /\ crash' = {ns} /\ UNCHANGED ns
  /\ pc' = "failed" /\ handles' = {}
  /\ UNCHANGED <<op, stage, have, pending, part, journal, commits>>

\* Neither syncfs nor the file's own fsync: no name.
BatchSyncFails ==
  /\ pc = "sealed" /\ "sync" \in Faults
  /\ SyncFails(part)
  /\ pc' = "failed" /\ handles' = {}
  /\ UNCHANGED <<op, stage, have, pending, part, journal, commits>>

\* publish: the name must be free, unless it may be replaced.
Publish ==
  /\ pc = "publish"
  /\ IF ns.final # None /\ ~Overwrite
       THEN pc' = "noting" /\ op' = "exists"
       ELSE pc' = "rename" /\ UNCHANGED op
  /\ UNCHANGED <<disk, mem, commits>>

Rename ==
  /\ pc = "rename"
  /\ \/ /\ ns.part = part
        /\ SetNames([ns EXCEPT !.part = None, !.final = part])
        /\ pc' = IF op = "batch" THEN "drop" ELSE "folder"
        /\ UNCHANGED op
     \/ /\ ns.part # part \/ "rename" \in Faults
        /\ pc' = "noting" /\ op' = "failed"
        /\ UNCHANGED <<ns, crash>>
  /\ UNCHANGED <<file, mem, commits>>

\* The name could not be given: the journal notes what is there (notePending).
NoteUnnamed ==
  /\ pc = "noting" /\ pc' = "note"
  /\ TakePending("owner", "ensure")
  /\ UNCHANGED <<disk, op, stage, have, part, journal, handles, bg, bgErr>>

\* The folder's fsync, whose failure is not told.
SyncFolder ==
  /\ pc = "folder"
  /\ pc' = IF op = "batch" THEN "done" ELSE "drop"
  /\ \/ crash' = {ns}
     \/ "sync" \in Faults /\ UNCHANGED crash
  /\ UNCHANGED <<ns, file, op, mem, commits>>

\* dropJournal: a file finished in one go never had one.
DropJournal ==
  /\ pc = "drop"
  /\ pc' = IF op = "batch" THEN "folder" ELSE "done"
  /\ IF journal = None
       THEN UNCHANGED <<ns, crash, handles>>
       ELSE SetNames([ns EXCEPT !.journal = None]) /\ handles' = handles \ {"journal"}
  /\ UNCHANGED <<file, op, stage, have, pending, part, journal, commits>>

DropJournalFails ==
  /\ pc = "drop" /\ journal # None /\ "remove" \in Faults
  /\ pc' = "failed" /\ handles' = handles \ {"journal"}
  /\ UNCHANGED <<disk, op, stage, have, pending, part, journal, commits>>

Owner == \/ Close \/ Suspend \/ Discard \/ Finalize \/ BatchAdd

OwnerGoesOn ==
  \/ Settle \/ CloseCommits \/ CloseHeader \/ CloseFiles \/ Unlink \/ UnlinkJournal
  \/ FinalSync \/ FinalSyncFails \/ FinalCloseFails
  \/ BatchSync \/ BatchCloseFails \/ BatchSyncFails
  \/ Publish \/ Rename \/ NoteUnnamed \/ SyncFolder \/ DropJournal \/ DropJournalFails

-----------------------------------------------------------------------------
(* The world: stops, the disk's own write-back, the user.                  *)

Restart == Forget /\ pc' = "absent"

\* The process is killed: the disk is what the processes saw.
Kill == "kill" \in Crashes /\ pc # "absent" /\ Restart /\ UNCHANGED disk

\* The power is lost: the names of one of the states not made durable, and any
\* part of their blocks not written back; a file without a name is gone.
PowerLoss ==
  /\ "power" \in Crashes
  /\ \E s \in crash :
       LET named == {s.part, s.journal, s.final} \cap Inodes
           atRisk == UNION {{<<i, b>> : b \in file[i].bytes \ file[i].durable} : i \in named}
       IN /\ ns' = s /\ crash' = {s}
          /\ \E lost \in SUBSET atRisk :
               file' = [i \in Inodes |->
                          LET left == {b \in file[i].bytes : i \in named /\ <<i, b>> \notin lost}
                          IN [bytes |-> left, dirty |-> {}, durable |-> left]]
  /\ Restart

\* The system writes the names back by itself, sooner or later.
WriteBack ==
  /\ crash # {ns} /\ crash' = {ns}
  /\ UNCHANGED <<ns, file, pc, op, mem, commits>>

UserTakesName ==
  /\ "create" \in UserActs /\ ns.final = None
  /\ SetNames([ns EXCEPT !.final = User])
  /\ UNCHANGED <<file, pc, op, mem, commits>>

UserDeletesPart ==
  /\ "delete" \in UserActs /\ pc \in NoFile /\ ns.part # None
  /\ SetNames([ns EXCEPT !.part = None])
  /\ UNCHANGED <<file, pc, op, mem, commits>>

World == Kill \/ PowerLoss \/ WriteBack \/ UserTakesName \/ UserDeletesPart

Init ==
  /\ ns \in [part : {None} \cup (IF Owned THEN {} ELSE {User}), journal : {None}, final : {None, User}]
  /\ crash = {ns}
  /\ file = [i \in Inodes |-> Empty]
  /\ pc = "absent" /\ op = "none"
  /\ stage = [c \in Chunks |-> "idle"]
  /\ have = {} /\ pending = {}
  /\ part = None /\ journal = None /\ handles = {}
  /\ bg = "none" /\ bgErr = FALSE /\ holder = "none" /\ cstep = "none" /\ batch = {}

Next == Resolve \/ Open \/ Write \/ Commit \/ Owner \/ OwnerGoesOn \/ World

Spec == Init /\ [][Next]_vars

-----------------------------------------------------------------------------
(* What the store promises.                                                *)

DiskTypeOK == ns \in Names /\ crash \in SUBSET Names /\ file \in [Inodes -> Content]

OwnerTypeOK ==
  /\ pc \in {"absent", "placed", "stale", "fresh", "mkpart", "open", "settle", "commit",
             "header", "closing", "unlink", "unlinkJournal", "sync", "sealed", "publish",
             "rename", "noting", "note", "folder", "drop"} \cup Ended
  /\ op \in {"none", "close", "suspend", "discard", "finalize", "batch", "exists", "failed"}

MemoryTypeOK ==
  /\ stage \in [Chunks -> {"idle", "written", "noted", "waits", "woken"}]
  /\ have \in SUBSET Chunks /\ pending \in SUBSET Chunks
  /\ part \in Inodes \cup {None} /\ journal \in Inodes \cup {None}
  /\ handles \in SUBSET {"part", "journal"}

\* A commit is at a step only while it holds commitMu.
CommitTypeOK ==
  /\ bg \in {"none", "called", "runs"}
  /\ batch \in SUBSET Chunks
  /\ holder \in {"none", "bg", "owner"}
  /\ cstep \in {"none", "sync", "ensure", "records", "jsync"}
  /\ (holder = "none") <=> (cstep = "none")

ErrorTypeOK == bgErr \in BOOLEAN

TypeOK == DiskTypeOK /\ OwnerTypeOK /\ MemoryTypeOK /\ CommitTypeOK /\ ErrorTypeOK

\* Invariant J (STO-03): whatever the moment the power goes, a chunk the
\* journal notes is durable in the data the journal is of.
InvariantJ ==
  \A s \in crash : s.part \in Inodes => Noted(s.journal) \subseteq file[s.part].durable

\* STO-01: whatever the moment the power goes, a file of this transfer that has
\* its final name is complete.
NamedIsComplete ==
  \A s \in crash : s.final \in Inodes => Chunks \subseteq file[s.final].durable

\* What the next Open finds in the state s of the names, of a file whose journal
\* and data are durable as far as told.
Survives(s, c) ==
  \/ s.final \in Inodes /\ c \in file[s.final].durable
  \/ /\ s.part \in Inodes /\ s.journal \in Inodes
     /\ {c, Header} \subseteq file[s.journal].durable
     /\ c \in file[s.part].durable
Kept == {c \in Chunks : \A s \in crash : Survives(s, c)}

\* A chunk a commit told durable is not asked again: no later step of the store
\* and no stop loses it, until the file starts over (Discard) or gets its name.
NothingKeptIsLost ==
  [][Kept \subseteq Kept' \/ op = "discard" \/ UserDeletesPart]_vars

\* What ResumableFile promises, of this file: its chunks kept, its name, the Discard after a digest that did not match.
Named == \A s \in crash : s.final \in Inodes
Promise == INSTANCE ResumableFile WITH kept <- Kept, named <- Named, mismatch <- (op = "discard")

\* The store implements that promise: whatever fails or stops it, a step of it is a step of ResumableFile, or the
\* user's own deletion of the partial file, which is no step of the promise (store.go, batch.go).
KeepsItsPromise == Promise!Init /\ [][Promise!Next \/ UserDeletesPart]_(Promise!vars)
=============================================================================
