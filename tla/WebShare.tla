------------------------------ MODULE WebShare ------------------------------
(***************************************************************************)
(* The transfers of the web share: the requests of pkg/api/share.go, the   *)
(* record of "the" web transfer in server.go, the host's answers in        *)
(* handler.go, and the script of the portal page that sends and fetches.   *)
(*                                                                         *)
(* Every request is a goroutine of its own; the page sends one chunk per   *)
(* request, while pause, resume and cancel travel apart and may arrive in  *)
(* any order.  The daemon keeps one record of a web transfer, whatever the *)
(* number of browsers: who registers last owns it.                         *)
(*                                                                         *)
(* A page here is one upload or one download of a browser.  The access     *)
(* (PIN, token, lockout) is ShareAccess; speeds, percents and the events   *)
(* of the progress are left out.                                           *)
(***************************************************************************)
EXTENDS Naturals, FiniteSets

CONSTANTS
  Uploads,    \* pages that upload by chunks, as the portal does
  Forms,      \* clients that upload in one multipart request
  Downloads,  \* pages that fetch the shared file
  Files,      \* how many files an upload has
  Chunks,     \* how many slices a file has
  Names,      \* names in the download folder
  NameOf,     \* [client -> [1..Files -> Names]]: the names the files come with
  Slots,      \* request goroutines
  HostActs,   \* "pause", "cancel", "reject", "auto", "shared"; "full": its disk is, for one write
  PageActs,   \* "pause", "stop", "leave"
  Existing,   \* names that files of the host have before
  MaxActs,    \* bound: acts of the host and the pages among these, and time-outs
  None

Senders == Uploads \union Forms
Pages == Senders \union Downloads

ASSUME CountsAssumption == Files \in Nat \ {0} /\ Chunks \in Nat \ {0}
ASSUME NamesAssumption == NameOf \in [Senders -> [1..Files -> Names]]
ASSUME KindsAssumption == Uploads \intersect Forms = {} /\ Senders \intersect Downloads = {}
ASSUME NoneAssumption ==
  None \notin Slots \union Pages \union Names \union {"upload", "download", "chunk", "form", "down"}

VARIABLES
  page,    \* per page: what its script is doing, the file and chunk it is at, its request
  h,       \* per slot: the request goroutine
  rec,     \* webShareTransfer*: the one record
  ticket,  \* per sender: its entry of pendingWebUploads and the request that waits on it
  posts,   \* pause, resume and cancel on their way
  calls,   \* what CancelWebShareTransfer has still to do after it let go of the lock
  disk,    \* per name: the chunks of the file that has it
  host,    \* webShareAutoAccept, and whether something is shared
  reported, \* web_share_complete, as shown: who, which file, whether it was whole then
  spoiled, \* who had a file removed or emptied by another's act, or not written, or sent
           \* a first chunk twice
  acts     \* how many of MaxActs were done

shareVars == <<page, h, rec, ticket, posts, calls, disk, host, reported, spoiled, acts>>

Nobody == [kind |-> None, st |-> "none", page |-> None, file |-> 0, idx |-> 0, dest |-> None,
           saved |-> {}, wait |-> FALSE, gone |-> FALSE, canceled |-> FALSE, dead |-> FALSE]
NoRecord == [dir |-> None, by |-> None, dest |-> None, paused |-> FALSE]
NoTicket == [listed |-> FALSE, approved |-> FALSE, old |-> FALSE, chan |-> None,
             waiting |-> FALSE]
NoFile == [there |-> FALSE, has |-> {}]
HostFile == [there |-> TRUE, has |-> {}]

ShareInit ==
  /\ page = [p \in Pages |-> [st |-> "idle", file |-> 1, idx |-> 1, on |-> None]]
  /\ h = [s \in Slots |-> Nobody]
  /\ rec = NoRecord
  /\ ticket = [p \in Senders |-> NoTicket]
  /\ posts = {}
  /\ calls = {}
  /\ disk = [n \in Names |-> IF n \in Existing THEN HostFile ELSE NoFile]
  /\ host = [auto |-> FALSE, shared |-> TRUE]
  /\ reported = {}
  /\ spoiled = {}
  /\ acts = 0

Act == acts < MaxActs /\ acts' = acts + 1

-----------------------------------------------------------------------------
(* The record.  Registering makes this request the one that pause and      *)
(* cancel mean, and lifts a pause without waking who waits on it; ending   *)
(* any transfer clears the record and wakes everyone.                      *)

Register(s, dir, dest) ==
  rec' = [dir |-> dir, by |-> s, dest |-> dest, paused |-> FALSE]

Woken(hs) == [s \in Slots |-> [hs[s] EXCEPT !.wait = FALSE]]

\* Mutant: who waits on the record is not woken when it goes.
UnregisterWakesNobody(s) ==
  /\ rec' = NoRecord
  /\ h' = [h EXCEPT ![s] = Nobody]

UnregisterAndEnd(s) ==
  /\ rec' = NoRecord
  /\ h' = Woken([h EXCEPT ![s] = Nobody])

(* A request that ends without it; its cancel function does nothing then.  *)
EndOnly(s) ==
  /\ rec' = IF rec.by = s THEN [rec EXCEPT !.by = None] ELSE rec
  /\ h' = [h EXCEPT ![s] = Nobody]

Waits(p, s) == page[p].on = s

(* The answer reaches the page that sent the request, if it still waits.   *)
Answer(s, st) ==
  LET p == h[s].page
  IN page' = IF Waits(p, s) THEN [page EXCEPT ![p].st = st, ![p].on = None] ELSE page

(* CheckWebSharePause: the request goes on, waits, or finds its context    *)
(* over.  That the client has gone may be noticed late.                    *)
MayGoOn(s) == ~h[s].wait /\ ~h[s].canceled /\ ~rec.paused
Stopped(s) == ~h[s].wait /\ (h[s].canceled \/ h[s].gone)
Checks(s) == h[s].st \in {"check", "part", "read", "write"}

WaitOnPause(s) ==
  /\ Checks(s) /\ ~h[s].wait /\ ~h[s].canceled /\ rec.paused
  /\ h' = [h EXCEPT ![s].wait = TRUE]
  /\ UNCHANGED <<page, rec, ticket, posts, calls, disk, host, reported, spoiled, acts>>

-----------------------------------------------------------------------------
(* An upload asks first: request_upload waits for the host, or 45 s.       *)

RequestUpload(p) ==
  /\ p \in Senders /\ page[p].st = "idle"
  /\ ticket' = [ticket EXCEPT ![p] = [NoTicket EXCEPT !.listed = TRUE, !.approved = host.auto,
                                                     !.waiting = ~host.auto]]
  /\ page' = [page EXCEPT ![p].st = IF host.auto THEN "next" ELSE "asking"]
  /\ UNCHANGED <<h, rec, posts, calls, disk, host, reported, spoiled, acts>>

(* accept_web_upload, reject_web_upload: the first word goes to the one    *)
(* who waits, the last one holds for the chunks.                           *)
Say(t, word) == [t EXCEPT !.approved = word = "yes", !.chan = IF @ = None THEN word ELSE @]

HostAccepts(p) ==
  /\ ticket[p].listed /\ ~ticket[p].approved
  /\ ticket' = [ticket EXCEPT ![p] = Say(@, "yes")]
  /\ UNCHANGED <<page, h, rec, posts, calls, disk, host, reported, spoiled, acts>>

HostRejects(p) ==
  /\ "reject" \in HostActs /\ Act
  /\ ticket[p].listed
  /\ ticket' = [ticket EXCEPT ![p] = [Say(@, "no") EXCEPT !.listed = FALSE]]
  /\ UNCHANGED <<page, h, rec, posts, calls, disk, host, reported, spoiled>>

(* What request_upload answers: the word, or that there was none in time;  *)
(* when both are ready it may be either.                                   *)
AnswerAsk(p, ok) ==
  page' = IF page[p].st = "asking"
          THEN [page EXCEPT ![p].st = IF ok THEN "next" ELSE "failed"] ELSE page

Decided(p) ==
  /\ ticket[p].waiting /\ ticket[p].chan # None
  /\ ticket' = [ticket EXCEPT ![p].waiting = FALSE]
  /\ AnswerAsk(p, ticket[p].chan = "yes")
  /\ UNCHANGED <<h, rec, posts, calls, disk, host, reported, spoiled, acts>>

AskTimesOut(p) ==
  /\ Act
  /\ ticket[p].waiting
  /\ ticket' = [ticket EXCEPT ![p].waiting = FALSE, ![p].listed = FALSE]
  /\ AnswerAsk(p, FALSE)
  /\ UNCHANGED <<h, rec, posts, calls, disk, host, reported, spoiled>>

(* 60 s after it was asked for a ticket is no longer good, even halfway.   *)
TicketExpires(p) ==
  /\ Act
  /\ ticket[p].listed /\ ~ticket[p].waiting /\ ~ticket[p].old
  /\ page[p].st \in {"next", "sent", "paused"}
  /\ ticket' = [ticket EXCEPT ![p].old = TRUE]
  /\ UNCHANGED <<page, h, rec, posts, calls, disk, host, reported, spoiled>>

TicketGood(p) == ticket[p].listed /\ ticket[p].approved /\ ~ticket[p].old
MayUpload(p) == host.auto \/ TicketGood(p)

-----------------------------------------------------------------------------
(* The page: it sends its next chunk, all of its files at once, or asks    *)
(* for the rest of the shared file.                                        *)

Request(p, s, kind) ==
  /\ page[p].st = "next" /\ h[s] = Nobody /\ \A c \in calls : c.req # s
  /\ page' = [page EXCEPT ![p].st = "sent", ![p].on = s]
  /\ h' = [h EXCEPT ![s] = [Nobody EXCEPT !.kind = kind, !.st = "admit", !.page = p,
                                         !.file = page[p].file, !.idx = page[p].idx]]
  /\ UNCHANGED <<rec, ticket, posts, calls, disk, host, reported, spoiled, acts>>

UploadNextChunk(p, s) == p \in Uploads /\ page[p].file <= Files /\ Request(p, s, "chunk")
UploadForm(p, s) == p \in Forms /\ Request(p, s, "form")
StartOrResumeDownload(p, s) == p \in Downloads /\ Request(p, s, "down")

DownloadWithProgress(p) ==
  /\ p \in Downloads /\ page[p].st = "idle"
  /\ page' = [page EXCEPT ![p].st = "next"]
  /\ UNCHANGED <<h, rec, ticket, posts, calls, disk, host, reported, spoiled, acts>>

UploadDone(p) ==
  /\ p \in Uploads /\ page[p].st = "next" /\ page[p].file > Files
  /\ page' = [page EXCEPT ![p].st = "done"]
  /\ UNCHANGED <<h, rec, ticket, posts, calls, disk, host, reported, spoiled, acts>>

(* The page aborts its request: the goroutine will find the body, or the   *)
(* connection, closed.                                                     *)
Aborts(p, st) ==
  /\ page' = [page EXCEPT ![p].st = st, ![p].on = None]
  /\ h' = [s \in Slots |-> IF Waits(p, s) THEN [h[s] EXCEPT !.gone = TRUE] ELSE h[s]]

TogglePause(p) ==
  /\ "pause" \in PageActs /\ Act
  /\ p \notin Forms /\ page[p].st \in {"next", "sent"}
  /\ Aborts(p, "paused")
  /\ posts' = posts \union {<<p, "pause">>}
  /\ spoiled' = IF p \in Uploads /\ page[p].idx = 1 THEN spoiled \union {p} ELSE spoiled
  /\ UNCHANGED <<rec, ticket, calls, disk, host, reported>>

ToggleResume(p) ==
  /\ page[p].st = "paused"
  /\ page' = [page EXCEPT ![p].st = "next"]
  /\ posts' = posts \union {<<p, "resume">>}
  /\ UNCHANGED <<h, rec, ticket, calls, disk, host, reported, spoiled, acts>>

StopTransfer(p) ==
  /\ "stop" \in PageActs /\ Act
  /\ p \notin Forms /\ page[p].st \in {"asking", "next", "sent", "paused"}
  /\ Aborts(p, "failed")
  /\ posts' = posts \union {<<p, "cancel">>}
  /\ UNCHANGED <<rec, ticket, calls, disk, host, reported, spoiled>>

Leave(p) ==
  /\ "leave" \in PageActs /\ Act
  /\ page[p].st \in {"asking", "next", "sent", "paused"}
  /\ Aborts(p, "failed")
  /\ UNCHANGED <<rec, ticket, posts, calls, disk, host, reported, spoiled>>

-----------------------------------------------------------------------------
(* Pause, resume and cancel of "the" web transfer, by a page or the host.  *)

PauseTransfer == rec' = IF rec.dir = None THEN rec ELSE [rec EXCEPT !.paused = TRUE]

\* Mutant: resume clears the pause and wakes nobody.
ResumeWakesNobody ==
  IF rec.dir = None THEN UNCHANGED <<h, rec>>
  ELSE rec' = [rec EXCEPT !.paused = FALSE] /\ UNCHANGED h

ResumeTransfer ==
  IF rec.dir = None THEN UNCHANGED <<h, rec>>
  ELSE rec' = [rec EXCEPT !.paused = FALSE] /\ h' = Woken(h)

(* What is written to a file that was removed under its open handle goes   *)
(* nowhere; Windows refuses to remove such a file.                         *)
Unlinked(hs, n) ==
  [s \in Slots |-> IF hs[s].dest = n THEN [hs[s] EXCEPT !.dead = TRUE] ELSE hs[s]]

Remove(hs, n) ==
  \/ disk' = [disk EXCEPT ![n] = NoFile] /\ h' = Unlinked(hs, n)
  \/ /\ \E s \in Slots : hs[s].dest = n /\ hs[s].st \in {"copy", "read"}
     /\ h' = hs /\ UNCHANGED disk

(* Whose upload the name is part of: it comes with it, or its request has  *)
(* written to it or is about to.                                           *)
UsersOf(n) ==
  {p \in Senders :
     \/ \E i \in 1..Files : NameOf[p][i] = n
     \/ \E s \in Slots : h[s].page = p /\ (h[s].dest = n \/ \E f \in h[s].saved : f[2] = n)}

(* Cancel clears the record and wakes everyone; then, without the lock, it *)
(* ends the request's context, and removes its file.                       *)
Undoes ==
  calls' = IF rec.by = None /\ rec.dest = None THEN calls
           ELSE calls \union {[req |-> rec.by, dest |-> rec.dest]}

\* Mutant: cancel ends the context, and leaves who waits on the condition asleep.
CancelWakesNobody == rec' = NoRecord /\ UNCHANGED h /\ Undoes

CancelTransfer == rec' = NoRecord /\ h' = Woken(h) /\ Undoes

CancelsContext(c) ==
  /\ c.req # None
  /\ h' = IF h[c.req] = Nobody THEN h ELSE [h EXCEPT ![c.req].canceled = TRUE]
  /\ calls' = (calls \ {c}) \union (IF c.dest = None THEN {} ELSE {[c EXCEPT !.req = None]})
  /\ UNCHANGED <<page, rec, ticket, posts, disk, host, reported, spoiled, acts>>

RemovesFile(c) ==
  /\ c.req = None
  /\ Remove(h, c.dest)
  /\ spoiled' = spoiled \union UsersOf(c.dest)
  /\ calls' = calls \ {c}
  /\ UNCHANGED <<page, rec, ticket, posts, host, reported, acts>>

Arrives(p, what) ==
  /\ <<p, what>> \in posts
  /\ posts' = posts \ {<<p, what>>}
  /\ \/ what = "pause" /\ PauseTransfer /\ UNCHANGED <<h, calls>>
     \/ what = "resume" /\ ResumeTransfer /\ UNCHANGED calls
     \/ what = "cancel" /\ CancelTransfer
  /\ UNCHANGED <<page, ticket, disk, host, reported, spoiled, acts>>

HostPauses ==
  /\ "pause" \in HostActs /\ Act
  /\ PauseTransfer
  /\ UNCHANGED <<page, h, ticket, posts, calls, disk, host, reported, spoiled>>

HostResumes ==
  /\ rec.paused \/ \E s \in Slots : h[s].wait
  /\ ResumeTransfer
  /\ UNCHANGED <<page, ticket, posts, calls, disk, host, reported, spoiled, acts>>

HostCancels ==
  /\ "cancel" \in HostActs /\ Act
  /\ CancelTransfer
  /\ UNCHANGED <<page, ticket, posts, disk, host, reported, spoiled>>

(* set_web_share_auto_accept; share_web_files and clear_web_files.         *)
HostSets(field) ==
  /\ field \in HostActs /\ Act
  /\ host' = [host EXCEPT ![field] = ~@]
  /\ UNCHANGED <<page, h, rec, ticket, posts, calls, disk, reported, spoiled>>

-----------------------------------------------------------------------------
(* upload_chunk.                                                           *)

ChunkAdmit(s) ==
  LET p == h[s].page
  IN /\ h[s].st = "admit" /\ h[s].kind = "chunk"
     /\ IF MayUpload(p)
        THEN h' = [h EXCEPT ![s].st = "register", ![s].dest = NameOf[p][h[s].file]]
             /\ UNCHANGED <<page, rec>>
        ELSE EndOnly(s) /\ Answer(s, "failed")
     /\ UNCHANGED <<ticket, posts, calls, disk, host, reported, spoiled, acts>>

ChunkRegister(s) ==
  /\ h[s].st = "register"
  /\ Register(s, "upload", h[s].dest)
  /\ h' = [h EXCEPT ![s].st = "check"]
  /\ UNCHANGED <<page, ticket, posts, calls, disk, host, reported, spoiled, acts>>

(* The record stays when the request ends here.                            *)
ChunkCheck(s) ==
  /\ h[s].st = "check"
  /\ \/ MayGoOn(s) /\ h' = [h EXCEPT ![s].st = "open"] /\ UNCHANGED <<page, rec>>
     \/ Stopped(s) /\ EndOnly(s) /\ Answer(s, "failed")
  /\ UNCHANGED <<ticket, posts, calls, disk, host, reported, spoiled, acts>>

(* The first chunk empties the file, the others are written where they go. *)
ChunkOpen(s) ==
  /\ h[s].st = "open"
  /\ disk' = [disk EXCEPT ![h[s].dest] =
                [there |-> TRUE, has |-> IF h[s].idx = 1 THEN {} ELSE @.has]]
  /\ h' = [h EXCEPT ![s].st = "copy", ![s].dead = FALSE]
  /\ UNCHANGED <<page, rec, ticket, posts, calls, host, reported, spoiled, acts>>

Written(s) ==
  disk' = IF h[s].dead THEN disk ELSE [disk EXCEPT ![h[s].dest].has = @ \union {h[s].idx}]

\* Mutant: a chunk whose page left counts as written in full.
CutShortIsDone(s) ==
  /\ h[s].st = "copy"
  /\ IF h[s].gone THEN UNCHANGED disk ELSE Written(s)
  /\ h' = [h EXCEPT ![s].st = "end"]
  /\ UNCHANGED <<page, rec, ticket, posts, calls, host, reported, spoiled, acts>>

ChunkCopy(s) ==
  /\ h[s].st = "copy"
  /\ \/ Written(s) /\ h' = [h EXCEPT ![s].st = "end"] /\ UNCHANGED rec
     \/ h[s].gone /\ EndOnly(s) /\ UNCHANGED disk
  /\ UNCHANGED <<page, ticket, posts, calls, host, reported, spoiled, acts>>

(* After its last chunk the file is reported, and the ticket is used up,   *)
(* whatever files the page has left to send with it.                       *)
Whole(n) == disk[n].there /\ disk[n].has = 1..Chunks
Report(s, saved) ==
  {[page |-> h[s].page, file |-> f[1], whole |-> Whole(f[2])] : f \in saved}

PageNext(s) ==
  LET p == h[s].page
      last == h[s].idx = Chunks
  IN page' = IF Waits(p, s)
             THEN [page EXCEPT ![p].st = "next", ![p].on = None,
                               ![p].file = IF last THEN @ + 1 ELSE @,
                               ![p].idx = IF last THEN 1 ELSE @ + 1]
             ELSE page

ChunkEnd(s) ==
  /\ h[s].st = "end"
  /\ PageNext(s)
  /\ IF h[s].idx = Chunks
     THEN /\ UnregisterAndEnd(s)
          /\ ticket' = [ticket EXCEPT ![h[s].page].listed = FALSE]
          /\ reported' = reported \union Report(s, {<<h[s].file, h[s].dest>>})
     ELSE EndOnly(s) /\ UNCHANGED <<ticket, reported>>
  /\ UNCHANGED <<posts, calls, disk, host, spoiled, acts>>

-----------------------------------------------------------------------------
(* upload: all the files in one request; the ticket is good for one.       *)

FormAdmit(s) ==
  LET p == h[s].page
  IN /\ h[s].st = "admit" /\ h[s].kind = "form"
     /\ ticket' = IF TicketGood(p) THEN [ticket EXCEPT ![p].listed = FALSE] ELSE ticket
     /\ IF MayUpload(p)
        THEN h' = [h EXCEPT ![s].st = "part"] /\ UNCHANGED <<page, rec>>
        ELSE EndOnly(s) /\ Answer(s, "failed")
     /\ UNCHANGED <<posts, calls, disk, host, reported, spoiled, acts>>

(* A part whose name is taken gets another one, looked up before the file  *)
(* is made.  A body that ends early reads like the last part: what was     *)
(* saved is reported.                                                      *)
Asked == {NameOf[p][i] : p \in Senders, i \in 1..Files}
FreeNames(n) == IF disk[n].there THEN {m \in Names \ Asked : ~disk[m].there} ELSE {n}

FormPart(s) ==
  /\ h[s].st = "part"
  /\ \/ /\ MayGoOn(s) /\ h[s].file <= Files
        /\ \E n \in FreeNames(NameOf[h[s].page][h[s].file]) :
             /\ Register(s, "upload", n)
             /\ h' = [h EXCEPT ![s].st = "create", ![s].dest = n]
        /\ UNCHANGED <<page, reported>>
     \/ /\ MayGoOn(s) /\ (h[s].file > Files \/ h[s].gone)
        /\ UnregisterAndEnd(s)
        /\ Answer(s, IF h[s].saved = {} THEN "failed" ELSE "done")
        /\ reported' = reported \union Report(s, h[s].saved)
     \/ Stopped(s) /\ EndOnly(s) /\ Answer(s, "failed") /\ UNCHANGED reported
  /\ UNCHANGED <<ticket, posts, calls, disk, host, spoiled, acts>>

(* Another request may have got the same free name: its file is emptied.   *)
FormCreate(s) ==
  /\ h[s].st = "create"
  /\ spoiled' = IF disk[h[s].dest].there THEN spoiled \union (UsersOf(h[s].dest) \ {h[s].page})
                ELSE spoiled
  /\ disk' = [disk EXCEPT ![h[s].dest] = [there |-> TRUE, has |-> {}]]
  /\ h' = [h EXCEPT ![s].st = "read", ![s].idx = 1, ![s].dead = FALSE]
  /\ UNCHANGED <<page, rec, ticket, posts, calls, host, reported, acts>>

FormRead(s) ==
  /\ h[s].st = "read" /\ MayGoOn(s)
  /\ IF h[s].idx <= Chunks
     THEN Written(s) /\ h' = [h EXCEPT ![s].idx = @ + 1]
     ELSE /\ h' = [h EXCEPT ![s].st = "part", ![s].file = @ + 1,
                           ![s].saved = @ \union {<<h[s].file, h[s].dest>>}]
          /\ UNCHANGED disk
  /\ UNCHANGED <<page, rec, ticket, posts, calls, host, reported, spoiled, acts>>

(* A part cut short, or canceled, takes its file away with it.             *)
FormAborts(s) ==
  /\ h[s].st = "read" /\ Stopped(s)
  /\ disk' = [disk EXCEPT ![h[s].dest] = NoFile]
  /\ rec' = NoRecord
  /\ h' = Unlinked(Woken([h EXCEPT ![s] = Nobody]), h[s].dest)
  /\ spoiled' = spoiled \union (UsersOf(h[s].dest) \ {h[s].page})
  /\ Answer(s, "failed")
  /\ UNCHANGED <<ticket, posts, calls, host, reported, acts>>

(* A disk that is full: a chunk's request is refused; a form's file that   *)
(* cannot be made is passed over, and a write of it that fails is not      *)
(* looked at.                                                              *)
ChunkFails(s) ==
  /\ h[s].st \in {"open", "copy"}
  /\ EndOnly(s) /\ Answer(s, "failed")
  /\ UNCHANGED spoiled

FormNotMade(s) ==
  /\ h[s].st = "create"
  /\ h' = [h EXCEPT ![s].st = "part", ![s].file = @ + 1]
  /\ UNCHANGED <<page, rec, spoiled>>

FormNotWritten(s) ==
  /\ h[s].st = "read" /\ MayGoOn(s) /\ h[s].idx <= Chunks
  /\ h' = [h EXCEPT ![s].idx = @ + 1]
  /\ spoiled' = spoiled \union {h[s].page}
  /\ UNCHANGED <<page, rec>>

DiskIsFull(s) ==
  /\ "full" \in HostActs /\ Act
  /\ ChunkFails(s) \/ FormNotMade(s) \/ FormNotWritten(s)
  /\ UNCHANGED <<ticket, posts, calls, disk, host, reported>>

-----------------------------------------------------------------------------
(* download: from where the page is; each write looks at the pause.        *)

DownAdmit(s) ==
  /\ h[s].st = "admit" /\ h[s].kind = "down"
  /\ IF host.shared
     THEN /\ Register(s, "download", None)
          /\ h' = [h EXCEPT ![s].st = "write"]
          /\ UNCHANGED page
     ELSE EndOnly(s) /\ Answer(s, "failed")
  /\ UNCHANGED <<ticket, posts, calls, disk, host, reported, spoiled, acts>>

DownWrite(s) ==
  LET p == h[s].page
  IN /\ h[s].st = "write" /\ MayGoOn(s) /\ h[s].idx <= Chunks
     /\ h' = [h EXCEPT ![s].idx = @ + 1]
     /\ page' = IF Waits(p, s) THEN [page EXCEPT ![p].idx = @ + 1] ELSE page
     /\ UNCHANGED <<rec, ticket, posts, calls, disk, host, reported, spoiled, acts>>

DownEnds(s) ==
  /\ h[s].st = "write"
  /\ \/ ~h[s].wait /\ h[s].idx > Chunks /\ Answer(s, "done")
     \/ Stopped(s) /\ Answer(s, "failed")
  /\ UnregisterAndEnd(s)
  /\ UNCHANGED <<ticket, posts, calls, disk, host, reported, spoiled, acts>>

-----------------------------------------------------------------------------
Serve(s) ==
  \/ WaitOnPause(s)
  \/ ChunkAdmit(s) \/ ChunkRegister(s) \/ ChunkCheck(s)
  \/ ChunkOpen(s) \/ ChunkCopy(s) \/ ChunkEnd(s)
  \/ FormAdmit(s) \/ FormPart(s) \/ FormCreate(s) \/ FormRead(s) \/ FormAborts(s)
  \/ DownAdmit(s) \/ DownWrite(s) \/ DownEnds(s)

Script(p) ==
  \/ \E s \in Slots : UploadNextChunk(p, s) \/ UploadForm(p, s) \/ StartOrResumeDownload(p, s)
  \/ UploadDone(p)

Users ==
  \/ \E p \in Senders : RequestUpload(p) \/ HostAccepts(p) \/ HostRejects(p)
  \/ \E p \in Pages : DownloadWithProgress(p) \/ TogglePause(p) \/ ToggleResume(p)
                      \/ StopTransfer(p) \/ Leave(p)
  \/ HostPauses \/ HostCancels \/ HostSets("auto") \/ HostSets("shared")

ShareNext ==
  \/ \E s \in Slots : Serve(s)
  \/ \E p \in Pages : Script(p)
  \/ \E p \in Senders : Decided(p) \/ AskTimesOut(p) \/ TicketExpires(p)
  \/ \E p \in Pages, what \in {"pause", "resume", "cancel"} : Arrives(p, what)
  \/ \E c \in calls : CancelsContext(c) \/ RemovesFile(c)
  \/ \E s \in Slots : DiskIsFull(s)
  \/ HostResumes
  \/ Users

ShareSpec == ShareInit /\ [][ShareNext]_shareVars

(* Goroutines and scripts go on; a message sent arrives; somebody resumes  *)
(* what waits, since a pause has no end of its own.                        *)
ShareFairness ==
  /\ \A s \in Slots : WF_shareVars(Serve(s))
  /\ \A p \in Pages : WF_shareVars(Script(p))
  /\ \A p \in Pages, what \in {"pause", "resume", "cancel"} : WF_shareVars(Arrives(p, what))
  /\ WF_shareVars(HostResumes)

FairShareSpec == ShareSpec /\ ShareFairness

-----------------------------------------------------------------------------
(* A file the host is told is complete (web_share_complete) has every      *)
(* chunk, whatever was aborted, sent again, paused or served late, unless  *)
(* a cancel removed a file of that upload while its page went on, its      *)
(* first chunk was sent twice (the late one of the two empties the file),  *)
(* another form made or removed a file of the same free name, two files    *)
(* came with the same name, or a write of a form failed, the error of      *)
(* which the code does not look at (share.go:754).                         *)
SameNames ==
  {p \in Senders : \E q \in Senders, i \in 1..Files, j \in 1..Files :
                     <<q, j>> # <<p, i>> /\ NameOf[q][j] = NameOf[p][i]}

WholeWhenTold == \A t \in reported : t.whole \/ t.page \in spoiled \union SameNames

(* A request that waits in CheckWebSharePause can be released: the record  *)
(* is there for resume to act on, whoever registered since.                *)
WaiterCanBeResumed == (\E s \in Slots : h[s].wait) => rec.dir # None

(* Every request ends: none waits for ever on a pause that was lifted by   *)
(* another transfer, by a resume or a cancel, or whose client has left.    *)
RequestsEnd == \A s \in Slots : []<>(h[s].st = "none")
=============================================================================
