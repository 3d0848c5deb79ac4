---------------------------- MODULE ShareAccess ----------------------------
(***************************************************************************)
(* The way into the web share: the checks of verifyWebShareAccess, the     *)
(* failures counted per address, the lockouts and the rotation of the      *)
(* codes (pkg/api/share.go, server.go), and the portal page: what it       *)
(* stores, what it shows, what it asks for and when it asks again.  The    *)
(* portal compares the code of its URL by itself: nothing there locks,     *)
(* counts or rotates.                                                      *)
(*                                                                         *)
(* A code is the number of the rotation that drew it, 0 where there is     *)
(* none; the PIN and the token are drawn together.  A guesser's PIN is     *)
(* wrong, or one the portal told it; a user types the PIN the host shows.  *)
(* Every actor has an address of its own.                                  *)
(***************************************************************************)
EXTENDS Naturals, FiniteSets

CONSTANTS
  Pages,     \* portal pages, each with its user
  Guessers,  \* addresses that try PINs
  Overlap,   \* [actor -> how many requests it may have under way]
  LockAt,    \* failures that lock an address (5)
  PanicAt,   \* failures that rotate the codes (10)
  MaxGen,    \* bound: codes drawn, while anybody still guesses or the host asks
  MaxActs,   \* bound: switches of the host, quarters of an hour
  MaxClicks  \* bound: uploads, pauses and cancels of a page's user

ASSUME ThresholdsAssumption == LockAt \in Nat /\ PanicAt \in Nat /\ 1 < LockAt /\ LockAt < PanicAt
ASSUME ActorsAssumption == Pages \intersect Guessers = {} /\ Overlap \in [Pages \union Guessers -> Nat \ {0}]

Actors == Pages \union Guessers
ReqsOf(a) == {a} \X (1..Overlap[a])
Reqs == UNION {ReqsOf(a) : a \in Actors}

VARIABLES
  enabled,  \* webShareEnabled
  gen,      \* webSharePIN and webShareToken
  rec,      \* ipLockouts: per address FailCount, LockedUntil to come, LastFail long ago
  req,      \* the requests under way
  page,     \* the script's variables, its stored credentials, the cards it shows
  known,    \* per guesser, the PIN of the last cookie the portal set
  judged,   \* per guesser, wrong PINs judged against gen since its record was new
  clicks,   \* per page, uploads, pauses, resumes and cancels of its user
  acts      \* how many of MaxActs were done

vars == <<enabled, gen, rec, req, page, known, judged, clicks, acts>>

NoRecord == [fails |-> 0, locked |-> FALSE, old |-> FALSE]
NoReq == [st |-> "none", kind |-> "none", pin |-> 0, token |-> 0]

(* dl is isDownloading and dlPaused, up is isUploading and ulPaused.       *)
NewPage(pin, token) ==
  [pin |-> pin, token |-> token, auth |-> FALSE, poll |-> FALSE, timer |-> FALSE,
   dl |-> "no", up |-> "no", cards |-> {}]

Init ==
  /\ enabled = TRUE
  /\ gen = 1
  /\ rec = [a \in Actors |-> NoRecord]
  /\ req = [r \in Reqs |-> NoReq]
  /\ page = [p \in Pages |-> [NewPage(0, 0) EXCEPT !.cards = {"closed"}]]
  /\ known = [a \in Guessers |-> 0]
  /\ judged = [a \in Guessers |-> 0]
  /\ clicks = [p \in Pages |-> 0]
  /\ acts = 0

Act == acts < MaxActs /\ acts' = acts + 1
Of(r) == r[1]

(* The slots of an actor are alike: it takes the first one that is free    *)
(* and not one of those it takes at the same time.                         *)
Free(r, taken) ==
  /\ r \notin taken /\ req[r].st = "none"
  /\ \A q \in Reqs : Of(q) = Of(r) /\ q[2] < r[2] /\ q \notin taken => req[q].st # "none"

UnderWay(p, kinds) == \E r \in Reqs : Of(r) = p /\ req[r].kind \in kinds

-----------------------------------------------------------------------------
(* The server.  What a guesser is answered changes nothing here: its       *)
(* request is over.                                                        *)

ServerUnchanged == UNCHANGED <<enabled, gen, rec, known, judged>>
To(r, st) ==
  req' = IF Of(r) \in Guessers /\ st \in {"200", "401", "403", "429"}
         THEN [req EXCEPT ![r] = NoReq] ELSE [req EXCEPT ![r].st = st]

Arrive(r) ==
  /\ req[r].st = "sent"
  /\ To(r, IF ~enabled THEN "403" ELSE IF rec[Of(r)].locked THEN "429" ELSE "judge")
  /\ ServerUnchanged
  /\ UNCHANGED <<page, clicks, acts>>

(* checkAuth: the token first; a wrong token alone is no attempt.          *)
Valid(r) == enabled /\ gen \in {req[r].token, req[r].pin}
Attempted(r) == enabled /\ req[r].pin # 0

Judge(r) ==
  /\ req[r].st = "judge"
  /\ To(r, IF Valid(r) THEN "good" ELSE IF Attempted(r) THEN "tarpit" ELSE "401")
  /\ UNCHANGED <<enabled, gen, rec, page, known, judged, clicks, acts>>

RecordAuthSuccess(r) ==
  /\ req[r].st = "good"
  /\ rec' = [rec EXCEPT ![Of(r)] = NoRecord]
  /\ judged' = [a \in Guessers |-> IF a = Of(r) THEN 0 ELSE judged[a]]
  /\ To(r, "200")
  /\ UNCHANGED <<enabled, gen, page, known, clicks, acts>>

FailsNow(a) == IF rec[a].old THEN 1 ELSE rec[a].fails + 1

\* Mutant: the failures lock an address out and never rotate the codes.
RecordWithoutPanic(r) ==
  /\ req[r].st = "tarpit"
  /\ rec' = [rec EXCEPT ![Of(r)] = [fails |-> FailsNow(Of(r)), old |-> FALSE,
                                    locked |-> @.locked \/ FailsNow(Of(r)) >= LockAt]]
  /\ To(r, IF FailsNow(Of(r)) >= LockAt THEN "429" ELSE "401")
  /\ UNCHANGED <<enabled, gen, page, known, judged, clicks, acts>>

(* After the tarpit; the count is kept when the codes rotate, so that      *)
(* every later failure rotates them again.                                 *)
RecordAuthFailure(r) ==
  /\ req[r].st = "tarpit"
  /\ rec' = [rec EXCEPT ![Of(r)] = [fails |-> FailsNow(Of(r)), old |-> FALSE,
                                    locked |-> @.locked \/ FailsNow(Of(r)) >= LockAt]]
  /\ To(r, IF FailsNow(Of(r)) >= PanicAt THEN "rotate"
           ELSE IF FailsNow(Of(r)) >= LockAt THEN "429" ELSE "401")
  /\ UNCHANGED <<enabled, gen, page, known, judged, clicks, acts>>

RegeneratePIN ==
  /\ gen' = gen + 1
  /\ judged' = [a \in Guessers |-> 0]

Rotate(r) ==
  /\ req[r].st = "rotate"
  /\ RegeneratePIN
  /\ To(r, "429")
  /\ UNCHANGED <<enabled, rec, page, known, clicks, acts>>

LockExpires(a) ==
  /\ rec[a].locked
  /\ rec' = [rec EXCEPT ![a].locked = FALSE]
  /\ UNCHANGED <<enabled, gen, req, page, known, judged, clicks, acts>>

(* A quarter of an hour without a failure of this address: no request of   *)
(* before is still under way.                                              *)
QuarterHour(a) ==
  /\ Act
  /\ rec[a].fails > 0 /\ ~rec[a].locked /\ ~rec[a].old
  /\ \A r \in Reqs : Of(r) = a => req[r].st = "none"
  /\ rec' = [rec EXCEPT ![a].old = TRUE]
  /\ judged' = [b \in Guessers |-> IF b = a THEN 0 ELSE judged[b]]
  /\ UNCHANGED <<enabled, gen, req, page, known, clicks>>

HostRegenerates ==
  /\ gen < MaxGen
  /\ RegeneratePIN
  /\ UNCHANGED <<enabled, rec, req, page, known, clicks, acts>>

HostToggles ==
  /\ Act
  /\ enabled' = ~enabled
  /\ UNCHANGED <<gen, rec, req, page, known, judged, clicks>>

(* handleSharePortal, at whichever address: a PIN of the URL that is equal *)
(* to the one in force comes back as a cookie.                             *)
PortalTells(a) ==
  /\ enabled /\ known[a] # gen
  /\ known' = [known EXCEPT ![a] = gen]
  /\ UNCHANGED <<enabled, gen, rec, req, page, judged, clicks, acts>>

(* A guess, or the PIN the portal told, is admitted and judged in one      *)
(* step: only the locks of the record and of the codes are between them.   *)
Guess(r) ==
  LET a == Of(r)
  IN /\ a \in Guessers /\ Free(r, {})
     /\ gen < MaxGen /\ enabled /\ ~rec[a].locked
     /\ \/ /\ req' = [req EXCEPT ![r].st = "tarpit"]
           /\ judged' = [judged EXCEPT ![a] = @ + 1]
        \/ /\ known[a] = gen
           /\ req' = [req EXCEPT ![r].st = "good"]
           /\ UNCHANGED judged
     /\ UNCHANGED <<enabled, gen, rec, page, known, clicks, acts>>

-----------------------------------------------------------------------------
(* The page.                                                               *)

(* Whatever it asks for carries the codes it has stored, if any.           *)
Carrying(kind, pg) == [NoReq EXCEPT !.st = "sent", !.kind = kind, !.pin = pg.pin, !.token = pg.token]
Send(r, kind, pg) == Free(r, {}) /\ req' = [req EXCEPT ![r] = Carrying(kind, pg)]

(* loadSharedFiles, with the page as it is when it is called.              *)
NoCode(pg) == pg.pin = 0 /\ pg.token = 0
LoadSharedFiles(r, pg) ==
  LET p == Of(r)
  IN IF pg.dl # "no" \/ pg.timer THEN page' = [page EXCEPT ![p] = pg] /\ UNCHANGED req
     ELSE IF ~pg.auth /\ NoCode(pg)
     THEN page' = [page EXCEPT ![p] = [pg EXCEPT !.cards = {"pin"}]] /\ UNCHANGED req
     ELSE page' = [page EXCEPT ![p] = pg] /\ Send(r, "list", pg)

Loads(r, pin, token) ==
  /\ enabled
  /\ \A q \in Reqs : Of(q) = Of(r) => req[q].st = "none"
  /\ LoadSharedFiles(r, NewPage(pin, token))

(* The page is opened: with the token or the PIN in force in its URL, as   *)
(* the QR and the links of the host have them, or without.                 *)
Open(r) ==
  /\ Of(r) \in Pages /\ page[Of(r)].cards = {"closed"}
  /\ \E pin, token \in {0, gen} : (pin = 0 \/ token = 0) /\ Loads(r, pin, token)
  /\ ServerUnchanged
  /\ UNCHANGED <<clicks, acts>>

Poll(r) ==
  /\ Of(r) \in Pages
  /\ LET pg == page[Of(r)]
     IN /\ pg.poll /\ pg.auth /\ pg.dl = "no" /\ ~pg.timer
        /\ Send(r, "list", pg)
  /\ UNCHANGED page
  /\ ServerUnchanged
  /\ UNCHANGED <<clicks, acts>>

(* The user types what the host's screen shows, and waits for the answer.  *)
SubmitPIN(r) ==
  /\ Of(r) \in Pages /\ "pin" \in page[Of(r)].cards
  /\ enabled
  /\ ~UnderWay(Of(r), {"list"})
  /\ page[Of(r)].timer => page[Of(r)].pin # gen
  /\ LoadSharedFiles(r, [page[Of(r)] EXCEPT !.pin = gen])
  /\ ServerUnchanged
  /\ UNCHANGED <<clicks, acts>>

(* Neither the files of a session nor a way back into one.                 *)
Stuck(p) ==
  /\ page[p].cards \intersect {"closed", "pin", "lock"} = {} /\ ~page[p].auth
  /\ ~UnderWay(p, {"list"})

(* The file list offers a download, and the question before an upload.  A  *)
(* user who is asked for the code, or whose page no longer works, does not *)
(* go on.                                                                  *)
Offered(p) == p \in Pages /\ page[p].cards = {"files"} /\ ~Stuck(p)

Download(r) ==
  LET p == Of(r)
  IN /\ Offered(p) /\ page[p].dl = "no"
     /\ Send(r, "download", page[p])
     /\ page' = [page EXCEPT ![p].dl = "on"]
     /\ ServerUnchanged
     /\ UNCHANGED <<clicks, acts>>

Click(p) == clicks' = [clicks EXCEPT ![p] = @ + 1]

UploadFiles(r) ==
  LET p == Of(r)
  IN /\ Offered(p) /\ page[p].up = "no" /\ ~UnderWay(p, {"ask"})
     /\ clicks[p] < MaxClicks /\ Click(p)
     /\ Send(r, "ask", page[p])
     /\ page' = [page EXCEPT ![p].up = "asks"]
     /\ ServerUnchanged
     /\ UNCHANGED acts

(* Chunk after chunk, by itself.                                           *)
UploadNextChunk(r) ==
  LET p == Of(r)
  IN /\ p \in Pages /\ page[p].up = "on" /\ ~UnderWay(p, {"chunk"})
     /\ Send(r, "chunk", page[p])
     /\ UNCHANGED page
     /\ ServerUnchanged
     /\ UNCHANGED <<clicks, acts>>

(* After the last chunk, or where the host refused the files.              *)
UploadEnds(p) ==
  /\ page[p].up = "on" /\ ~UnderWay(p, {"chunk"})
  /\ page' = [page EXCEPT ![p].up = "no"]
  /\ ServerUnchanged
  /\ UNCHANGED <<req, clicks, acts>>

(* The two transfers of a page.  Nobody reads what becomes of a request    *)
(* that is aborted, or that only tells the host of a click; the server     *)
(* goes on with it.                                                        *)
KindOf(w) == IF w = "dl" THEN "download" ELSE "chunk"
At(pg, w) == IF w = "dl" THEN pg.dl ELSE pg.up
Put(pg, w, at) == IF w = "dl" THEN [pg EXCEPT !.dl = at] ELSE [pg EXCEPT !.up = at]
Aborted(p, w) ==
  [q \in Reqs |-> IF Of(q) = p /\ req[q].kind = KindOf(w) THEN [req[q] EXCEPT !.kind = "unread"] ELSE req[q]]

Stop(r, w, at) ==
  LET p == Of(r)
  IN /\ clicks[p] < MaxClicks /\ Click(p)
     /\ Free(r, {}) /\ req' = [Aborted(p, w) EXCEPT ![r] = Carrying("unread", page[p])]
     /\ page' = [page EXCEPT ![p] = Put(@, w, at)]
     /\ ServerUnchanged
     /\ UNCHANGED acts

Pause(r, w) == Of(r) \in Pages /\ At(page[Of(r)], w) = "on" /\ Stop(r, w, "paused")
Cancel(r, w) == Of(r) \in Pages /\ At(page[Of(r)], w) # "no" /\ Stop(r, w, "no")

(* The host is told, and the request that was aborted is made again.       *)
Resume(r, q, w) ==
  LET p == Of(r)
  IN /\ p \in Pages /\ Of(q) = p /\ At(page[p], w) = "paused"
     /\ Click(p)
     /\ Free(r, {}) /\ Free(q, {r})
     /\ req' = [req EXCEPT ![r] = Carrying("unread", page[p]), ![q] = Carrying(KindOf(w), page[p])]
     /\ page' = [page EXCEPT ![p] = Put(@, w, "on")]
     /\ ServerUnchanged
     /\ UNCHANGED acts

LockoutEnds(p) ==
  /\ page[p].timer
  /\ page' = [page EXCEPT ![p].timer = FALSE, ![p].cards = (@ \ {"lock"}) \union {"pin"}]
  /\ ServerUnchanged
  /\ UNCHANGED <<req, clicks, acts>>

(* A page that offers nothing is loaded again; the stored codes outlive it. *)
Reloads(r) ==
  LET p == Of(r)
  IN /\ p \in Pages /\ Stuck(p)
     /\ Loads(r, page[p].pin, page[p].token)
     /\ ServerUnchanged
     /\ UNCHANGED <<clicks, acts>>

ShowLockout(pg) == [NewPage(0, 0) EXCEPT !.timer = TRUE, !.dl = pg.dl, !.up = pg.up, !.cards = {"lock"}]
\* Mutant: the page goes on with the codes it had.
ShakeKeepsCode(pg) == [pg EXCEPT !.auth = FALSE]
Shake(pg) == [pg EXCEPT !.poll = FALSE, !.auth = FALSE, !.pin = 0, !.token = 0]

\* Mutant: no card is shown to type the PIN.
AskSilently(pg, r) == [pg EXCEPT !.auth = FALSE, !.poll = FALSE]
AskPIN(pg, r) ==
  LET asks == [pg EXCEPT !.auth = FALSE, !.poll = FALSE, !.cards = {"pin"}]
  IN IF req[r].pin # 0 \/ req[r].token # 0 THEN Shake(asks) ELSE asks

ShowFiles(pg) == [pg EXCEPT !.auth = TRUE, !.poll = TRUE, !.cards = {"files"}]

(* What becomes of the transfer that asked: a download is over, or has     *)
(* failed; an upload goes on while its chunks are taken.                   *)
Ending(pg, r) ==
  CASE req[r].kind = "download" -> [pg EXCEPT !.dl = "no"]
    [] req[r].kind = "chunk" /\ req[r].st # "200" -> [pg EXCEPT !.up = "no"]
    [] req[r].kind = "ask" /\ pg.up = "asks" -> [pg EXCEPT !.up = IF req[r].st = "200" THEN "on" ELSE "no"]
    [] OTHER -> pg

(* What the page makes of each answer.                                     *)
OnAnswer(pg, r) ==
  LET then == Ending(pg, r)
  IN CASE req[r].kind \in {"chunk", "unread"} -> then
       [] req[r].kind \in {"list", "download", "ask"} /\ req[r].st = "429" -> ShowLockout(then)
       [] req[r].kind = "list" /\ req[r].st = "401" -> AskPIN(pg, r)
       [] req[r].kind \in {"download", "ask"} /\ req[r].st = "401" -> Shake(then)
       [] req[r].kind = "list" /\ req[r].st = "200" -> ShowFiles(pg)
       [] OTHER -> then

Answered(r) == req[r].st \in {"200", "401", "403", "429"}

Answer(r) ==
  /\ Answered(r)
  /\ req' = [req EXCEPT ![r] = NoReq]
  /\ page' = IF Of(r) \in Pages
             THEN [page EXCEPT ![Of(r)] = OnAnswer(@, r)] ELSE page
  /\ ServerUnchanged
  /\ UNCHANGED <<clicks, acts>>

-----------------------------------------------------------------------------
Serve(r) ==
  \/ Arrive(r) \/ Judge(r) \/ RecordAuthSuccess(r) \/ RecordAuthFailure(r) \/ Rotate(r)
  \/ Answer(r)

Next ==
  \/ \E r \in Reqs :
       \/ Serve(r)
       \/ Guess(r)
       \/ Open(r) \/ Poll(r) \/ SubmitPIN(r) \/ Reloads(r)
       \/ Download(r) \/ UploadFiles(r) \/ UploadNextChunk(r)
       \/ \E w \in {"dl", "up"} : Pause(r, w) \/ Cancel(r, w) \/ \E q \in Reqs : Resume(r, q, w)
  \/ \E p \in Pages : LockoutEnds(p) \/ UploadEnds(p)
  \/ \E a \in Guessers : PortalTells(a)
  \/ \E a \in Actors : LockExpires(a)
  \/ \E a \in Guessers : QuarterHour(a)
  \/ HostRegenerates \/ HostToggles

Spec == Init /\ [][Next]_vars

(* Requests are served, times pass, the page polls; the user opens it,     *)
(* types when he is asked to, resumes what he paused, and reloads a page   *)
(* that offers nothing.  A file has a last chunk.                          *)
Fairness ==
  \A p \in Pages :
    /\ \A r \in ReqsOf(p) : WF_vars(Serve(r))
    /\ WF_vars(LockExpires(p))
    /\ WF_vars(LockoutEnds(p))
    /\ SF_vars(UploadEnds(p))
    /\ WF_vars(\E r \in ReqsOf(p) : Open(r))
    /\ WF_vars(\E r \in ReqsOf(p) : Poll(r))
    /\ WF_vars(\E r \in ReqsOf(p) : SubmitPIN(r))
    /\ WF_vars(\E r \in ReqsOf(p) : Reloads(r))
    /\ WF_vars(\E r, q \in ReqsOf(p), w \in {"dl", "up"} : Resume(r, q, w))

FairSpec == Spec /\ Fairness

-----------------------------------------------------------------------------
(* The tarpit comes before the count and the rotation after it, in steps   *)
(* that other requests interleave: verifyWebShareAccess still judges no    *)
(* more wrong PINs of an address against the codes in force than those     *)
(* that rotate them and the other requests it had under way.  It says      *)
(* nothing of what the portal judges (checkAuth, RecordAuthFailure).       *)
ApiGuessesBounded == \A a \in Guessers : judged[a] <= PanicAt + Overlap[a] - 1

(* The failures counted against a page whose user types only what the host *)
(* shows come from rotations and from his own clicks: for each rotation no *)
(* more than the page had under way, for each upload, pause, resume and    *)
(* cancel two, whose answers it does not read or which clear nothing.      *)
(* Polls, countdowns and chunk after chunk add none of their own           *)
(* (triggerPinShake, clearCredentials, startPolling, uploadNextChunk).     *)
UserFailsByRotation ==
  \A p \in Pages : rec[p].fails <= Overlap[p] * (gen - 1) + 2 * clicks[p]

(* While the share stays on, a page that is opened, used and answered when *)
(* it asks is let in, again after every rotation and lockout.              *)
RightCodeOpens == \A p \in Pages : <>[]enabled => []<>page[p].auth
=============================================================================
