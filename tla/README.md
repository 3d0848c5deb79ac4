# medXfer: models and proofs

TLA+ modules, TLC configurations and machine-checked proofs about medXfer, the
device-to-device file transfer of this repository (the Go engine and daemon under
`src/pkg`, driven by the application under `src/app`). Every definition is a
translation of the Go source; `PROJECT.json` maps it to its lines.

Contents: 1 the system · 2 what is modelled · 3 the runs · 4 the proofs · 5 what
was found · 6 what is left, and the plan.

## 1. The system

A device runs one daemon (`pkg/api`). Two daemons pair (a PIN, a QR code, BLE or
mutual trust), keep one session (a secured TCP connection carrying JSON control
messages), offer transfers over it, and move the data over connections of their
own, which the receiver opens to the sender's single port and asks for chunks on.
The receiver stores each file as `NAME.part` and a journal `NAME.part.state`, to
resume after any stop, and gives `NAME` once the digest of the file matched.

| Component | State it keeps | Operations | Talks to |
|---|---|---|---|
| store (`pkg/store`) | `File`: chunks had and not yet durable, two handles, the background commit; on disk three names | Resolve, Open, WriteChunk, Commit, Close, Suspend, Discard, Finalize, Batch | called by the receiver's workers, at once; the disk |
| receiver (`transfer/receiver.go`) | `run`: items and their generations, chunks to ask again, workers' connections, batch | Run, Pause, Resume, PauseItem, SkipItem, cancel | store; the sender by chunk requests and DONE; events to the daemon |
| sender (`transfer/sender.go`) | open source files with reference counts, hashes of what was served and of what is hashed ahead, connections, DONE | Serve | the receiver; the port's Listener; events to the daemon |
| device port (`transfer/hub.go`, `securechan/gate.go`) | transfers that may be joined; places and quotas of unauthenticated connections | register, route, close, admit, release | sender, pairing |
| transfers of a daemon (`api/transfers.go`, with `server.go`, `handler.go`) | active transfer and its cancel, offers made and pending, last transfers completed, pause | offer, accept, reject, cancel, pause, disconnect, the peer's messages, check after a reconnection | the other daemon by the session; sender and receiver; the application by events |
| session life (`pkg/session`, `api/server.go`, `redial.go`, `heartbeat.go`) | the active session, the grace timer, where to dial again | start, replace, lose, dial again, leave, stop | the other daemon |
| PIN pairing (`pairing/pin.go`, `ondemand.go`, `api/pin.go`) | per PIN: code, attempts reserved and failed, series, delay; the PIN on demand | show, begin, end, close, expire, draw again | connections that type it; the screen by events |
| one-shot pairing (`pairing/serve.go`, `exchange.go`, `xfer send`) | a round's codes, the claim, the receiver's transfer | Serve, claim, register, accept | the port; receivers by secret, PIN or mutual trust |
| pairing over BLE (`pairing/ble.go`, `api/ble.go`) | per connection an exchange, the request on screen, keys let in | a message, an answer, the end of a connection, `pair_ble` | the platform's GATT, PINs, sessions |
| trust (`pkg/identity`, `pairing/mutual.go`, `api/trust.go`) | the list of trusted keys on disk; both sides' offer and answer | offer, answer, commit, forget, touch, save | sessions, pairing |
| web share (`api/share.go`, `server.go`) | one record of a web transfer, tickets of uploads, lockouts, codes; the page's own script | judge a request, upload, download, pause, resume, cancel | browsers by HTTP; the host's user |
| `xfer node` (`cmd/xfer/main.go`) | one session, question and offer on a terminal; running transfers | pair, send, answer, stop, disconnect, exit | another node; port, sender, receiver |
| core (`pkg/core`, `internal/cabi`) | a bounded queue of events, handles | send, poll, close | daemon, application |
| discovery, formats, engine helpers, measures, other commands, application, platform code | see `PROJECT.json` | | |

**What is hard here**, in a sentence per component (`PROJECT.json` lists each hazard
with its line):

* *store*: a kill or a power loss between any two system calls, with a group commit
  in the background while workers write; a journal must never note a chunk the disk
  does not hold.
* *receiver*: four kinds of goroutine handle one item (reader, writer, batch timer,
  the user's call) while its connection, its chunks or the whole disk fail; every
  chunk must be handled, and `Run` must end.
* *sender*: two goroutines per connection with bounded channels between them, one that
  hashes ahead, and files closed for one another while they may be read; a digest must
  be of the content offered although the file changes.
* *transfers*: two state machines that see the same end by three ways (DONE on a data
  connection, `complete` on the session, the answer to a check on the next session),
  in any order, any of them lost.
* *sessions*: four goroutines and a timer per session meet under one mutex; each may
  arrive after the session it is about was replaced.
* *PIN*: several connections test one code while it expires, is refused or is drawn
  again; a guess too many or a failure counted for the next code defeats the limit.
* *one-shot*: several devices prove a code at once as it expires; one may be paired.
* *BLE*: the platform calls the core from several threads at once, by the name of a
  connection that may have been replaced, under two locks.
* *trust*: a negotiation in a session that another one replaces, a message lost, and a
  read-modify-write of the list against the user's forgetting.
* *web share*: every request is a goroutine, one record stands for all of them, and a
  page's script polls, retries and gives up on its own; a rotation of the codes makes
  honest requests wrong.
* *node*: two users act at once, and six places close, forget or hand over one offer.

## 2. What is modelled

| Module | Of | EXTENDS / uses |
|---|---|---|
| `PartFile` | one received file: the store's `File` on a disk that loses power | |
| `ResumableFile` | what the store promises of it (abstract) | implemented by `PartFile` (`KeepsItsPromise`) |
| `PartFileInv` | the inductive invariants `IInv` and `KeptOK` | `PartFile` |
| `ReceiverRun` | one `Receiver.Run` | |
| `ReceiverRunProofs` | the invariant and the theorems | `ReceiverRun`, FiniteSetTheorems, SequenceTheorems, TLAPS |
| `Sender` | one `Sender.Serve` on its `Listener` | |
| `FileProofs` | the files at both ends: the sender's invariant, the part file's proof, and the theorems | `PartFileInv`, `Sender`, FiniteSetTheorems, SequenceTheorems, TLAPS |
| `Transfers` | two daemons, their transfers and sessions | |
| `TransfersProofs` | the invariant and the theorems | `Transfers`, SequenceTheorems, TLAPS |
| `Sessions` | the sessions of one daemon | |
| `SessionsProofs` | the invariant and the theorems | `Sessions`, SequenceTheorems, TLAPS |
| `Pins` | `PIN`, `PINOnDemand` and the daemon's calls on them | |
| `OneShot` | `xfer send` until paired, the control port's `Gate` and `Listener`, the receivers | |
| `BLEPairing` | a device that answers over BLE, and those that touch it | |
| `PairingProofs` | the invariants of both ways to pair, and the theorems | `Pins`, `BLEPairing`, FiniteSetTheorems, SequenceTheorems, WellFoundedInduction, TLAPS |
| `Trust` | the lists and talks of the devices | |
| `ShareAccess` | the way into the web share, and the page's script about it | |
| `AccessProofs` | who is let in: the invariants of both, and the theorems | `ShareAccess`, `Trust`, FiniteSetTheorems, SequenceTheorems, TLAPS |
| `WebShare` | the transfers of the web share, and the page's script about them | |
| `OneShotShareProofs` | the invariants of a file given once, by either way, and the theorems | `OneShot`, `WebShare`, FiniteSetTheorems, SequenceTheorems, TLAPS |
| `Node` | two or more `xfer node` | |
| `NodeProofs` | the invariant and the theorems | `Node`, SequenceTheorems, TLAPS |
| `MCPartFile`, `MCReceiverRun`, `MCSender`, `MCTransfers`, `MCOneShot`, `MCBLEPairing`, `MCShareAccess`, `MCWebShare` | values, kinds of run and symmetry for TLC | their module |

How they fit together: `ReceiverRun` relies on a file as `PartFile` gives it, asks
chunks as `Sender` answers them, and `Transfers` starts and ends both; `Transfers`
lives in sessions that `Sessions` opens and loses, and in `Sessions` the talk is
`Trust`'s. Codes come from `Pins` to `OneShot`, `BLEPairing` and the daemon. `Node` is
a second program on the same engine. Each module takes its neighbours as an
environment at least as free as they are; the places where it narrows them are named
below.

**A plan.** `ReceiverRun`, `Sender` and `Transfers` have a constant `Plans`: a set of
records that say which files, faults and users' acts one behaviour may have. Init picks
one, and the variable `plan` keeps it. One run so covers several kinds of run whose
product would be too large, and an action's guard reads the plan where it would have
read a constant.

### PartFile

The disk keeps, per file, the blocks read back, the blocks not written back yet and
the durable ones; the names change in order (`ns`) and `crash` is the set of states
a power loss may leave them in, cut down to the current one by a sync. The owner
(`pc`, `op`) is the call that opens, closes or names the file; each system call of it
is an action, and `Faults` says which may fail. Writers are per chunk (`stage`); the
group commit has `commitMu` (`holder`) and the steps of `File.commit` (`cstep`), in
the foreground or in the background (`bg`). `Kill` keeps the page cache, `PowerLoss`
does not. The journal's records are a set: their order and the torn tail are
abstracted to "any part of what was not synced". A data file has `Chunks`, a journal
the `Header` and one record per chunk. Left out: `NoSync`, Windows' missing folder
sync, `checkFolders`, the candidate names one after another (Resolve answers
"elsewhere"). `MCPartFile` runs two kinds of file, told apart by its variable `small`:
the configuration's, and a second INSTANCE that is small, batched and replaces what has
its name. `ResumableFile` is what the store promises of a file; `Promise` is the map
from the one to the other. The user who deletes a `.part` breaks that promise, not the
store: `KeepsItsPromise` names that step apart.

### ReceiverRun

Per item: its state, its generation's counts, the digest's state, its file and what
the disk has of it. Per worker: its connection, the requests in flight (at most two),
the writes handed to its writer goroutine. Each thread that calls into `run` (a reader,
a writer, the batch's timer, Run itself, the user) has its own program counter
(`Calls`), whose steps are the stretches between the places where the code lets go of
the item's lock or of the run's mutex. The connection may be lost, a chunk's hash may
be wrong, a file may be gone at the sender, the disk may be full at any write. The
store is abstracted to what `PartFile` promises of it.

### Sender

`serve` is Serve's accepting loop, `closer` the goroutine that waits for the context,
`hasher` hashAhead. A connection has the queue of its requests, the goroutine that
prepares answers (`at`) and the one that writes (`out`), and the frame buffers left
(`free`): both channels of `serveConn`. `entry` is the entry of `s.files`, `served` and
`ahead` the hashes. The receiver asks anything it has not, in any order; a source file
is overwritten or replaced at any time, its hash being then another version. The bytes
counted and the bench source are left out.

### Transfers

`dev[d]` has the fields of `DaemonServer` that concern a transfer; `cancel` names
the transfer whose context `transferCancel` ends. `xfer[i]` has the two goroutines of
transfer i: `out` follows `sendOverSession` and `serveAccepted`, `in` follows
`handleRespondOffer` and `receive`, with the context each runs in. `wire[d][n]` is what
daemon d has not read of session n; a session is cut with any prefix of what is in
flight delivered, and the old listener may still have one message in hand when a new
session starts. One action per critical section of `s.mu`, or per handler where
nothing can come in between. The items, their progress and the measures are left out.

### Sessions

One daemon; the others dial, answer, leave and refuse as they like. `sess` is the list
of connections in the order they were asked for, each with its reader goroutine
(`reader`), what the peer sent last (`inbox`) and whether `dialedFor` is still to come
(`note`). `timer` and `redial` are the grace timer and the redial goroutine of each
loss: they may have fired, or checked, before the mutex is theirs. The heartbeat is a
cut after 15 s of silence. What the user is told is left out.

### Pins

A PIN is the record of the struct's fields, with ghost counts (`drawn`, `tested`,
`pairings`). Connections (`Conns`) and the requests of the screen have the steps
between the lock's critical sections: `PicksPIN` is apart from `Begins`, and `Show`
is apart from the change it shows. The outcome of the PAKE is a choice: the two codes
are the same or not.

### OneShot

`serve` is `pairing.Serve` in its rounds, one connection's `serveOne` is the life of
`conn[c]` from the Gate to the talk of trust, `send` is `oneShotSend`'s BeforeAccept
and result, `recv` the receivers. The Gate's counts (`active`, `running`, `recent`)
change where `Admit`, `Release` and the handshake's end change them. Each deadline is
an action (`Late`, `TimesOut`, `GivesUp`, `Expired`), bounded by `MaxEvents`. What a
PIN is and what a talk says are left to `Pins` and `Trust`.

### BLEPairing

A call of the platform (a message, an answer of the user, the end of a connection) runs
in a slot of `call`, step by step between the table's lock (`tableMu`) and the
connection object's; `conns` maps the name of a connection to its object, so that a
call may hold one that was replaced. `client` is the other side's exchange, and keys
are symbolic: the two challenges and the code. Which device makes the network
(`Creator`) is the code's rule. Two times are one here: `late` says that an exchange
is past its challenge's or its PIN's life, where the code keeps the time a PIN was
shown (`shownAt`) and the time its connection took the screen (`pinSince`), an instant
apart. The user's answer reads whom it is about when it takes the connection
(`AnswerStarts`, `admits`) and gives it once the table's lock is free again (`Answer`).

### Trust

`list` is the list and its file, `talk` one side's negotiation, `hand` the message a
session's reader has taken before it looks up which session is active. touchTrust is
two steps when `"touch"` is in `Faults`. The ghosts `said` and `ever` are the users'
consent, `owed` the keys drawn whose commit was not written by the peer in its own
session, `spoilt` the entries touchTrust wrote over, `astray` the entries written on a
message of a session that had been replaced (`handleTrustMessage` takes the talk of the
session that is active when the message is handled, whoever sent it). touchTrust's
write (`Touch`) and `startSession` (`Start`) are apart too: the side that answers sends
`pair_accept` between them, so the one that dialed may be in the session first, and its
messages wait in the connection until the other's listener runs. Names, addresses and what the users see are left
out.

### ShareAccess and WebShare

`ShareAccess` has the checks of each request in the order of the code
(`verifyWebShareAccess`), with the tarpit before the count and the rotation after it as
steps of their own, and the page's script: what it stores, which cards it shows, its
polls, its lockout timer, and its two transfers. A download is a request; an upload is
the question to the host and then chunk after chunk; a pause, a resume and a cancel are
posts of their own, and a resume asks for the chunk or the download again. All of them
carry the codes the page has stored and are judged and counted alike, but the page does
not do the same with a refusal: on a list it asks for the code, on a download or a
question it forgets its codes (`Shake`), on a chunk it only gives the upload up, and on
a post it reads nothing (`"unread"`, which is also what an aborted request becomes). A
paused transfer stays one: the page neither polls nor lists while it downloads, so that
a code typed then changes nothing on screen. A code is the number of the rotation that
drew it.

The portal (`handleSharePortal`) judges by itself, against the codes in force, the PIN
and the token of its URL, and says by a cookie that it was right. It asks nobody whether
the address is locked, waits for no tarpit, counts nothing and rotates nothing.
`PortalTells` is its effect: an address, locked or not, may know the code in force at any
time, and a guesser may then use it (`Guess`, second disjunct). So the number of guesses
an address makes is **not** bounded by the code; what is bounded, and stated in
`ApiGuessesBounded`, is what `verifyWebShareAccess` judges wrong. The repository's own
documents say the same of the portal (`docs/medxfer-plan-audit.md`, line 105).

`WebShare` has the request goroutines (`h`), the one record of a web transfer (`rec`),
the tickets, the disk and the page's script that slices a file, pauses, resumes, stops or
leaves; its posts may arrive in any order. A cancel empties the record and wakes who
waits under the lock; ending the context and removing the file come after it
(`CancelsContext`, `RemovesFile`), each at a time of its own: `calls` keeps what is still
to be done, and other requests go on in between. The disk may be full
(`DiskIsFull`): a chunk cannot be opened or copied, and its request fails; a form's file
cannot be made, and the form goes on to the next; a form's bytes are not written, which
the code does not look at (`share.go:754`) and goes on. The two modules do not share state
but the codes.

### Node

One action per line typed, per message read by the session's reader and handed to the
main loop, per request of the listener and per end of a transfer. `dialing` is the main
loop waiting for an answer: it then takes nothing else. The pairing's exchanges and the
data connections are those of the other modules. Left out: `scan`, `pair --show`, the
benchmark.

## 3. The runs

All bounds are the constants of the `.cfg` files and the plans of the MC modules.
`CHECK_DEADLOCK FALSE` everywhere: a file that is named, a run that returned, devices
nobody uses are all allowed to stay as they are.

| Run | Checks | What it shows, and why the bound is enough |
|---|---|---|
| `PartFile` | `InvariantJ`, `NamedIsComplete`, `NothingKeptIsLost`, `KeepsItsPromise` | whatever call fails and whenever the power goes: what the journal notes is durable, what has its name is complete, what was told durable is not lost, and each step of both kinds of file is one of `ResumableFile` or the user's deletion. Two chunks are the least for a batch that is partly noted; three inodes for a data file, its journal and the file of the next attempt; two writers for a write during a commit |
| `Receiver` | `NamedIsVerified`, `NoItemForgotten`, `DoneFrameIsTrue`, `KeptForResume`, `RunEnds` | two workers: a file of two chunks, whatever an earlier session left, with any one fault and one act of the user, so that a chunk asked by one worker is lost and asked by the other; and two files, one empty, named by a batch at its size, at its timer and at the end |
| `Sender` | `DigestIsOffered`, `ReadFilesAreOpen`, `ServeEnds` | four kinds of run: files that change, two connections on one item or on both, files open before and a lost connection or a receiver that stops. `MaxOpen` 1 with two items makes each close the other |
| `Transfers` | `CompleteIsTrue`, `OpenOfferIsLast`, `RunIsActive`, `BothEnd` | one transfer over two sessions with a cut, a lost DONE, and a pause, cancel or disconnect; one that fails or whose daemon stops; two transfers, one replacing or following the other. A second session is the least for the check on a session that is back |
| `Sessions` | `GraceIsTimed`, `RedialYields`, `LostComesBack` | one trusted device, four connections and four acts: the redial of a redialed session, and a replaced one, both happen |
| `PinsAttempts` | `GuessesBounded`, `AttemptsAreOnThisCode`, `DelayEnds` | three connections, of which two may test and one wait; two series make the delay and the final stop both happen |
| `OneShot` | `OneReceiver`, `TalkKeepsItsTime`, `PlacesAreHeld`, `ServeGoesOn` | two receivers, one of mutual trust, on two connections over two rounds and two deadlines: the least for a claim against a proof, and for an expiry against both |
| `BLEPairing` | `AttemptsAreHeld`, `OnePeerPerPIN`, `AcceptedWereTold` | two devices, two calls at once, one lost connection: a name is used twice, and a call holds what the other drops |
| `Trust` | `ListIsAgreed`, `OneKey` | two devices, two sessions over one another, two offers, one forgetting, one save or session that fails, and the two halves of touchTrust apart |
| `ShareAccess` | `ApiGuessesBounded`, `UserFailsByRotation`, `RightCodeOpens` | either a page with its user and two requests under way, two uploads, pauses or cancels and what resumes them, one rotation, one switch of the share; or an address that guesses with two requests under way, while locks expire, its record grows old, the host draws codes and the portal tells. Two requests are the least for a late answer beside a new request, for a post beside the transfer it is about, and for a guess judged beside the one that rotates the codes; two clicks and what resumes a transfer pause it, resume it and cancel it, or do so to one beside the other. A lock at 2 and a rotation at 4 stand for 5 and 10: a rotation of the host may lock the page out, and a click or two beside it rotate again; to a count that two requests overshoot only the order of the thresholds matters |
| `WebShare` | `WholeWhenTold`, `WaiterCanBeResumed`, `RequestsEnd` | one page uploads by chunks, one client by a form, one page downloads, in two request goroutines, with one act of the host (a pause, a cancel, a full disk, ...) or of a page: two goroutines are the least for a late chunk beside its repetition, and for one transfer to take the record of another. Or the upload by chunks and the download with two acts, pauses and cancels of the host and pages that stop: a cancel then meets who waits on a pause, and a record that another request has taken since |
| `Node` | `OffersAreHeld`, `ServedWasAccepted`, `EndIsSeen` | two nodes, three lines typed, three connections and two faults: each pairs with the other at once, offers twice, and leaves. Four lines with two connections and one fault hold too |

Every property of a run has a mutant of the code that violates it (`PROJECT.json`,
"mutants"; the operator stands before the definition it mutates).

**What the properties exclude**, each because the code really does otherwise (section
5): `CompleteIsTrue` a sender that its own user stopped; `BothEnd` a side that is
paused, and two devices whose last session is lost for good; `ServeEnds` a connection
accepted during the closing loop (`Late`); `OneKey` a commit that was not written
(`owed`) and an entry written on a message of a session replaced since (`astray`), and,
with `ListIsAgreed`, an entry touchTrust wrote over (`spoilt`); `ListIsAgreed` also the
answer of a third device in a session that was replaced (`astray` with another sender:
it takes three devices, so the run never has it and checks the whole);
`WholeWhenTold` an upload whose file a cancel removed while its page went on, whose
first chunk was sent twice, which another form emptied or removed because both found
the same name free, or whose form was not written to a full disk (`spoiled`), and
senders whose files have the same name (`SameNames`, empty in the run); `EndIsSeen` a
session that the other side only replaced.

**Fairness** is weak, and only of what the runtime or the system does by itself:
goroutines that can go on do, timers fire, a write-back happens, the network delivers
or fails. Nobody has to start a transfer, accept, pause, cancel, and no fault has to
happen.

* `Receiver`, `Transfers`, `Sender`, `OneShot`, `Node`: one `WF` of the disjunction of
  all that goes on by itself. It only says that something happens while something can,
  less than the scheduler gives each goroutine; a liveness that holds under it needs no
  more.
* `Sessions`: one `WF` per session (its goroutines); `WebShare`: per request, page and
  post; `ShareAccess`: per request, page and timer, and a strong one of `UploadEnds`
  alone (a file has a last chunk, which a weak one would let the next chunk put off for
  ever); `PinsAttempts`: per timer and screen. Several parties that may go on for ever
  need theirs.
* Help from outside is assumed in three places: in `Receiver`, that the full disk is
  freed and what is paused is resumed (a paused run waits by design); in `WebShare`,
  that somebody resumes a paused transfer; in `ShareAccess`, that the user types the
  code when asked, resumes what he paused and reloads a page that offers nothing.
  `Transfers` assumes that a lost session is dialed again, by the redial (`Sessions`)
  or by a user.
* `BLEPairing` and `Trust` check safety alone, without fairness. `BLEPairing` can
  deadlock as the code does (section 5), `Trust` ends with its bounds.

The sender's idle limit in `Transfers` (`GiveUp`) is a time longer than the receiver's
own limits, so the model enables it only when the receiver is over or paused and
nothing is on the way: a duration turned into a guard.

## 4. The proofs

Each is for every value of the constants that meets the named assumptions of the
module. `tlapm` checks them to the last leaf.

* `FileProofs!JHolds`: `Spec => []InvariantJ`; `NamedHolds`:
  `[]NamedIsComplete`; `TypeCorrect`. The hypothesis is `SyncDrops = FALSE`: a
  failed `fsync` leaves its pages dirty. It is needed, not a convenience: with
  `TRUE` (Linux) TLC violates `InvariantJ` (section 5).
  `InvariantJ` is about the disk alone and is not inductive. The invariant `IInv`
  (`PartFileInv`) adds what ties memory to the disk: a block read back is durable or
  dirty (`FilesOK`); a journal belongs to one data file in every state a power loss
  may leave (`JournalsOK`) and the open handles are those (`HandlesOK`); what memory
  calls written is in the file, and what a commit is about to note is durable
  (`MemoryOK`); only a complete file is on its way to its name (`NamingOK`). The proof
  has a lemma per kind of change to the disk (a sync, a new journal, records written,
  a rename, a power loss), then one per group of actions, and their union in
  `StepIInv`.
* `FileProofs!KeptHolds`: `Spec => NothingKeptIsLost`; `PromiseHolds`:
  `Spec => KeepsItsPromise`; `Implements`: `Spec => Promise!Spec` if the user deletes no
  partial file: the store refines `ResumableFile`. The same hypothesis. `IInv` does not
  suffice, for it does not say why a name may be removed. `KeptOK` does: leftovers are
  removed only where no Open would resume them (`LeftoversOK`), a Suspend that removes a
  `.part` has no commit behind it that could still make its journal (`SettledOK`), and a
  journal goes only by Discard or once the complete file has its name (`UnlinkOK`). Each
  kind of change to the disk is shown to lose nothing a stop cannot lose (`Keeps`); a
  step that turns to a Discard leaves the disk alone (`Mismatched`); the cases of
  `Named` and of the mismatch then give the step of the promise.
* `ReceiverRunProofs!NamesVerifiedFiles`: `Spec => []NamedIsVerified`; `NoneIsForgotten`:
  `[]NoItemForgotten`; `DoneSaysWhatHappened`: `[]DoneFrameIsTrue`; `KeepsForResume`:
  `Spec => KeptForResume`; `TypeCorrect`; from `PlansAssumption`, `RunBoundsAssumption` and
  the hypothesis `NoFullDisk`: no plan has the fault `"full"`. Any offer, any number of
  workers, whatever earlier sessions left, every other fault and every act of the user, as
  often as they come. The hypothesis is the code's: after a full disk, threads of the
  attempt before still count chunks (`receiver.go:798`, section 5), and an item can be
  told done without its file; with one full disk and no other fault TLC finds the
  properties true, and the run `Receiver` keeps that case.
  The argument is about tokens. `Where(i, c)` is the set of places of chunk c of item i, or
  of its digest: to be asked for, in flight, read and waiting for its writer, in the hands
  of a thread. `TokensOK` says there is one at most; `Counted` that `processed` is the
  number of chunks at no place, and that the digest has a place once that is all of them,
  so `complete` is called once per attempt; `Stored` that a chunk at no place is on disk;
  `Carried` that a chunk asked for is not one of an older version, so nothing old is told
  fresh; `Verified` that a digest found the same was computed without such chunks; `Told`
  that an item that is closed and not ended is in a batch or in the hands of a thread
  that will mark it. An action then moves one token (`WorkKeeps`), makes a call go on
  (`CallGoesOn`) or leave off (`StepKeeps`), or touches no token (`QuietKeeps`).
  `NoItemForgotten` follows from the count: if no chunk has a place the item is complete
  and its digest has one.
* `PairingProofs!GuessesHold`: `Spec => []GuessesBounded`; `AttemptsHold`:
  `[]AttemptsAreOnThisCode`; `TypeCorrect`. The count alone is not inductive: an
  attempt that fails draws a new code, so no attempt on the old one may be in flight.
  `Counted` says that the attempts reserved are those in flight, failed or paired,
  `Drawing` that a series is counted by codes destroyed, `Waiting` that a connection with
  a change to show has just that one. `Good` joins the first two for k attempts in
  flight; each operation on the fields is a lemma about `Good`, and `Flight` relates k to the
  connections.

* `TransfersProofs!OfferHolds`: `Spec => []OpenOfferIsLast`; `ActiveHolds`:
  `[]RunIsActive` if `OneSided`; `CompleteHolds`: `[]CompleteIsTrue` if `OneTransfer`;
  `TypeCorrect`. The devices are two, the sessions, transfers and plans any
  (`DevicesAssumption`, `NamesAssumption`, `SessionsAssumption`, `PlansAssumption`).
  `OneSided` says that one daemon sends and no plan has a description that takes long,
  `OneTransfer` that a plan offers one transfer at most. Both are needed: TLC violates
  the properties without them, and section 5 says what the code does there.
  None of the three is inductive, for a step is taken on the word of a message or of a
  field set long before. `IInv` ties each to the transfer it names: what is on the wires
  (`AllSay`: a "complete" was sent by a receiver whose items all ended, an "accept" or
  an "offer" by the side that does so), each daemon's own memory of offers made,
  pending, completed and ended (`DaemonHolds`), and each transfer's two goroutines and
  what its two users were told (`RunHolds`). `CanCancel` adds under `OneSided` that a
  daemon with an offer open has nothing to cancel; `Confirmed` under `OneTransfer` that a
  sender's run that was left is not the active one of its daemon. There is a frame
  lemma for what a step leaves alone, and one lemma per action.
* `SessionsProofs!GraceHolds`: `Spec => []GraceIsTimed`; `YieldHolds`:
  `[]RedialYields`; `TypeCorrect`. Any number of peers and of
  connections. `IInv` says that the active session is one still on, what a reader that
  has ended has already done (`Readers`), that a session is lost once (`OncePerLoss`),
  which redials and which ends belong to which loss (`Attempts`, `EndedFirst`), and
  that a grace that runs has its timer.
* `OneShotShareProofs!OneReceiverHolds`: `Spec => []OneReceiver`; `TalkHolds`:
  `[]TalkKeepsItsTime`; `PlacesHold`: `[]PlacesAreHeld`; `TypeCorrect`. Any finite set of
  devices, each with any of the ways in. `IInv` says what each stage of a connection
  holds of the Gate, the claim and the codes (`AllSound`), who waits for what
  (`Waiting`), that what a receiver was told comes from the one claim (`Winner`), and
  that the Gate's counts are the numbers of connections that hold a place, in all and
  per device (`Counts`: cardinalities, so that each action is a lemma about a set that
  gains or loses one member).

* `NodeProofs!OffersHeld`: `Spec => []OffersAreHeld`; `ServedHolds`:
  `[]ServedWasAccepted`; `TypeCorrect`. Any number of nodes, lines, connections and
  faults; no assumption is used. `IInv` says that the numbers of connections and offers
  exist, and that a message "accept" is of an offer that a user accepted (`TypeOK`, with
  `Said`); that a question on the screen is asked by a node that is paired (`Asking`);
  that `lastOffered` is an offer of the node itself (`Mine`), and what it serves one of
  its own that is `lastOffered` no more (`Served`), which is why it is served once.
* `AccessProofs!ApiGuessesHold`: `Spec => []ApiGuessesBounded`; `UserHolds`:
  `[]UserFailsByRotation`; `TypeCorrect`; from `ThresholdsAssumption` and
  `ActorsAssumption`. Neither is inductive: a guess may be judged and not be counted yet,
  and a page may go on sending the code of before a rotation. `GuessOK` bounds the wrong
  guesses judged by what the record keeps of them (`Kept`) and those under way
  (`InFlight`); it says nothing of the portal, which touches neither, and the theorem
  does not either. `UserOK` adds to the failures counted against a page what it still
  owes (`Owed`), a sum of three: `Ahead`, one per request with a refused code whose
  answer clears what the page stored or, while the page itself still has that code, one
  per request it may have under way, less those already refused; `Blind`, one per request
  nobody reads the answer to; `Debt`, one for the chunk that will end an upload. A
  rotation pays for `Ahead`, a click for the two requests it sends or leaves behind it.
  `Apart` says that a page has one download and one chunk at a time, `Carried` that what
  is in the tarpit had a refused code and still has it, `OnlyGuesses` what a guesser asks.

* `FileProofs!DigestHolds`: `SendSpec => []DigestIsOffered`; `ReadFilesHolds`:
  `[]ReadFilesAreOpen`; from `ConnsAssumption` and `ChunksAssumption`. Any items, chunks,
  connections, any limit of open files, any room in the queue and any `Plans`. A digest
  is made in several steps while the file may change, so `SendHashes` says that as long
  as the source is as it was opened, every hash held is of the content offered: those
  served, those ahead, and those in the digest under way; and that a digest that counts
  on the hashes ahead finds each chunk in one or the other (`Filled`). For the files the
  entry's count is not enough: `EntryOK` says that it is the number of goroutines that
  read the file (`ReadersOf`, by the `Role` of each), that one at most opens it, and
  `RecOK` and `QueueOK` that a connection answers the request it took. The hasher is
  outside the WaitGroup, hence the guard on `serve` in `EntriesOK`.
* `PairingProofs!AttemptsHeldHolds`: `BLESpec => []AttemptsAreHeld`; `OnePeerHolds`:
  `[]OnePeerPerPIN`; `AcceptedHolds`: `[]AcceptedWereTold`; from the module's
  assumptions on its counts and devices. Any number of devices, calls, connections and
  challenges. A call works on an object it took from the table before another call
  dropped it; `Tabled` says which objects a name of the table may stand for, `CallsOK`
  and `TableOK` which call holds which of the two locks where, `ScreenOK` that the
  request on screen is of one object, that an attempt is only of an object still
  answered, and that one not refused is on a PIN that paired nobody, `PINsOK` that a PIN
  that paired is over, and `ToldOK` that what a device took and may still take is at most
  the exchanges that ended with the word to come.
* `AccessProofs!ListAgreedHolds`: `TrustSpec => []ListIsAgreed`; from
  `DevicesAssumption`, `CodesAssumption`, `BoundsAssumption`. Any devices, sessions,
  offers and faults. Nothing an entry is written from is itself a user's word: the
  invariant `TrustIInv` follows the word from the talk of the active session
  (`TalkOfActive`, `SaysSo`), to what is on the wire of a session (`WiresAgreed`), to
  what a session's reader has in hand and answers by (`HandsAgreed`), and to the entry
  that touchTrust holds (`SnapsAgreed`). Looking for it showed the hole that is now
  named in the property: a message read in a session is handled in the talk of the
  session that is active by then, perhaps another device's (`trust.go:461`). With three
  devices TLC finds the entry it writes, and, with the exception, nothing more.
* `OneShotShareProofs!WholeHolds`: `ShareSpec => []WholeWhenTold`; `WaiterHolds`:
  `[]WaiterCanBeResumed`; from `NoneAssumption` and the assumptions on the counts. Any
  number of pages, forms, requests, files and chunks, any names, any acts of the host.
  The page goes on to the next chunk when its request is answered, but gives up on a
  request that still runs, and sends that chunk again. For the uploads outside
  `spoiled` and `SameNames`, `ChunksLate` says that no request of a file is ahead of its page,
  and that a first chunk, which empties the file, has no other request of that file
  beside it; `ChunksThere` and `SentThere` that all chunks before the one carried, and
  before the page's own, are on the disk; `FormsThere` the same of a form's files, with
  the names it got (`FormsAgree`). The proof showed that two forms may find the same
  name free, one emptying or removing what the other saves: that is what `spoiled`
  says of it. With a second form, and with two files each, TLC agrees. `CallsOK` says what
  a cancel has still to do outside its lock is of a request or a file that exists; a
  file it removes late spoils whoever uses the name by then. A failed write of a form is
  in `spoiled` too; every other failure of the disk is within the theorem.

Only model-checked: the liveness properties (`RunEnds`, `ServeEnds`, `DelayEnds`,
`BothEnd`, `LostComesBack`, `ServeGoesOn`, `EndIsSeen`, `RightCodeOpens`,
`RequestsEnd`), for liveness under fairness and ENABLED are beyond the prover used;
and one safety property, `OneKey` of `Trust`: which two keys meet depends on all the
offers of a session in both directions and on what was lost of them, and its inductive
invariant was not found. It holds in every state of the run. The receiver's theorems
have a hypothesis (`NoFullDisk`), two of `Transfers`' too (above): what goes beyond is
TLC's. Induction over data and recursive operators are out of reach as well; no module
here needs recursion.

## 5. What was found

The models do what the code does, so these were met while modelling or shown by TLC
when an exclusion of section 3 was lifted. No run is kept for them; the line is where
the code does it.

* *store*: a failed `fsync` tried again by the next commit, where the system has
  dropped the pages (`store.go:507`; `SyncDrops = TRUE` in `PartFile` violates
  `InvariantJ`); a power loss between the rename and the journal's removal, after
  which the file is received again and ends in `ErrExists` on itself (655); a journal
  made by the background commit of a file that a batch has named (`batch.go:44`);
  twice `CommitBytes` exceeded by the chunks in hand (443); a user's file that takes
  the name between `Lstat` and the rename (667).
* *receiver*: `write` and `prepare` count a chunk after they let go of the item's lock,
  without looking at its generation: after two faults around a full disk an item is
  reported done without its file (`receiver.go:798`); on a cancel during the batch
  timer's flush `Run` returns with complete files that have no name yet, though its
  comment says they get it; `markRoot`'s `sync.Once` keeps an error made on a full disk
  (408); `Finalize`'s failed sync leaves the file open (1004); a `SkipItem` while the
  item is being named.
* *sender*: the frame buffers suffice because `InFlight` is 2, with 3 the preparer would
  wait for itself; `hashAhead` is not in the WaitGroup and may open a file after
  `closeFiles`; a connection accepted while the closing loop runs is never closed
  (`sender.go:136`); `finished` is set before `partial` (240).
* *transfers*: two users who offer at once, or an offer accepted during a long
  description, make a daemon run two transfers, of which the first can no longer be
  cancelled (`transfers.go:475`: `RunIsActive` fails with two `Senders` or with
  `"slow"`); a check between `endTransfer` and `completedTransferID` is answered
  "failed" for a transfer received whole (427); `sentCompletedID` remembers one id, so
  an older late `complete` is shown twice; a late `complete` of a transfer that has
  ended (`endedTransferID`) makes `completeSent` call whatever `transferCancel` is by
  then: the next transfer's `Serve` returns without an error and is shown complete,
  though its items never ended (624-638: `CompleteIsTrue` fails with two transfers, a
  lost DONE and two acts of the user); cancel, pause and disconnect act on what is
  active whatever id they name (753); a withdrawn offer can still be accepted; `Stop`
  makes an interrupted transfer "confirmed" (512).
* *sessions*: a redial checks, then asks, and so undoes a disconnect that comes between
  (`redial.go:76`, against 43-44); a session lost between `startSession` and
  `dialedFor` is never redialed; a replaced session's listener broadcasts
  "reconnecting" (`server.go:1083`); a grace callback that has fired ends the next
  loss's grace early; a late "disconnect" closes the new session (1153); after `Stop`
  a request in flight still opens a session nobody closes.
* *PIN*: two connections with the right PIN at once both pair (`api/pin.go:235`);
  `demand.Close` after a pairing may close another PIN; `Close` after a stop forgets
  the stop (`ondemand.go:117`).
* *one-shot*: after a pairing refused, failed or stopped `xfer send` waits for ever
  (`main.go:1289`); the receiver gives up after 10 s while the sender's user is still
  asked (`exchange.go:33`), and one that declines leaves the sender waiting; no answer
  on the terminal is taken for a yes (`main.go:1260`, `oneshot.go:285`).
* *port*: a connection whose handshake ended before `Register` stays counted as
  unauthenticated.
* *BLE*: two locks taken in both orders (`api/ble.go:334` against `pairing/ble.go:161`
  and 726): TLC finds the two calls waiting for each other; a late close or refusal goes
  by the name of the connection and may drop a fresh exchange; `BleLink.stop` sends no
  end of its connections; the right code over TLS and over BLE at once pairs two.
* *trust*: `touchTrust` gets, then adds: it restores a device forgotten in between, or
  overwrites a newer key (`trust.go:98`, and the same in `trust_rename`); a standing yes
  survives a forgetting; a lost `trust_commit` on a repeated offer leaves the two sides
  with two keys (`mutual.go:156`); a second negotiation in one session answers
  "no_answer" at once; a late message goes to the talk of the new session, even of
  another device, which is then trusted on the yes of the first (461).
* *web share*: after the host's cancel a page that goes on completes a file with a hole;
  a pause is lifted by the next chunk's `Register` (`server.go:345`); a request whose
  client left waits on until something wakes it (454); a late `Unregister` clears the
  record of a download resumed since; the last chunk of an upload's first file removes
  the ticket of the others (`share.go`, near 1008); a ticket expires after 60 s even in
  the middle of an upload; a chunk upload overwrites the host's files where a form
  renames; two forms that find the same name free write to the same file, and one that
  is cut short removes it under the other (720-745, 790); errors of `dst.Write` are
  ignored (754); `FailCount` is not reset by a rotation; the portal compares PINs without lockout, count or rotation (210-222), so the
  limit of `verifyWebShareAccess` is one of that function only; a post that pauses,
  resumes or cancels after a rotation counts as a wrong PIN and clears nothing
  (2054-2091), so a user who only clicks can be locked out; a refused fresh page stays blank, and a
  shake is shown on a card that is not on screen (1390, 1920, 2175).
* *node*: Enter takes the resume of a paused receiver before it looks for a question
  on screen, and drops it (`main.go:568`); a resume of a transfer that ended swallows
  the next line; two nodes that pair with one another at once are both left unpaired
  (559-562); `pair` while paired never closes the session it replaces; a late "reject"
  or a mismatched "accept" closes a newer offer; crossed accepts overwrite
  `transferCancel`; "disconnect" does not end the running transfer (882).

## 6. What is left, and the plan

*Proofs, in order*: `OneKey` of `Trust`, by an invariant on the keys drawn, on the
wires and kept in a session; `NamedIsVerified` of `ReceiverRun` with a full disk, for
what it says of the content of a file.

*Refinements worth stating*: `Transfers`' loss and return of a session by `Sessions`;
a transfer as its two users see it (offered, running, ended the same way), for
`Transfers`.

*Models*: the event queue of `pkg/core` (a full queue against `Poll` and `Close`) and the
handles of its C interface; discovery's table with its expiry; the application's own
connection state in Dart. A full disk of two transfers at once in `Node`.

*Narrowed in `ShareAccess`*: "Download All" and its skip; a pause while an upload still
asks the host, and another upload while a cancelled one is still asked; the buttons of a
card that lingers after its transfer; links with an old code; an aborted request whose
answer is already on its way; a PIN given by the Go API (`SetPIN`) at start.

*Not caught by any property*, and said at the hazard (`PROJECT.json`): a disconnect
between a redial's check and its question (`RedialYields` is about what starts after the
disconnect); the entry that `touchTrust` writes back and the key a lost commit leaves
(`spoilt`, `owed`); a `fsync` that failed and is tried again on Linux (`SyncDrops`); two
accepts that cross (`OneSided`).

*Not modelled*: the cryptography (PAKE, the handshake of the channel), codecs except
where a property needs one, free space and path names, the measures and test tools, the
platforms' own Bluetooth, hotspot and Wi-Fi services, and the widgets. `JoinPIN` is not
called outside the tests.
