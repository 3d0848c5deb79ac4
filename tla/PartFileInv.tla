---------------------------- MODULE PartFileInv ----------------------------
(***************************************************************************)
(* The inductive invariant behind InvariantJ and NamedIsComplete, where a  *)
(* failed fsync keeps its pages (SyncDrops is FALSE): what has to be true  *)
(* of the disk, of the open files and of a commit at each of its steps for *)
(* a journal never to say more than the disk holds.                        *)
(***************************************************************************)
EXTENDS PartFile

\* A block read back is durable, or is still to be written back.
FilesOK == \A i \in Inodes : file[i].bytes = file[i].durable \cup file[i].dirty

\* Whatever the moment of the stop, a journal is the journal of one data file,
\* and is not itself the data.
JournalsOK ==
  \A s, t \in crash :
    s.journal \in Inodes =>
      /\ s.journal # t.part /\ s.journal # part
      /\ t.journal = s.journal /\ s.part \in Inodes /\ t.part \in Inodes => s.part = t.part

\* The open journal is that of the open data.
HandlesOK ==
  /\ part # None /\ ns.part \in Inodes => ns.part = part
  /\ journal # None =>
       /\ journal # part
       /\ \A s \in crash : s.journal = journal /\ s.part \in Inodes => s.part = part

\* Before the data is open, nothing is known; a new file starts from nothing.
BeforeOpen == {"absent", "elsewhere", "placed", "stale", "fresh", "mkpart"}
OpeningOK ==
  /\ part = None => have = {} /\ pending = {} /\ batch = {} /\ holder = "none"
                    /\ \A c \in Chunks : stage[c] = "idle"
  /\ pc \notin BeforeOpen \cup Ended => part # None
  /\ pc \in BeforeOpen => part = None
  /\ pc \in BeforeOpen \ {"mkpart"} => journal = None
  /\ pc = "fresh" => ns.part = None /\ ns.journal = None
  /\ pc = "mkpart" => ns.part = None /\ ns.journal = journal /\ Noted(journal) = {}

\* What memory says is written is; what a commit is about to note is durable.
MemoryOK ==
  part # None =>
    /\ have \cup pending \cup batch \subseteq file[part].bytes
    /\ \A c \in Chunks : stage[c] = "written" => c \in file[part].bytes
    /\ cstep \in {"ensure", "records", "jsync"} => batch \subseteq file[part].durable
    /\ pc \in {"publish", "rename", "noting"} => file[part].bytes \subseteq file[part].durable

\* Only a complete file is on its way to its name.
NamingOK ==
  /\ pc \in {"sync", "sealed", "publish", "rename"} => have = Chunks
  /\ pc = "settle" /\ op = "finalize" => have = Chunks
  /\ pc \in {"noting", "note"} => op \in {"exists", "failed"}

\* The disk, with the files that are open; and the memory.
DiskInv ==
  /\ DiskTypeOK /\ ns \in crash
  /\ FilesOK /\ JournalsOK /\ HandlesOK
  /\ InvariantJ /\ NamedIsComplete

MemoryInv ==
  /\ OwnerTypeOK /\ MemoryTypeOK /\ CommitTypeOK /\ ErrorTypeOK
  /\ OpeningOK /\ MemoryOK /\ NamingOK

IInv == DiskInv /\ MemoryInv

-----------------------------------------------------------------------------
(* What a call that takes a name away has made sure of, for nothing that    *)
(* was told durable to be lost.                                             *)

\* Leftovers are what no Open resumes; a .part without journal has none under its name.
LeftoversOK ==
  /\ pc = "stale" => ns.part = None \/ ~Readable(ns.journal)
  /\ part # None /\ journal = None => ns.journal = None

\* Only an open file has writers at work; once settled, a Suspend has no commit behind it.
SettledOK ==
  /\ pc # "open" => \A c \in Chunks : stage[c] = "idle"
  /\ op = "suspend" /\ pc \in {"commit", "header", "closing", "unlink"} => bg = "none"

\* A .part is unlinked by Discard or because it has no journal, a journal by Discard or once the file is named.
UnlinkOK ==
  /\ pc = "unlink" => op = "discard" \/ (op = "suspend" /\ holder = "none" /\ journal = None)
  /\ pc = "unlinkJournal" => op = "discard"
  /\ pc \in {"folder", "drop"} => ns.final \in Inodes

KeptOK == LeftoversOK /\ SettledOK /\ UnlinkOK
=============================================================================
