---------------------------- MODULE MCPartFile ----------------------------
(***************************************************************************)
(* Two kinds of file.  One goes to the user's folder, under a free name,   *)
(* is flushed alone and written by several goroutines: its constants are   *)
(* those of the configuration.  The other is small: in its transfer's own  *)
(* folder, it replaces what has its name, and a batch flushes it.          *)
(***************************************************************************)
EXTENDS PartFileInv, TLC

VARIABLE small

Small == INSTANCE PartFile
           WITH Writers <- 1, CommitChunks <- 1, Owned <- TRUE, Overwrite <- TRUE, Batching <- TRUE,
                Faults <- {"sync", "write", "close"}, Crashes <- {"power"}, UserActs <- {}

MCInit == small \in BOOLEAN /\ IF small THEN Small!Init ELSE Init
MCNext ==
  \/ ~small /\ Next /\ UNCHANGED small
  \/ small /\ Small!Next /\ UNCHANGED small
MCSpec == MCInit /\ [][MCNext]_<<vars, small>>

AllFaults == FaultKinds
ChunkAndInodeSymmetry == Permutations(Inodes) \cup Permutations(Chunks)
=============================================================================
