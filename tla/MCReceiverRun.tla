--------------------------- MODULE MCReceiverRun ---------------------------
EXTENDS ReceiverRun, TLC

CONSTANTS w1, w2

\* One file of two chunks, every fault and every act; two files that a batch names,
\* one of them empty.
FileOrBatch ==
  {[total |-> <<2>>, workers |-> {w1, w2}, earlier |-> {"kept", "old", "named"},
    faults |-> {"lost", "chunk", "gone", "digest", "connect", "open", "write", "sync", "name", "full"},
    maxFaults |-> 1, users |-> {"pause", "pauseItem", "skip", "cancel"}, maxActs |-> 1],
   [total |-> <<1, 0>>, workers |-> {w1, w2}, earlier |-> {},
    faults |-> {"lost", "name", "full"}, maxFaults |-> 1, users |-> {"cancel"}, maxActs |-> 1]}
=============================================================================
