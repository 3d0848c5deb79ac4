----------------------------- MODULE MCTransfers -----------------------------
EXTENDS Transfers, TLC

CONSTANTS t1, t2

\* One transfer whose session may die once, and DONE's connection with it; one whose
\* source or room is gone, or a daemon stops; and two transfers of one session, one
\* after the other or one that replaces the other.
LongFailedOrTwo ==
  {[ids |-> {t1}, sessions |-> 2, faults |-> {"cut", "data"},
    users |-> {"pause", "disconnect", "cancel"}, acts |-> 1],
   [ids |-> {t1}, sessions |-> 2, faults |-> {"source", "space", "stop"},
    users |-> {"reject"}, acts |-> 1],
   [ids |-> {t1, t2}, sessions |-> 1, faults |-> {"source"},
    users |-> {"cancel", "reject"}, acts |-> 1]}
=============================================================================
