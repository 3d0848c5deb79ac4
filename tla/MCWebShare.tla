----------------------------- MODULE MCWebShare -----------------------------
(***************************************************************************)
(* Either all of them, with one act of whoever; or an upload by chunks and *)
(* a download, with pauses, cancels and stops that follow one another.     *)
(***************************************************************************)
EXTENDS WebShare

VARIABLE several

Several == INSTANCE WebShare
             WITH HostActs <- {"pause", "cancel"}, PageActs <- {"stop"}, MaxActs <- 2

MCInit == several \in BOOLEAN /\ ShareInit
MCNext ==
  /\ UNCHANGED several
  /\ \/ ~several /\ ShareNext
     \/ several /\ Several!ShareNext /\ \A p \in Forms : page'[p] = page[p]
MCFairSpec == MCInit /\ [][MCNext]_<<shareVars, several>> /\ ShareFairness

\* Every sender has names of its own; the form's first is a name the host has.
NamesOfTheirOwn ==
  [p \in Senders |-> [i \in 1..Files |-> IF p \in Uploads THEN <<"u", i>> ELSE <<"f", i>>]]
AllNames == {<<k, i>> : k \in {"u", "f"}, i \in 1..Files} \union {<<"free", 1>>}
HostHasOne == {<<"f", 1>>}
=============================================================================
