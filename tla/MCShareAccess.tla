--------------------------- MODULE MCShareAccess ---------------------------
(***************************************************************************)
(* Either a page and its user, whom nobody else disturbs, or an address    *)
(* that guesses over one rotation more, whoever causes it.  There nobody   *)
(* opens the page, which is not fair to it: those behaviours are for the   *)
(* invariants, RightCodeOpens is about the others.                         *)
(***************************************************************************)
EXTENDS ShareAccess

VARIABLE guessing

Guessing == INSTANCE ShareAccess WITH MaxGen <- MaxGen + 1

Asking(actors) == \E r \in Reqs : Of(r) \in actors /\ req[r] # NoReq

MCInit == guessing \in BOOLEAN /\ Init
MCNext ==
  /\ UNCHANGED guessing
  /\ \/ ~guessing /\ Next /\ ~Asking(Guessers)' /\ UNCHANGED known
     \/ guessing /\ Guessing!Next /\ ~Asking(Pages)' /\ UNCHANGED page
MCFairSpec == MCInit /\ [][MCNext]_<<vars, guessing>> /\ Fairness

TwoEach == [a \in Actors |-> 2]
=============================================================================
