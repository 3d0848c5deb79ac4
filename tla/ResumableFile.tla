--------------------------- MODULE ResumableFile ---------------------------
(***************************************************************************)
(* What the store promises of one received file, whatever stops it: the    *)
(* chunks told durable stay, until the file starts over because its digest *)
(* did not match; the file has its name only once every chunk is there,    *)
(* and then keeps it.  A kill, a power loss or a failed call is a step of  *)
(* this specification like any other: it takes nothing away.               *)
(***************************************************************************)
CONSTANT Chunks

VARIABLES
  kept,      \* the chunks no stop can lose
  named,     \* whether the complete file has its name, for good
  mismatch   \* whether its digest did not match: it starts over

vars == <<kept, named, mismatch>>

TypeOK == kept \subseteq Chunks /\ named \in BOOLEAN /\ mismatch \in BOOLEAN

Init == kept = {} /\ named = FALSE /\ mismatch = FALSE

\* Chunks become durable.
Keep ==
  /\ ~named /\ kept \subseteq kept' /\ kept' \subseteq Chunks
  /\ UNCHANGED <<named, mismatch>>

\* The complete file gets its name; a stop may be what makes it final, of a
\* file that was being received again.
Name ==
  /\ ~named /\ named' = TRUE
  /\ kept' = Chunks
  /\ (mismatch' => mismatch) /\ mismatch' \in BOOLEAN

\* The sender's digest is another: every chunk is asked again.
Mismatch ==
  /\ ~mismatch /\ mismatch' = TRUE
  /\ UNCHANGED <<kept, named>>

StartOver ==
  /\ mismatch /\ mismatch' \in BOOLEAN
  /\ kept' \subseteq Chunks /\ (named => kept' = kept)
  /\ UNCHANGED named

Next == Keep \/ Name \/ Mismatch \/ StartOver

Spec == Init /\ [][Next]_vars
=============================================================================
