-------------------------------- MODULE Pins --------------------------------
(***************************************************************************)
(* Pairing by a PIN: pkg/pairing's PIN and PINOnDemand, and pkg/api's      *)
(* calls on them (acceptPIN, handlePairPINShow, handlePINRefuse).          *)
(*                                                                         *)
(* A PIN draws one code after another: three wrong attempts destroy a      *)
(* code, three destroyed codes make a series, which is followed by a       *)
(* delay, and MaxSeries of them stop the PIN.  The connections, the user's *)
(* requests, the delay's timer and the calls of Show run at once: a change *)
(* is made under p.mu and shown after it.  A code is the number of its     *)
(* draw.  Time is the order of events: a code expires at any moment, a     *)
(* delay ends by its timer; how long they are (and delay, doubled at each  *)
(* series) is left out, and so is a failing source of randomness.          *)
(***************************************************************************)
EXTENDS Naturals, FiniteSets

CONSTANTS
  PINs,       \* the PIN objects NewPIN may make
  Conns,      \* connections served at once
  Attempts,   \* PINConfig.Attempts
  MaxSeries,  \* PINConfig.MaxSeries
  None,       \* no PIN
  Timer       \* the goroutine of a delay

PinDestroyedIn == 3

ASSUME BoundsAssumption == Attempts \in Nat \ {0} /\ MaxSeries \in Nat \ {0}
ASSUME NamesAssumption == None \notin PINs /\ Timer \notin Conns
ASSUME ConnsAssumption == IsFiniteSet(Conns)

VARIABLES
  pin,     \* per PIN object: its fields
  shown,   \* DaemonServer.pin
  demand,  \* PINOnDemand: its pin and stopped
  conn,    \* per connection: where acceptPIN is, and what it holds
  user     \* where handlePairPINShow is, and the PIN it replaces

vars == <<pin, shown, demand, conn, user>>

-----------------------------------------------------------------------------
(* The PIN.  drawn: how many codes were drawn (0: not made yet); tested and *)
(* pairings: how many attempts were answered with a code of this PIN, and  *)
(* how many paired; shows: the changes not shown yet; onScreen: the last   *)
(* shown, 0 when Show was called with "".                                  *)

NoConn == [at |-> "idle", shown |-> None, pin |-> None, counted |-> FALSE]
Unmade == [drawn |-> 0, valid |-> FALSE, expired |-> FALSE, reserved |-> 0, failed |-> 0,
           destroyed |-> 0, timer |-> "none", paired |-> FALSE, closed |-> FALSE, stopped |-> FALSE,
           changes |-> 0, shows |-> {}, last |-> 0, onScreen |-> 0, tested |-> 0, pairings |-> 0]

Live(p) == p # None /\ ~(pin[p].stopped \/ pin[p].closed \/ pin[p].paired \/ pin[p].expired)

HasStopped(p) == p # None /\ pin[p].stopped

\* drawLocked: a new code, with all its attempts and its whole life.
Drawn(r) == [r EXCEPT !.drawn = @ + 1, !.valid = TRUE, !.expired = FALSE, !.reserved = 0, !.failed = 0]

\* nextShowLocked: a change numbered in the order of the changes, shown later by
\* the goroutine that made it.
ToShow(r, code, by) ==
  [r EXCEPT !.changes = @ + 1, !.shows = @ \cup {[n |-> r.changes + 1, code |-> code, by |-> by]}]

\* The first code is on screen when NewPIN returns.
Made == [Unmade EXCEPT !.drawn = 1, !.valid = TRUE, !.changes = 1, !.last = 1, !.onScreen = 1]

\* Close: the code is gone and the timer is stopped, unless it has fired.
Closed(r) == [r EXCEPT !.closed = TRUE, !.valid = FALSE, !.timer = IF @ = "set" THEN "none" ELSE @]
CloseThat(p) == IF p = None THEN pin ELSE [pin EXCEPT ![p] = Closed(@)]

\* Mutant: one attempt too many.
MayBeginOneMore(r) == ~r.closed /\ ~r.paired /\ r.valid /\ ~r.expired /\ r.reserved <= Attempts
\* begin: whether an attempt is left on this code.
MayBegin(r) == ~r.closed /\ ~r.paired /\ r.valid /\ ~r.expired /\ r.reserved < Attempts
Begun(r) == [r EXCEPT !.reserved = @ + 1, !.tested = @ + 1]

\* end, of an attempt that paired.
Used(r) == [r EXCEPT !.paired = TRUE, !.valid = FALSE, !.destroyed = 0, !.pairings = @ + 1]

\* end, of a failed one: the last destroys the code; another one is drawn, or a
\* delay runs, or the PIN stops.
Destroyed(r) == [r EXCEPT !.failed = @ + 1, !.valid = FALSE, !.destroyed = @ + 1]
Stops(d) == d % PinDestroyedIn = 0 /\ d \div PinDestroyedIn >= MaxSeries
Delayed(r, c) == ToShow([r EXCEPT !.timer = "set", !.expired = FALSE], 0, c)
Stopped(r, c) == ToShow([r EXCEPT !.closed = TRUE, !.stopped = TRUE], 0, c)
\* Mutant: the code is destroyed before its last attempt has ended.
FailedEarly(r, c) ==
  IF r.closed \/ r.failed + 2 < Attempts THEN [r EXCEPT !.failed = @ + 1]
  ELSE ToShow(Drawn(Destroyed(r)), r.drawn + 1, c)
Failed(r, c) ==
  LET d == Destroyed(r) IN
  IF r.closed \/ r.failed + 1 < Attempts THEN [r EXCEPT !.failed = @ + 1]
  ELSE IF Stops(d.destroyed) THEN Stopped(d, c)
  ELSE IF d.destroyed % PinDestroyedIn = 0 THEN Delayed(d, c)
  ELSE ToShow(Drawn(d), r.drawn + 1, c)

\* Mutant: no code is drawn after the delay.
RedrawnNever(r) == [r EXCEPT !.timer = "none"]
\* redrawAfterDelay.
Redrawn(r) == IF r.closed \/ r.paired THEN [r EXCEPT !.timer = "none"]
              ELSE ToShow(Drawn([r EXCEPT !.timer = "none"]), r.drawn + 1, Timer)

\* show: unless a later change is on screen.
Shown(r, s) ==
  IF s.n <= r.last THEN [r EXCEPT !.shows = @ \ {s}]
  ELSE [r EXCEPT !.shows = @ \ {s}, !.last = s.n, !.onScreen = s.code]

-----------------------------------------------------------------------------
(* The goroutines of a PIN, and time.                                      *)

Expire(p) ==
  /\ pin[p].valid /\ ~pin[p].expired
  /\ pin' = [pin EXCEPT ![p].expired = TRUE]
  /\ UNCHANGED <<shown, demand, conn, user>>

TimerFires(p) ==
  /\ pin[p].timer = "set"
  /\ pin' = [pin EXCEPT ![p].timer = "fired"]
  /\ UNCHANGED <<shown, demand, conn, user>>

Redraw(p) ==
  /\ pin[p].timer = "fired"
  /\ pin' = [pin EXCEPT ![p] = Redrawn(@)]
  /\ UNCHANGED <<shown, demand, conn, user>>

\* The call of Show; then the connection that made the change is refused.
Show(p) ==
  /\ \E s \in pin[p].shows :
       /\ pin' = [pin EXCEPT ![p] = Shown(@, s)]
       /\ conn' = [c \in Conns |-> IF s.by = c THEN NoConn ELSE conn[c]]
  /\ UNCHANGED <<shown, demand, user>>

-----------------------------------------------------------------------------
(* acceptPIN, on a connection whose first message is pair_pin or           *)
(* pair_pin_wanted.                                                        *)

Ends(c) == conn' = [conn EXCEPT ![c] = NoConn]
Goes(c, to, p) == conn' = [conn EXCEPT ![c].at = to, ![c].pin = p]

\* The PIN on screen, if it is live, is taken under s.mu.
Accept(c) ==
  /\ conn[c].at = "idle"
  /\ \E at \in {"pin", "wanted"} :
       conn' = [conn EXCEPT ![c].at = at, ![c].shown = IF Live(shown) THEN shown ELSE None]
  /\ UNCHANGED <<pin, shown, demand, user>>

\* pair_pin: the PIN on screen, or the one asked for on another connection.
PicksPIN(c) ==
  /\ conn[c].at = "pin"
  /\ LET p == IF conn[c].shown # None THEN conn[c].shown
              ELSE IF Live(demand.pin) THEN demand.pin ELSE None
     IN IF p = None THEN Ends(c) ELSE Goes(c, "typed", p)
  /\ UNCHANGED <<pin, shown, demand, user>>

\* pair_pin_wanted: the PIN on screen, or PINOnDemand.Get.
GetsPIN(c) ==
  /\ conn[c].at = "wanted"
  /\ \/ /\ conn[c].shown # None
        /\ Goes(c, "got", conn[c].shown) /\ UNCHANGED <<pin, demand>>
     \/ /\ conn[c].shown = None /\ demand.stopped
        /\ Ends(c) /\ UNCHANGED <<pin, demand>>
     \/ /\ conn[c].shown = None /\ ~demand.stopped
        /\ HasStopped(demand.pin)
        /\ demand' = [demand EXCEPT !.stopped = TRUE]
        /\ Ends(c) /\ UNCHANGED pin
     \/ /\ conn[c].shown = None /\ ~demand.stopped /\ Live(demand.pin)
        /\ Goes(c, "got", demand.pin) /\ UNCHANGED <<pin, demand>>
     \/ /\ conn[c].shown = None /\ ~demand.stopped /\ ~Live(demand.pin)
        /\ ~HasStopped(demand.pin)
        /\ \E p \in PINs :
             /\ pin[p].drawn = 0
             /\ pin' = [CloseThat(demand.pin) EXCEPT ![p] = Made]
             /\ demand' = [demand EXCEPT !.pin = p]
             /\ Goes(c, "got", p)
  /\ UNCHANGED <<shown, user>>

\* pair_pin_ready; a PIN used, expired or closed is not announced.
Announces(c) ==
  /\ conn[c].at = "got"
  /\ IF Live(conn[c].pin) THEN Goes(c, "ready", conn[c].pin) ELSE Ends(c)
  /\ UNCHANGED <<pin, shown, demand, user>>

\* The PIN is typed on this connection, or the connection ends (ErrNoPINTyped).
Types(c) ==
  /\ conn[c].at = "ready"
  /\ Goes(c, "typed", conn[c].pin) \/ Ends(c)
  /\ UNCHANGED <<pin, shown, demand, user>>

\* respondPIN: an attempt on the PIN's code, or on a decoy.
Begins(c) ==
  LET p == conn[c].pin IN
  /\ conn[c].at = "typed"
  /\ conn' = [conn EXCEPT ![c].at = "answered", ![c].counted = MayBegin(pin[p])]
  /\ pin' = IF MayBegin(pin[p]) THEN [pin EXCEPT ![p] = Begun(@)] ELSE pin
  /\ UNCHANGED <<shown, demand, user>>

\* The peer confirms with the right code, or not; or it is gone.
Confirmed(c) ==
  /\ conn[c].at = "answered" /\ conn[c].counted
  /\ pin' = [pin EXCEPT ![conn[c].pin] = Used(@)]
  /\ conn' = [conn EXCEPT ![c].at = "paired"]
  /\ UNCHANGED <<shown, demand, user>>

Refused(c) ==
  /\ conn[c].at = "answered"
  /\ IF conn[c].counted
       THEN LET r == Failed(pin[conn[c].pin], c) IN
            /\ pin' = [pin EXCEPT ![conn[c].pin] = r]
            /\ IF r.changes = pin[conn[c].pin].changes THEN Ends(c) ELSE Goes(c, "shows", conn[c].pin)
       ELSE Ends(c) /\ UNCHANGED pin
  /\ UNCHANGED <<shown, demand, user>>

\* demand.Close, unless the PIN on screen paired; then pair_accept.
ClosesDemand(c) ==
  /\ conn[c].at = "paired"
  /\ IF conn[c].shown # None THEN UNCHANGED <<pin, demand>>
     ELSE pin' = CloseThat(demand.pin) /\ demand' = [demand EXCEPT !.pin = None]
  /\ Ends(c)
  /\ UNCHANGED <<shown, user>>

-----------------------------------------------------------------------------
(* The user.                                                               *)

\* handlePairPINShow: a new PIN, which takes the place of the last one; then
\* PINOnDemand.Reset; then the last one is closed.
ShowsPIN ==
  /\ user.at = "idle"
  /\ \E p \in PINs :
       /\ pin[p].drawn = 0
       /\ pin' = [pin EXCEPT ![p] = Made]
       /\ shown' = p /\ user' = [at |-> "resets", old |-> shown]
  /\ UNCHANGED <<demand, conn>>

Resets ==
  /\ user.at = "resets"
  /\ pin' = CloseThat(demand.pin)
  /\ demand' = [pin |-> None, stopped |-> FALSE]
  /\ user' = [user EXCEPT !.at = "closes"]
  /\ UNCHANGED <<shown, conn>>

ClosesOld ==
  /\ user.at = "closes"
  /\ pin' = CloseThat(user.old)
  /\ user' = [at |-> "idle", old |-> None]
  /\ UNCHANGED <<shown, demand, conn>>

\* handlePINRefuse: PINOnDemand.Close.
RefusesPIN ==
  /\ demand.pin # None
  /\ pin' = CloseThat(demand.pin)
  /\ demand' = [demand EXCEPT !.pin = None]
  /\ UNCHANGED <<shown, conn, user>>

-----------------------------------------------------------------------------
Init ==
  /\ pin = [p \in PINs |-> Unmade]
  /\ shown = None
  /\ demand = [pin |-> None, stopped |-> FALSE]
  /\ conn = [c \in Conns |-> NoConn]
  /\ user = [at |-> "idle", old |-> None]

PINStep(p) == Expire(p) \/ TimerFires(p) \/ Redraw(p) \/ Show(p)
ConnStep(c) == \/ Accept(c) \/ PicksPIN(c) \/ GetsPIN(c) \/ Announces(c) \/ Types(c)
               \/ Begins(c) \/ Confirmed(c) \/ Refused(c) \/ ClosesDemand(c)
UserStep == ShowsPIN \/ Resets \/ ClosesOld \/ RefusesPIN

Next == (\E p \in PINs : PINStep(p)) \/ (\E c \in Conns : ConnStep(c)) \/ UserStep

Spec == Init /\ [][Next]_vars

\* Timers fire and goroutines go on; nobody has to connect, type or confirm.
Fairness == \A p \in PINs : WF_vars(TimerFires(p)) /\ WF_vars(Redraw(p)) /\ WF_vars(Show(p))
FairSpec == Spec /\ Fairness

-----------------------------------------------------------------------------
(* Properties.                                                             *)

PinRecord ==
  [drawn : Nat, valid : BOOLEAN, expired : BOOLEAN, reserved : Nat, failed : Nat, destroyed : Nat,
   timer : {"none", "set", "fired"}, paired : BOOLEAN, closed : BOOLEAN, stopped : BOOLEAN,
   changes : Nat, shows : SUBSET [n : Nat, code : Nat, by : Conns \cup {Timer}], last : Nat, onScreen : Nat,
   tested : Nat, pairings : Nat]

PINOrNone == PINs \cup {None}

ConnRecord == [at : {"idle", "pin", "wanted", "got", "ready", "typed", "answered", "shows", "paired"},
               shown : PINOrNone, pin : PINOrNone, counted : BOOLEAN]

TypeOK ==
  /\ pin \in [PINs -> PinRecord]
  /\ shown \in PINOrNone
  /\ demand \in [pin : PINOrNone, stopped : BOOLEAN]
  /\ conn \in [Conns -> ConnRecord]
  /\ user \in [at : {"idle", "resets", "closes"}, old : PINOrNone]
  /\ \A c \in Conns : conn[c].at \in {"got", "ready", "typed", "answered", "shows", "paired"} => conn[c].pin # None

\* PAIR-04 and #105: over its whole life, whatever the connections do at once, a
\* PIN answers at most Attempts guesses per code and draws at most three codes a
\* series (begin, end, redrawAfterDelay).
GuessesBounded ==
  \A p \in PINs : /\ pin[p].drawn <= PinDestroyedIn * MaxSeries
                  /\ pin[p].tested <= Attempts * pin[p].drawn

\* An attempt's outcome counts for the code it tested: no code replaces one that
\* an attempt in flight has (begin, end).
InFlight(p) == {c \in Conns : conn[c].at = "answered" /\ conn[c].counted /\ conn[c].pin = p}
AttemptsAreOnThisCode ==
  \A p \in PINs : /\ Cardinality(InFlight(p)) + pin[p].failed + pin[p].pairings = pin[p].reserved
                  /\ pin[p].timer # "none" /\ ~pin[p].closed => InFlight(p) = {}

\* A delay ends with a new code on screen, unless the PIN paired (a device that did
\* not wait for the screen) or was closed meanwhile (end, redrawAfterDelay, show).
DelayEnds ==
  \A p \in PINs : pin[p].timer = "set" ~>
                    \/ pin[p].valid /\ pin[p].onScreen = pin[p].drawn
                    \/ pin[p].paired \/ pin[p].closed
=============================================================================
