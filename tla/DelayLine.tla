----------------------------- MODULE DelayLine -----------------------------
(***************************************************************************)
(* What a link promises, and what DrainNetwork and DrainControl take it    *)
(* for: an item that is sent arrives exactly Delay cycles later, none is   *)
(* lost, and two never arrive in one cycle.  An early line may deliver an  *)
(* item one cycle sooner, past no other.                                   *)
(***************************************************************************)
EXTENDS Integers

CONSTANTS Items, Delay

Underway == [item : Items, due : 0 .. Delay]

VARIABLES
  early,   \* whether items may come a cycle early
  pipe     \* the items under way, with the cycles until they are due

Init == early \in BOOLEAN /\ pipe = {}

Delays == IF early THEN {Delay - 1, Delay} ELSE {Delay}

\* An item is sent behind all the others.
Send(i, d) ==
  /\ \A x \in pipe : x.item # i /\ x.due < d
  /\ pipe' = pipe \cup {[item |-> i, due |-> d]}

Arrive(x) ==
  /\ x.due = 0
  /\ pipe' = pipe \ {x}

\* No cycle ends before what is due in it has arrived.
Tick ==
  /\ \A x \in pipe : x.due > 0
  /\ pipe' = { [x EXCEPT !.due = @ - 1] : x \in pipe }

Next ==
  /\ \/ \E i \in Items, d \in Delays : Send(i, d)
     \/ \E x \in pipe : Arrive(x)
     \/ Tick
  /\ UNCHANGED early

Spec == Init /\ [][Next]_<<early, pipe>>
=============================================================================
