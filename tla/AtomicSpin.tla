----------------------------- MODULE AtomicSpin -----------------------------
(***************************************************************************)
(* What one GarnetNetwork::doSpin promises for one VC of the drain path:   *)
(* in a single step every flit moves one port further along the path, and  *)
(* every output VC upstream of a port is ACTIVE with one credit less       *)
(* exactly when the port holds a flit afterwards.  Between spins flits     *)
(* arrive at ports and leave them.                                         *)
(***************************************************************************)
EXTENDS Integers

CONSTANTS
  N,         \* ports on the drain path
  BufDepth,  \* credits of an output VC whose input VC is empty
  Flits,     \* the flits
  NoFlit     \* nullptr

ASSUME SpinAssumption ==
  /\ N \in Nat \ {0}
  /\ BufDepth \in Nat \ {0}
  /\ NoFlit \notin Flits

Ports  == 0 .. N - 1
Slot   == Flits \cup {NoFlit}
Before(p) == IF p = 0 THEN N - 1 ELSE p - 1

VARIABLES
  flitAt,  \* the flit in the input VC of every port of the path
  outvc    \* OutVcState of the output VC upstream of every port

\* State and credits of an output VC whose input VC holds `f`, links being quiet.
OutVcFor(f) ==
  IF f = NoFlit
  THEN [state |-> "IDLE", credits |-> BufDepth]
  ELSE [state |-> "ACTIVE", credits |-> BufDepth - 1]

Init ==
  /\ flitAt = [p \in Ports |-> NoFlit]
  /\ outvc = [p \in Ports |-> OutVcFor(NoFlit)]

Arrive(p, f) ==
  /\ flitAt[p] = NoFlit
  /\ \A q \in Ports : flitAt[q] # f
  /\ flitAt' = [flitAt EXCEPT ![p] = f]
  /\ outvc' = [outvc EXCEPT ![p] = OutVcFor(f)]

Depart(p) ==
  /\ flitAt[p] # NoFlit
  /\ flitAt' = [flitAt EXCEPT ![p] = NoFlit]
  /\ outvc' = [outvc EXCEPT ![p] = OutVcFor(NoFlit)]

Spin ==
  /\ flitAt' = [p \in Ports |-> flitAt[Before(p)]]
  /\ outvc' = [p \in Ports |-> OutVcFor(flitAt[Before(p)])]

Next ==
  \/ \E p \in Ports : Depart(p) \/ \E f \in Flits : Arrive(p, f)
  \/ Spin

Spec == Init /\ [][Next]_<<flitAt, outvc>>
=============================================================================
