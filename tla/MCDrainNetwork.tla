--------------------------- MODULE MCDrainNetwork ---------------------------
(***************************************************************************)
(* Small meshes, drain paths and traffic for TLC.                          *)
(***************************************************************************)
EXTENDS DrainNetwork

CONSTANTS p1, p2, p3, p4   \* packets

\* Two routers in a row: the drain path goes back and forth.
LineRing == << <<1, "West">> >>

\* A full 2 x 2 mesh: once around each way, joined by a U-turn at router 0.
SquareRing == << <<1, "West">>, <<3, "South">>, <<2, "East">>, <<0, "North">>,
                 <<2, "South">>, <<3, "West">>, <<1, "North">> >>

\* Two routers: packets 0 -> 1 that follow each other and one that meets them.
ThreePackets == {p1, p2, p3}
LineSource == [p \in Packets |-> IF p = p3 THEN 1 ELSE 0]
LineDest   == [p \in Packets |-> IF p = p3 THEN 0 ELSE 1]

\* One packet from every corner to the opposite one: enough for a cyclic wait.
FourPackets == {p1, p2, p3, p4}
CornerOf(p) == CASE p = p1 -> 0 [] p = p2 -> 1 [] p = p3 -> 3 [] p = p4 -> 2
DiagSource == [p \in FourPackets |-> CornerOf(p)]
DiagDest   == [p \in FourPackets |-> 3 - CornerOf(p)]

AnyOrder   == [x \in Consumers |-> 0]
RoutersAnyOrder == [x \in Consumers |-> IF x[2] = "ni" THEN x[1] ELSE 10]
EveryPhase == 0 .. SpinThreshold - 1

OneVnet    == [p \in Packets |-> 0]
TwoVnets   == [p \in Packets |-> IF p = p4 THEN 1 ELSE 0]
=============================================================================
