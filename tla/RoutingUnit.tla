---------------------------- MODULE RoutingUnit ----------------------------
(***************************************************************************)
(* The routing algorithms of RoutingUnit.cc as operators: the directions   *)
(* in which a packet for router d may leave router r.  A set has more than *)
(* one element where the code calls random(); the free VCs that the        *)
(* adaptive algorithms compare are a parameter.                            *)
(***************************************************************************)
EXTENDS Integers

CONSTANTS
  NumRows,     \* rows of the mesh
  NumCols,     \* columns of the mesh
  Cut,         \* the output ports <<router, side>> that the mesh lacks
  XWeight,     \* m_weight of the East and West links
  YWeight,     \* m_weight of the North and South links
  Selected     \* the routing algorithms considered

Algorithms ==
  {"TABLE_", "XY_", "RANDOM_", "ADAPT_RAND_", "WestFirst_", "ADAPT_WestFirst_"}

ASSUME RoutingAssumption ==
  /\ NumRows \in Nat \ {0}
  /\ NumCols \in Nat \ {0}
  /\ XWeight \in Nat \ {0}
  /\ YWeight \in Nat \ {0}
  /\ Selected \subseteq Algorithms
  /\ "TABLE_" \in Selected => Cut = {}

Routers == 0 .. NumRows * NumCols - 1

Sides == {"North", "East", "South", "West"}

X(r) == r % NumCols
Y(r) == r \div NumCols

\* The router that the output port of r on side dir leads to.
Neighbour(r, dir) ==
  CASE dir = "East"  -> r + 1
    [] dir = "West"  -> r - 1
    [] dir = "North" -> r + NumCols
    [] dir = "South" -> r - NumCols

InMesh(r, dir) ==
  CASE dir = "East"  -> X(r) + 1 < NumCols
    [] dir = "West"  -> X(r) > 0
    [] dir = "North" -> Y(r) + 1 < NumRows
    [] dir = "South" -> Y(r) > 0

HasPort(r, dir) == InMesh(r, dir) /\ <<r, dir>> \notin Cut

WeightOf(dir) == IF dir \in {"East", "West"} THEN XWeight ELSE YWeight

-----------------------------------------------------------------------------
(***************************************************************************)
(* TABLE_, in a whole mesh: the weight of a shortest path is what the rows *)
(* and the columns between two routers weigh, and the routing table entry  *)
(* of a link holds the destinations it starts a shortest path to.          *)
(* (MeshRing has the tables of irregular meshes, TopologyPaths the code    *)
(* that computes the weights.)                                             *)
(***************************************************************************)
Abs(n) == IF n < 0 THEN -n ELSE n

Dist(r, d) == XWeight * Abs(X(r) - X(d)) + YWeight * Abs(Y(r) - Y(d))

m_routing_table(r, dir) ==
  { d \in Routers \ {r} : WeightOf(dir) + Dist(Neighbour(r, dir), d) = Dist(r, d) }

\* The links of least weight among those that lead to d.
Candidates(r, d) ==
  LET links == { dir \in Sides : HasPort(r, dir) /\ d \in m_routing_table(r, dir) }
  IN  { dir \in links : \A other \in links : WeightOf(dir) <= WeightOf(other) }

\* Output ports are numbered in the order of the routers they lead to.
PortOrder(dir) ==
  CASE dir = "South" -> 1 [] dir = "West" -> 2 [] dir = "East" -> 3 [] dir = "North" -> 4

\* The first candidate with the most free VCs.
lookupRoutingTable(r, d, free) ==
  { dir \in Candidates(r, d) :
      \A other \in Candidates(r, d) \ {dir} :
        \/ free[dir] > free[other]
        \/ free[dir] = free[other] /\ PortOrder(dir) < PortOrder(other) }

-----------------------------------------------------------------------------
(***************************************************************************)
(* The algorithms that compute the direction from the coordinates.         *)
(***************************************************************************)
\* Mutant of TowardsX: the test is the wrong way round.
TowardsXFlipped(r, d) == IF X(d) <= X(r) THEN "East" ELSE "West"

\* Mutant of TowardsX: the column of the destination is taken from its row.
TowardsXByRow(r, d) == IF d % NumRows >= X(r) THEN "East" ELSE "West"

TowardsX(r, d) == IF X(d) >= X(r) THEN "East" ELSE "West"

TowardsY(r, d) == IF Y(d) >= Y(r) THEN "North" ELSE "South"

outportComputeXY(r, d) ==
  IF X(d) # X(r) THEN {TowardsX(r, d)} ELSE {TowardsY(r, d)}

outportComputeRandom(r, d) ==
  IF X(d) = X(r) THEN {TowardsY(r, d)}
  ELSE IF Y(d) = Y(r) THEN {TowardsX(r, d)}
  ELSE {TowardsX(r, d), TowardsY(r, d)}

\* The side with more free VCs, either one when they have as many.
MoreFree(dirs, free) == { dir \in dirs : \A other \in dirs : free[dir] >= free[other] }

outportComputeAdaptRand(r, d, free) == MoreFree(outportComputeRandom(r, d), free)

\* Mutant of outportComputeWestFirst: the west is left like any other side.
outportComputeAnyFirst(r, d) == outportComputeRandom(r, d)

outportComputeWestFirst(r, d) ==
  IF X(d) = X(r) THEN {TowardsY(r, d)}
  ELSE IF Y(d) = Y(r) THEN {TowardsX(r, d)}
  ELSE IF X(d) < X(r) THEN {"West"}
  ELSE {"East", TowardsY(r, d)}

outportComputeAdaptWestFirst(r, d, free) == MoreFree(outportComputeWestFirst(r, d), free)

\* The directions of the next hop of a packet for d at another router r.
outportCompute(algorithm, r, d, free) ==
  CASE algorithm = "TABLE_"           -> lookupRoutingTable(r, d, free)
    [] algorithm = "XY_"              -> outportComputeXY(r, d)
    [] algorithm = "RANDOM_"          -> outportComputeRandom(r, d)
    [] algorithm = "ADAPT_RAND_"      -> outportComputeAdaptRand(r, d, free)
    [] algorithm = "WestFirst_"       -> outportComputeWestFirst(r, d)
    [] algorithm = "ADAPT_WestFirst_" -> outportComputeAdaptWestFirst(r, d, free)
=============================================================================
