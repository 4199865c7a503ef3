-------------------------- MODULE PacketRouteProofs --------------------------
(***************************************************************************)
(* The routing algorithms in a mesh of any size: they are minimal and ask  *)
(* for no port that is missing, and those that restrict their turns close  *)
(* no cycle of waiting packets.                                            *)
(***************************************************************************)
EXTENDS PacketRoute, TLAPS

\* The directions that bring a packet at r nearer to d.
Productive(r, d) ==
  { dir \in Sides : \/ dir = "East"  /\ X(d) > X(r)
                    \/ dir = "West"  /\ X(d) < X(r)
                    \/ dir = "North" /\ Y(d) > Y(r)
                    \/ dir = "South" /\ Y(d) < Y(r) }

-----------------------------------------------------------------------------
\* A router is its column and its row.
LEMMA Coordinates ==
  ASSUME NEW r \in Routers
  PROVE  /\ X(r) \in 0 .. NumCols - 1 /\ Y(r) \in 0 .. NumRows - 1
         /\ r = NumCols * Y(r) + X(r)
<1>1. NumCols \in Nat \ {0} /\ NumRows \in Nat \ {0}
  BY RoutingAssumption
<1>2. r \in Nat /\ r < NumRows * NumCols
  BY <1>1 DEF Routers
<1> DEFINE x == r % NumCols
           y == r \div NumCols
<1>3. /\ x \in Nat /\ x < NumCols /\ y \in Int /\ r = NumCols * y + x
  BY <1>1, <1>2
<1> HIDE DEF x, y
<1>4. y >= 0
  BY <1>1, <1>2, <1>3
<1>5. y < NumRows
  <2> SUFFICES ASSUME y >= NumRows PROVE FALSE
    BY <1>1, <1>3
  <2>1. NumCols * y >= NumCols * NumRows
    BY <1>1, <1>3
  <2> QED
    BY <1>1, <1>2, <1>3, <2>1
<1> QED
  BY <1>1, <1>3, <1>4, <1>5 DEF X, Y, x, y

\* And a column and a row are a router.
LEMMA RouterAt ==
  ASSUME NEW x \in 0 .. NumCols - 1, NEW y \in 0 .. NumRows - 1
  PROVE  /\ NumCols * y + x \in Routers
         /\ X(NumCols * y + x) = x /\ Y(NumCols * y + x) = y
<1>1. NumCols \in Nat \ {0} /\ NumRows \in Nat \ {0} /\ x \in Nat /\ y \in Nat
  BY RoutingAssumption
<1>2. NumCols * y + x \in Nat
  BY <1>1
<1>3. NumCols * y <= NumCols * (NumRows - 1)
  BY <1>1
<1>4. NumCols * y + x < NumRows * NumCols
  BY <1>1, <1>3
<1>5. NumCols * y + x \in Routers
  BY <1>1, <1>2, <1>4 DEF Routers
<1>6. (NumCols * y + x) % NumCols = x /\ (NumCols * y + x) \div NumCols = y
  BY <1>1
<1> QED
  BY <1>5, <1>6 DEF X, Y

\* The router at the other end of an output port.
LEMMA NeighbourAt ==
  ASSUME NEW r \in Routers, NEW dir \in Sides, InMesh(r, dir)
  PROVE  LET n == Neighbour(r, dir)
         IN  /\ n \in Routers
             /\ X(n) = CASE dir = "East" -> X(r) + 1 [] dir = "West" -> X(r) - 1 [] OTHER -> X(r)
             /\ Y(n) = CASE dir = "North" -> Y(r) + 1 [] dir = "South" -> Y(r) - 1 [] OTHER -> Y(r)
<1>1. NumCols \in Nat \ {0} /\ NumRows \in Nat \ {0}
  BY RoutingAssumption
<1>2. /\ X(r) \in 0 .. NumCols - 1 /\ Y(r) \in 0 .. NumRows - 1
      /\ r = NumCols * Y(r) + X(r)
  BY Coordinates
<1>3. CASE dir = "East"
  <2>1. X(r) + 1 \in 0 .. NumCols - 1 /\ Neighbour(r, dir) = NumCols * Y(r) + (X(r) + 1)
    BY <1>1, <1>2, <1>3 DEF InMesh, Neighbour
  <2> QED
    BY <1>2, <1>3, <2>1, RouterAt
<1>4. CASE dir = "West"
  <2>1. X(r) - 1 \in 0 .. NumCols - 1 /\ Neighbour(r, dir) = NumCols * Y(r) + (X(r) - 1)
    BY <1>1, <1>2, <1>4 DEF InMesh, Neighbour
  <2> QED
    BY <1>2, <1>4, <2>1, RouterAt
<1>5. CASE dir = "North"
  <2>1. Y(r) + 1 \in 0 .. NumRows - 1 /\ Neighbour(r, dir) = NumCols * (Y(r) + 1) + X(r)
    BY <1>1, <1>2, <1>5 DEF InMesh, Neighbour
  <2> QED
    BY <1>2, <1>5, <2>1, RouterAt
<1>6. CASE dir = "South"
  <2>1. Y(r) - 1 \in 0 .. NumRows - 1 /\ Neighbour(r, dir) = NumCols * (Y(r) - 1) + X(r)
    BY <1>1, <1>2, <1>6 DEF InMesh, Neighbour
  <2> QED
    BY <1>2, <1>6, <2>1, RouterAt
<1> QED
  BY <1>3, <1>4, <1>5, <1>6 DEF Sides

\* A productive direction stays in the mesh.
LEMMA ProductiveInMesh ==
  ASSUME NEW r \in Routers, NEW d \in Routers, NEW dir \in Productive(r, d)
  PROVE  dir \in Sides /\ InMesh(r, dir)
<1>1. /\ X(r) \in 0 .. NumCols - 1 /\ Y(r) \in 0 .. NumRows - 1
      /\ X(d) \in 0 .. NumCols - 1 /\ Y(d) \in 0 .. NumRows - 1
      /\ NumCols \in Nat /\ NumRows \in Nat
  BY Coordinates, RoutingAssumption
<1>2. dir \in Sides
  BY DEF Productive
<1>3. CASE dir = "East"
  BY <1>1, <1>3 DEF Productive, InMesh
<1>4. CASE dir = "West"
  BY <1>1, <1>4 DEF Productive, InMesh
<1>5. CASE dir = "North"
  BY <1>1, <1>5 DEF Productive, InMesh
<1>6. CASE dir = "South"
  BY <1>1, <1>6 DEF Productive, InMesh
<1> QED
  BY <1>2, <1>3, <1>4, <1>5, <1>6 DEF Sides

\* Two routers in one column and one row are the same.
LEMMA SameRouter ==
  ASSUME NEW r \in Routers, NEW d \in Routers, X(r) = X(d), Y(r) = Y(d)
  PROVE  r = d
  BY Coordinates

\* The routing table of a link holds the destinations it is productive for.
LEMMA TableIsProductive ==
  ASSUME NEW r \in Routers, NEW d \in Routers, r # d, NEW dir \in Sides, InMesh(r, dir)
  PROVE  d \in m_routing_table(r, dir) <=> dir \in Productive(r, d)
<1> DEFINE n == Neighbour(r, dir)
           dx == Abs(X(r) - X(d))
           dy == Abs(Y(r) - Y(d))
           ex == Abs(X(n) - X(d))
           ey == Abs(Y(n) - Y(d))
<1>1. /\ XWeight \in Nat \ {0} /\ YWeight \in Nat \ {0}
      /\ X(r) \in Int /\ Y(r) \in Int /\ X(d) \in Int /\ Y(d) \in Int
  BY RoutingAssumption, Coordinates
<1>2. /\ X(n) = CASE dir = "East" -> X(r) + 1 [] dir = "West" -> X(r) - 1 [] OTHER -> X(r)
      /\ Y(n) = CASE dir = "North" -> Y(r) + 1 [] dir = "South" -> Y(r) - 1 [] OTHER -> Y(r)
  BY NeighbourAt
<1>3. d \in m_routing_table(r, dir) <=>
        WeightOf(dir) + (XWeight * ex + YWeight * ey) = XWeight * dx + YWeight * dy
  BY DEF m_routing_table, Dist
<1> HIDE DEF n
<1>4. dx \in Nat /\ dy \in Nat /\ ex \in Nat /\ ey \in Nat
  BY <1>1, <1>2 DEF Abs, Sides
<1>5. CASE dir \in {"East", "West"}
  <2>1. ey = dy /\ (dir \in Productive(r, d) <=> ex = dx - 1)
    BY <1>1, <1>2, <1>5 DEF Abs, Productive, Sides
  <2>2. WeightOf(dir) = XWeight
    BY <1>5 DEF WeightOf
  <2> HIDE DEF dx, dy, ex, ey
  <2>3. XWeight * (ex + 1) = XWeight * dx <=> ex + 1 = dx
    BY <1>1, <1>4
  <2>4. XWeight * (ex + 1) = XWeight + XWeight * ex
    BY <1>1, <1>4
  <2>5. XWeight * ex \in Int /\ XWeight * dx \in Int /\ YWeight * dy \in Int
    BY <1>1, <1>4
  <2> QED
    BY <1>1, <1>3, <1>4, <2>1, <2>2, <2>3, <2>4, <2>5
<1>6. CASE dir \in {"North", "South"}
  <2>1. ex = dx /\ (dir \in Productive(r, d) <=> ey = dy - 1)
    BY <1>1, <1>2, <1>6 DEF Abs, Productive, Sides
  <2>2. WeightOf(dir) = YWeight
    BY <1>6 DEF WeightOf
  <2> HIDE DEF dx, dy, ex, ey
  <2>3. YWeight * (ey + 1) = YWeight * dy <=> ey + 1 = dy
    BY <1>1, <1>4
  <2>4. YWeight * (ey + 1) = YWeight + YWeight * ey
    BY <1>1, <1>4
  <2>5. YWeight * ey \in Int /\ YWeight * dy \in Int /\ XWeight * dx \in Int
    BY <1>1, <1>4
  <2> QED
    BY <1>1, <1>3, <1>4, <2>1, <2>2, <2>3, <2>4, <2>5
<1> QED
  BY <1>5, <1>6 DEF Sides

-----------------------------------------------------------------------------
\* The coordinate algorithms take productive directions.
LEMMA CoordinatesProductive ==
  ASSUME NEW r \in Routers, NEW d \in Routers, r # d
  PROVE  /\ outportComputeXY(r, d) \subseteq Productive(r, d)
         /\ outportComputeRandom(r, d) \subseteq Productive(r, d)
         /\ outportComputeWestFirst(r, d) \subseteq Productive(r, d)
         /\ outportComputeXY(r, d) \subseteq outportComputeWestFirst(r, d)
<1>1. /\ X(r) \in Int /\ Y(r) \in Int /\ X(d) \in Int /\ Y(d) \in Int
      /\ X(r) = X(d) => Y(r) # Y(d)
  BY Coordinates, SameRouter
<1>2. X(d) # X(r) => TowardsX(r, d) \in Productive(r, d)
  BY <1>1 DEF TowardsX, Productive, Sides
<1>3. Y(d) # Y(r) => TowardsY(r, d) \in Productive(r, d)
  BY <1>1 DEF TowardsY, Productive, Sides
<1>4. /\ X(d) < X(r) => TowardsX(r, d) = "West"
      /\ X(d) > X(r) => TowardsX(r, d) = "East"
  BY <1>1 DEF TowardsX
<1>5. outportComputeXY(r, d) \subseteq Productive(r, d)
  BY <1>1, <1>2, <1>3 DEF outportComputeXY
<1>6. outportComputeRandom(r, d) \subseteq Productive(r, d)
  BY <1>1, <1>2, <1>3 DEF outportComputeRandom
<1>7. outportComputeWestFirst(r, d) \subseteq Productive(r, d)
  BY <1>1, <1>2, <1>3, <1>4 DEF outportComputeWestFirst
<1>8. outportComputeXY(r, d) \subseteq outportComputeWestFirst(r, d)
  BY <1>1, <1>4 DEF outportComputeXY, outportComputeWestFirst
<1> QED
  BY <1>5, <1>6, <1>7, <1>8

\* So does the table, among the links of least weight.
LEMMA CandidatesProductive ==
  ASSUME NEW r \in Routers, NEW d \in Routers, r # d
  PROVE  Candidates(r, d) \subseteq Productive(r, d)
<1> SUFFICES ASSUME NEW dir \in Candidates(r, d) PROVE dir \in Productive(r, d)
  OBVIOUS
<1>1. dir \in Sides /\ InMesh(r, dir) /\ d \in m_routing_table(r, dir)
  BY DEF Candidates, HasPort
<1> QED
  BY <1>1, TableIsProductive

\* Every algorithm is minimal.
LEMMA RoutesProductive ==
  ASSUME NEW r \in Routers, NEW d \in Routers, algorithm \in Algorithms
  PROVE  Routes(r, d) \subseteq Productive(r, d)
<1> SUFFICES ASSUME NEW dir \in Routes(r, d) PROVE dir \in Productive(r, d)
  OBVIOUS
<1>1. PICK free \in [Sides -> 0 .. MaxFree] :
        r # d /\ dir \in outportCompute(algorithm, r, d, free)
  BY DEF Routes
<1>2. CASE algorithm = "TABLE_"
  <2>1. dir \in Candidates(r, d)
    BY <1>1, <1>2 DEF outportCompute, lookupRoutingTable
  <2> QED
    BY <1>1, <2>1, CandidatesProductive
<1>3. CASE algorithm = "XY_"
  BY <1>1, <1>3, CoordinatesProductive DEF outportCompute
<1>4. CASE algorithm = "RANDOM_"
  BY <1>1, <1>4, CoordinatesProductive DEF outportCompute
<1>5. CASE algorithm = "ADAPT_RAND_"
  BY <1>1, <1>5, CoordinatesProductive DEF outportCompute, outportComputeAdaptRand, MoreFree
<1>6. CASE algorithm = "WestFirst_"
  BY <1>1, <1>6, CoordinatesProductive DEF outportCompute
<1>7. CASE algorithm = "ADAPT_WestFirst_"
  BY <1>1, <1>7, CoordinatesProductive DEF outportCompute, outportComputeAdaptWestFirst, MoreFree
<1> QED
  BY <1>2, <1>3, <1>4, <1>5, <1>6, <1>7 DEF Algorithms

\* A productive hop takes a packet one link nearer.
LEMMA ProductiveNearer ==
  ASSUME NEW r \in Routers, NEW d \in Routers, NEW dir \in Productive(r, d)
  PROVE  Distance(Neighbour(r, dir), d) = Distance(r, d) - 1
<1> DEFINE n == Neighbour(r, dir)
<1>1. dir \in Sides /\ InMesh(r, dir)
  BY ProductiveInMesh
<1>2. /\ X(n) = CASE dir = "East" -> X(r) + 1 [] dir = "West" -> X(r) - 1 [] OTHER -> X(r)
      /\ Y(n) = CASE dir = "North" -> Y(r) + 1 [] dir = "South" -> Y(r) - 1 [] OTHER -> Y(r)
  BY <1>1, NeighbourAt
<1>3. /\ X(r) \in Int /\ Y(r) \in Int /\ X(d) \in Int /\ Y(d) \in Int
  BY Coordinates
<1> HIDE DEF n
<1>4. Distance(n, d) = Distance(r, d) - 1
  BY <1>1, <1>2, <1>3 DEF Distance, Abs, Productive, Sides
<1> QED
  BY <1>4 DEF n

-----------------------------------------------------------------------------
\* Where a packet may be: on a link of the mesh.
RouteTyped ==
  /\ algorithm \in Selected
  /\ held \in Links
  /\ dest \in Routers
  /\ ejected \in BOOLEAN
  /\ more \in BOOLEAN

LEMMA LinkEnds ==
  ASSUME NEW c \in Links
  PROVE  /\ c = <<c[1], c[2]>> /\ c[1] \in Routers /\ c[2] \in Sides
         /\ InMesh(c[1], c[2]) /\ EndOf(c) \in Routers
<1>1. c = <<c[1], c[2]>> /\ c[1] \in Routers /\ c[2] \in Sides /\ InMesh(c[1], c[2])
  BY DEF Links, HasPort
<1> QED
  BY <1>1, NeighbourAt DEF EndOf

\* Steps that move the packet or the chain use a port that is there.
LEMMA RouteTypedNext ==
  ASSUME RouteTyped, [Next]_vars
  PROVE  RouteTyped'
<1>1. at \in Routers
  BY LinkEnds DEF RouteTyped, at
<1>2. \A dir \in Sides : HasPort(at, dir) => <<at, dir>> \in Links
  BY <1>1 DEF Links
<1>3. algorithm \in Algorithms
  BY RoutingAssumption DEF RouteTyped
<1>4. Routes(at, dest) \subseteq Sides
  BY <1>1, <1>3, RoutesProductive DEF RouteTyped, Productive
<1>5. CASE Eject
  BY <1>5 DEF Eject, RouteTyped
<1>6. CASE Forward
  BY <1>2, <1>4, <1>6 DEF Forward, RouteTyped
<1>7. CASE WaitFor
  BY <1>2, <1>4, <1>7 DEF WaitFor, RouteTyped
<1>8. CASE UNCHANGED vars
  BY <1>8 DEF vars, RouteTyped
<1> QED
  BY <1>5, <1>6, <1>7, <1>8 DEF Next

LEMMA RouteTypedInit == Init => RouteTyped
  BY DEF Init, RouteTyped

\* In a whole mesh the next hop of a packet is a link and one nearer.
LEMMA NextHop ==
  ASSUME Cut = {}, RouteTyped, NEW dir \in Routes(at, dest)
  PROVE  HasPort(at, dir) /\ Distance(Neighbour(at, dir), dest) = Distance(at, dest) - 1
<1>1. at \in Routers /\ dest \in Routers /\ algorithm \in Algorithms
  BY LinkEnds, RoutingAssumption DEF RouteTyped, at
<1>2. dir \in Productive(at, dest)
  BY <1>1, RoutesProductive
<1> QED
  BY <1>1, <1>2, ProductiveInMesh, ProductiveNearer DEF HasPort

\* In a whole mesh of any size no packet leaves the network anywhere but at its
\* destination: no outportCompute function asks for a port that is missing in
\* m_outports_dirn2idx.
THEOREM RoutedToDestination ==
  ASSUME Cut = {}
  PROVE  Spec => []EjectsAtDestination
<1> DEFINE Inv == RouteTyped /\ EjectsAtDestination
<1>1. Init => Inv
  BY RouteTypedInit DEF Init, EjectsAtDestination
<1>2. Inv /\ [Next]_vars => Inv'
  <2> SUFFICES ASSUME RouteTyped, EjectsAtDestination, [Next]_vars
               PROVE  EjectsAtDestination'
    BY RouteTypedNext
  <2>1. CASE Eject
    BY <2>1 DEF Eject, EjectsAtDestination, at
  <2>2. CASE Forward
    BY <2>2, NextHop DEF Forward, EjectsAtDestination
  <2>3. CASE WaitFor
    BY <2>3 DEF WaitFor, EjectsAtDestination
  <2>4. CASE UNCHANGED vars
    BY <2>4 DEF vars, EjectsAtDestination, at
  <2> QED
    BY <2>1, <2>2, <2>3, <2>4 DEF Next
<1> QED
  BY <1>1, <1>2, PTL DEF Spec

\* In a whole mesh of any size every algorithm is minimal, whatever VCs are free
\* and random() returns, and from wherever a drain left the packet.
THEOREM RoutesMinimal ==
  ASSUME Cut = {}
  PROVE  Spec => EveryHopNearer
<1>1. Init => RouteTyped
  BY RouteTypedInit
<1>2. RouteTyped /\ [Next]_vars => RouteTyped'
  BY RouteTypedNext
<1>3. RouteTyped /\ [Next]_vars
        => [held' # held /\ dest' = dest => Distance(at', dest) = Distance(at, dest) - 1]_vars
  <2> SUFFICES ASSUME RouteTyped, Next, held' # held
               PROVE  Distance(at', dest) = Distance(at, dest) - 1
    OBVIOUS
  <2>1. PICK dir \in Routes(at, dest) : held' = <<at, dir>>
    BY DEF Next, Eject, Forward, WaitFor
  <2>2. at' = Neighbour(at, dir)
    BY <2>1 DEF at, EndOf
  <2> QED
    BY <2>1, <2>2, NextHop
<1> QED
  BY <1>1, <1>2, <1>3, PTL DEF Spec, EveryHopNearer

-----------------------------------------------------------------------------
Restricted == {"TABLE_", "XY_", "WestFirst_", "ADAPT_WestFirst_"}

(***************************************************************************)
(* The order of the links in which packets may wait for each other: first  *)
(* those to the west, then column by column from west to east, and in a    *)
(* column the vertical links before the one to the east.                   *)
(***************************************************************************)
Col(c) == IF c[2] = "West" THEN -1 - X(c[1]) ELSE X(c[1])
Row(c) == CASE c[2] = "West"  -> 0
            [] c[2] = "East"  -> NumRows
            [] c[2] = "North" -> Y(c[1])
            [] c[2] = "South" -> -Y(c[1])

Ahead(c, e) == Col(c) < Col(e) \/ (Col(c) = Col(e) /\ Row(c) < Row(e))

LEMMA AheadTyped ==
  ASSUME NEW c \in Links
  PROVE  Col(c) \in Int /\ Row(c) \in Int
<1>1. X(c[1]) \in Int /\ Y(c[1]) \in Int /\ NumRows \in Int /\ c[2] \in Sides
  BY LinkEnds, Coordinates, RoutingAssumption
<1> QED
  BY <1>1 DEF Col, Row, Sides

LEMMA AheadOrder ==
  ASSUME NEW c \in Links, NEW e \in Links, NEW f \in Links
  PROVE  ~Ahead(c, c) /\ (Ahead(c, e) /\ Ahead(e, f) => Ahead(c, f))
  BY AheadTyped DEF Ahead

\* Table routing in a mesh whose vertical links weigh more is XY routing.
LEMMA TableIsXY ==
  ASSUME NEW r \in Routers, NEW d \in Routers, r # d, Cut = {}, XWeight < YWeight
  PROVE  Candidates(r, d) \subseteq outportComputeXY(r, d)
<1> SUFFICES ASSUME NEW dir \in Candidates(r, d) PROVE dir \in outportComputeXY(r, d)
  OBVIOUS
<1>1. dir \in Productive(r, d) /\ dir \in Sides
  BY CandidatesProductive DEF Productive
<1>2. /\ X(r) \in Int /\ Y(r) \in Int /\ X(d) \in Int /\ Y(d) \in Int
      /\ XWeight \in Nat /\ YWeight \in Nat
  BY Coordinates, RoutingAssumption
<1>3. CASE X(d) = X(r)
  BY <1>1, <1>2, <1>3 DEF Productive, outportComputeXY, TowardsY
<1>4. CASE X(d) # X(r)
  <2> DEFINE e == TowardsX(r, d)
  <2>1. e \in Productive(r, d) /\ e \in {"East", "West"}
    BY <1>4, CoordinatesProductive DEF outportComputeXY, TowardsX
  <2>2. e \in Sides /\ InMesh(r, e)
    BY <2>1, ProductiveInMesh
  <2>3. HasPort(r, e) /\ d \in m_routing_table(r, e)
    BY <2>1, <2>2, TableIsProductive DEF HasPort
  <2>4. WeightOf(dir) <= WeightOf(e) /\ WeightOf(e) = XWeight
    BY <2>1, <2>2, <2>3 DEF Candidates, WeightOf
  <2>5. dir \in {"East", "West"}
    BY <1>1, <1>2, <2>4 DEF WeightOf, Sides
  <2>6. dir = e
    BY <1>1, <1>2, <2>5 DEF Productive, TowardsX
  <2> QED
    BY <1>4, <2>6 DEF outportComputeXY
<1> QED
  BY <1>3, <1>4

\* Every restricted algorithm takes a direction that west-first routing may take.
LEMMA RestrictedRoutes ==
  ASSUME NEW r \in Routers, NEW d \in Routers, algorithm \in Restricted, algorithm \in Selected,
         "TABLE_" \in Selected => XWeight < YWeight, NEW dir \in Routes(r, d)
  PROVE  r # d /\ dir \in outportComputeWestFirst(r, d)
<1>1. PICK free \in [Sides -> 0 .. MaxFree] :
        r # d /\ dir \in outportCompute(algorithm, r, d, free)
  BY DEF Routes
<1>2. CASE algorithm = "TABLE_"
  <2>1. dir \in Candidates(r, d)
    BY <1>1, <1>2 DEF outportCompute, lookupRoutingTable
  <2>2. Cut = {} /\ XWeight < YWeight
    BY <1>2, RoutingAssumption
  <2> QED
    BY <1>1, <2>1, <2>2, TableIsXY, CoordinatesProductive
<1>3. CASE algorithm = "XY_"
  BY <1>1, <1>3, CoordinatesProductive DEF outportCompute
<1>4. CASE algorithm = "WestFirst_"
  BY <1>1, <1>4 DEF outportCompute
<1>5. CASE algorithm = "ADAPT_WestFirst_"
  BY <1>1, <1>5 DEF outportCompute, outportComputeAdaptWestFirst, MoreFree
<1> QED
  BY <1>1, <1>2, <1>3, <1>4, <1>5 DEF Restricted

\* A packet that came over link c waits for a link ahead of c.
LEMMA WaitsAhead ==
  ASSUME algorithm \in Restricted, algorithm \in Selected, "TABLE_" \in Selected => XWeight < YWeight,
         NEW c \in Links, NEW d \in Routers, Sends(c, d),
         NEW dir \in Routes(EndOf(c), d)
  PROVE  Ahead(c, <<EndOf(c), dir>>)
<1> DEFINE r == c[1]
           n == EndOf(c)
           from == c[2]
<1>1. r \in Routers /\ from \in Sides /\ InMesh(r, from) /\ n \in Routers /\ n = Neighbour(r, from)
  BY LinkEnds DEF EndOf
<1>2. from \in outportComputeWestFirst(r, d) /\ dir \in outportComputeWestFirst(n, d)
  BY <1>1, RestrictedRoutes DEF Sends
<1>3. from \in Productive(r, d) /\ dir \in Productive(n, d)
  BY <1>1, <1>2, RestrictedRoutes, CoordinatesProductive DEF Sends
<1>4. /\ X(n) = CASE from = "East" -> X(r) + 1 [] from = "West" -> X(r) - 1 [] OTHER -> X(r)
      /\ Y(n) = CASE from = "North" -> Y(r) + 1 [] from = "South" -> Y(r) - 1 [] OTHER -> Y(r)
  BY <1>1, NeighbourAt
<1>5. /\ X(r) \in 0 .. NumCols - 1 /\ Y(r) \in 0 .. NumRows - 1
      /\ X(d) \in 0 .. NumCols - 1 /\ Y(d) \in 0 .. NumRows - 1
      /\ NumCols \in Nat /\ NumRows \in Nat
  BY <1>1, Coordinates, RoutingAssumption
<1>6. dir = "West" => from = "West"
  <2>1. dir = "West" => X(d) < X(n)
    BY <1>3 DEF Productive
  <2>2. from = "East" => X(d) > X(r)
    BY <1>3 DEF Productive
  <2>3. from \in {"North", "South"} => X(d) >= X(r)
    BY <1>2, <1>3, <1>5 DEF outportComputeWestFirst, TowardsX, Productive
  <2> QED
    BY <1>1, <1>4, <1>5, <2>1, <2>2, <2>3 DEF Sides
<1>7. ~(from = "North" /\ dir = "South") /\ ~(from = "South" /\ dir = "North")
  BY <1>3, <1>4, <1>5 DEF Productive
<1>8. dir \in Sides /\ <<n, dir>>[1] = n /\ <<n, dir>>[2] = dir
  BY <1>3 DEF Productive
<1> HIDE DEF n
<1>9. Ahead(c, <<n, dir>>)
  <2> DEFINE e == <<n, dir>>
  <2>0. /\ X(n) \in 0 .. NumCols - 1
        /\ Col(c) = IF from = "West" THEN -1 - X(r) ELSE X(r)
        /\ Col(e) = IF dir = "West" THEN -1 - X(n) ELSE X(n)
    BY <1>1, <1>8, Coordinates DEF Col
  <2>1. CASE from = "West"
    <3>1. X(n) = X(r) - 1 /\ Col(c) = -1 - X(r)
      BY <1>4, <2>0, <2>1
    <3>2. Col(c) < Col(e)
      BY <1>5, <2>0, <3>1
    <3> QED
      BY <3>2 DEF Ahead
  <2>2. CASE from = "East"
    <3>1. X(n) = X(r) + 1 /\ Col(c) = X(r) /\ Col(e) = X(n)
      BY <1>4, <1>6, <2>0, <2>2
    <3>2. Col(c) < Col(e)
      BY <1>5, <3>1
    <3> QED
      BY <3>2 DEF Ahead
  <2>3. CASE from = "North"
    BY <1>4, <1>5, <1>6, <1>7, <1>8, <2>3 DEF Ahead, Col, Row, Sides
  <2>4. CASE from = "South"
    BY <1>4, <1>5, <1>6, <1>7, <1>8, <2>4 DEF Ahead, Col, Row, Sides
  <2> QED
    BY <1>1, <2>1, <2>2, <2>3, <2>4 DEF Sides
<1> QED
  BY <1>9 DEF n

(***************************************************************************)
(* A chain that routing started has gone along the order of the links, and *)
(* its last packet came over the link it holds.                            *)
(***************************************************************************)
ChainInv ==
  /\ start # NoLink =>
       /\ start \in Links
       /\ ~ejected => Sends(held, dest)
       /\ ~more => held = start
  /\ start # NoLink /\ algorithm \in Restricted /\ more /\ ~ejected => Ahead(start, held)

LEMMA ChainInit == Init => ChainInv
  BY DEF Init, ChainInv

LEMMA ChainNext ==
  ASSUME "TABLE_" \in Selected => XWeight < YWeight, RouteTyped, ChainInv, [Next]_vars
  PROVE  ChainInv'
<1>1. CASE Eject
  BY <1>1 DEF Eject, ChainInv, Sends, Routes
<1>2. CASE UNCHANGED vars
  BY <1>2 DEF vars, ChainInv, Sends, Routes
<1>3. CASE Forward /\ ejected'
  BY <1>3 DEF Forward, ChainInv
<1>4. CASE (Forward /\ ~ejected') \/ WaitFor
  <2>1. PICK dir \in Routes(at, dest) :
          /\ HasPort(at, dir) /\ held' = <<at, dir>>
          /\ dest' = dest \/ Sends(<<at, dir>>, dest')
    BY <1>4 DEF Forward, WaitFor
  <2>2. ~ejected /\ more' = TRUE /\ start' = start /\ algorithm' = algorithm
    BY <1>4 DEF Forward, WaitFor
  <2>3. Sends(<<at, dir>>, dest')
    BY <2>1 DEF Sends
  <2>4. Sends(held, dest)' <=> Sends(held', dest')
    BY <2>2 DEF Sends, Routes
  <2>5. held' \in Links
    BY RouteTypedNext DEF RouteTyped
  <2>6. ASSUME start # NoLink, algorithm \in Restricted PROVE Ahead(start, held')
    <3>1. Ahead(held, held')
      BY <2>1, <2>2, <2>6, WaitsAhead DEF ChainInv, RouteTyped, at
    <3>2. CASE more
      BY <2>2, <2>5, <2>6, <3>1, <3>2, AheadOrder DEF ChainInv, RouteTyped
    <3>3. CASE ~more
      BY <2>6, <3>1, <3>3 DEF ChainInv
    <3> QED
      BY <3>2, <3>3
  <2> QED
    BY <2>1, <2>2, <2>3, <2>4, <2>6 DEF ChainInv
<1> QED
  BY <1>1, <1>2, <1>3, <1>4 DEF Next

\* Packets that are only where XY_, WestFirst_ or ADAPT_WestFirst_ sends them
\* never wait for each other in a cycle, in a mesh of any size, whole or cut;
\* nor do packets of the table when, as in Mesh_XY, the vertical links weigh
\* more than the horizontal ones.  Only a drain brings packets into a cycle.
THEOREM RoutingDeadlockFree ==
  ASSUME "TABLE_" \in Selected => XWeight < YWeight
  PROVE  Spec => []NoWaitCycle
<1> DEFINE Inv == RouteTyped /\ ChainInv
<1>1. Init => Inv
  BY RouteTypedInit, ChainInit
<1>2. Inv /\ [Next]_vars => Inv'
  BY RouteTypedNext, ChainNext
<1>3. Inv => NoWaitCycle
  <2>1. NoLink \notin Links
    BY RoutingAssumption DEF NoLink, Links, Routers
  <2> QED
    BY <2>1, AheadOrder DEF NoWaitCycle, ChainInv, RouteTyped, Restricted
<1> QED
  BY <1>1, <1>2, <1>3, PTL DEF Spec
=============================================================================
