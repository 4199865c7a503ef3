------------------------------ MODULE MeshRing ------------------------------
(***************************************************************************)
(* The geometry DRAIN relies on: router ids of a (possibly irregular) mesh,*)
(* the ports between neighbouring routers, the drain path that             *)
(* GarnetNetwork::init_spinRing reads from a spin-ring file, and the       *)
(* output ports the routing table offers towards a destination.            *)
(*                                                                         *)
(* A port is a pair <<router, side>>.  The input port <<v, "West">> is the *)
(* far end of the link that leaves v's western neighbour through its East  *)
(* output port, so one pair names the whole link: the output unit that     *)
(* feeds it, the wires, and the input unit it ends in.                     *)
(***************************************************************************)
EXTENDS Integers, Sequences, SequencesExt

CONSTANTS
  NumRows,   \* m_num_rows of the mesh
  NumCols,   \* m_num_cols of the mesh
  RingFile   \* the lines of the spin-ring file, as <<router id, side>> pairs

Routers == 0 .. NumRows * NumCols - 1

Sides == {"North", "East", "South", "West"}

(***************************************************************************)
(* The router next to `id` on side `dir`.  The code uses it both ways:     *)
(* for the router upstream of an input port and for the router an output   *)
(* port leads to.                                                          *)
(***************************************************************************)
get_upstreamId(dir, id) ==
  CASE dir = "East"  -> id + 1
    [] dir = "West"  -> id - 1
    [] dir = "North" -> id + NumCols
    [] dir = "South" -> id - NumCols
    [] dir = "Local" -> id

get_upstreamOutportDirn(dir) ==
  CASE dir = "East"  -> "West"
    [] dir = "West"  -> "East"
    [] dir = "North" -> "South"
    [] dir = "South" -> "North"

(***************************************************************************)
(* The entry the file leaves out: the drain path starts and ends at router *)
(* 0, on the side that faces the last router of the file.  (The code       *)
(* compares with m_num_rows because m_num_cols is not set yet.)            *)
(***************************************************************************)
FirstNode == IF Last(RingFile)[1] = 1 THEN <<0, "East">> ELSE <<0, "North">>

\* Otherwise the constructor stops the simulation.
RingCloses == Last(RingFile)[1] \in {1, NumRows}

init_spinRing == <<FirstNode>> \o RingFile

SpinRing == init_spinRing

RingSize == Len(SpinRing)

\* The input ports that face another router: the ones the drain path visits.
RingPorts == { SpinRing[i] : i \in 1 .. RingSize }

\* The output port of router r on side dir, named by the link it drives.
OutChan(r, dir) ==
  IF dir = "Local"
  THEN <<r, "Eject">>
  ELSE <<get_upstreamId(dir, r), get_upstreamOutportDirn(dir)>>

OutSides(r) == { dir \in Sides : OutChan(r, dir) \in RingPorts }

(***************************************************************************)
(* What a spin-ring file must satisfy for doSpin's bookkeeping: the path   *)
(* visits every port between routers once, each hop follows a link, and    *)
(* the upstream router and output port that doSpin computes for an input   *)
(* port are the ones that drive it.                                        *)
(***************************************************************************)
RingTyped == RingFile \in Seq(Routers \X Sides) /\ RingFile # <<>>

RingVisitsOnce == \A i, j \in 1 .. RingSize : SpinRing[i] = SpinRing[j] => i = j

RingFollowsLinks ==
  \A i \in 1 .. RingSize :
    LET next == SpinRing[(i % RingSize) + 1]
    IN  get_upstreamId(next[2], next[1]) = SpinRing[i][1]

UpstreamIsDriver ==
  \A c \in RingPorts :
    /\ get_upstreamId(c[2], c[1]) \in Routers
    /\ OutChan(get_upstreamId(c[2], c[1]), get_upstreamOutportDirn(c[2])) = c

\* Links are built in pairs, one in each direction.
LinksPaired ==
  \A c \in RingPorts :
    <<get_upstreamId(c[2], c[1]), get_upstreamOutportDirn(c[2])>> \in RingPorts

ASSUME MeshAssumption ==
  /\ NumRows \in Nat \ {0}
  /\ NumCols \in Nat \ {0}
  /\ RingTyped
  /\ RingCloses
  /\ RingVisitsOnce
  /\ RingFollowsLinks
  /\ UpstreamIsDriver
  /\ LinksPaired

-----------------------------------------------------------------------------
(***************************************************************************)
(* Hop counts: Within[n] relates the routers at most n hops apart.  Every  *)
(* mesh link has weight 1, so the least weight is the least hop count.     *)
(***************************************************************************)
Within[n \in 0 .. NumRows * NumCols] ==
  IF n = 0
  THEN { <<r, r>> : r \in Routers }
  ELSE LET w == Within[n - 1]
       IN  w \cup { rd \in Routers \X Routers :
                      \E dir \in OutSides(rd[1]) : <<get_upstreamId(dir, rd[1]), rd[2]>> \in w }

Hops ==
  [rd \in Routers \X Routers |->
     CHOOSE n \in 0 .. NumRows * NumCols :
       /\ rd \in Within[n]
       /\ n > 0 => rd \notin Within[n - 1]]

\* The routing table entry of output port dir of router r: it contains d when
\* the port's link starts a shortest path to d.
shortest_path_to_node(r, dir, d) ==
  /\ r # d
  /\ Hops[<<get_upstreamId(dir, r), d>>] + 1 = Hops[<<r, d>>]

(***************************************************************************)
(* The output ports a packet for router d may take at router r: the        *)
(* minimum-weight candidates of the routing table.  Which of them the code *)
(* takes depends on the free output VCs (TABLE_) or on random() (RANDOM_); *)
(* here it may be any.                                                     *)
(***************************************************************************)
lookupRoutingTable ==
  [rd \in Routers \X Routers |->
     { dir \in OutSides(rd[1]) : shortest_path_to_node(rd[1], dir, rd[2]) }]

route_compute(r, d) == IF r = d THEN {"Local"} ELSE lookupRoutingTable[<<r, d>>]
=============================================================================
