---------------------------- MODULE PacketRoute ----------------------------
(***************************************************************************)
(* Packets on their way through the mesh.  At each router outportCompute   *)
(* picks a direction and m_outports_dirn2idx turns it into an output port. *)
(* A direction the router has no port for is not in that map, and the      *)
(* lookup then yields 0: the first output port, which leads to the first   *)
(* network interface of the router.                                        *)
(*                                                                         *)
(* A packet that holds a VC of one link and finds none of the next waits   *)
(* for the packet that holds it.  The module follows such a chain of       *)
(* waiting packets too: one that comes back to the link it started from is *)
(* a routing deadlock, the thing DRAIN is there to remove.                 *)
(***************************************************************************)
EXTENDS RoutingUnit

CONSTANT MaxFree   \* the most free VCs a port is seen to have

\* A link is named by the router it leaves and the side it leaves it on.
Links == { c \in Routers \X Sides : HasPort(c[1], c[2]) }
NoLink == <<-1, "none">>

\* The router at the far end of link c.
EndOf(c) == Neighbour(c[1], c[2])

VARIABLES
  algorithm,  \* m_routing_algorithm of the network
  held,       \* the link whose VC the packet holds at the router it leads to
  dest,       \* route.dest_router of the packet
  ejected,    \* it has left through a local port
  start,      \* the link the chain of packets started from, if routing led there
  more        \* the chain has gone on from that link

vars == <<algorithm, held, dest, ejected, start, more>>

at == EndOf(held)

\* The directions a packet for d may take at r, whatever VCs are free.
Routes(r, d) ==
  IF r = d THEN {}
  ELSE UNION { outportCompute(algorithm, r, d, free) : free \in [Sides -> 0 .. MaxFree] }

\* Packets for d may come over link c.
Sends(c, d) == c[2] \in Routes(c[1], d)

\* A packet may be on any link: a drain takes it where the path leads.
Init ==
  /\ algorithm \in Selected
  /\ held \in Links
  /\ dest \in Routers
  /\ ejected = FALSE
  /\ start = IF Sends(held, dest) THEN held ELSE NoLink
  /\ more = FALSE

Eject ==
  /\ ~ejected
  /\ at = dest
  /\ ejected' = TRUE
  /\ UNCHANGED <<algorithm, held, dest, start, more>>

\* The packet leaves through the output port that m_outports_dirn2idx names for
\* the direction.
Forward ==
  /\ ~ejected
  /\ \E dir \in Routes(at, dest) :
       IF HasPort(at, dir)
       THEN held' = <<at, dir>> /\ UNCHANGED ejected
       ELSE ejected' = TRUE /\ UNCHANGED held
  /\ more' = TRUE
  /\ UNCHANGED <<algorithm, dest, start>>

\* The packet waits for a VC of the next link; the one that holds it, a packet
\* for d, is the next of the chain.
WaitFor ==
  /\ ~ejected
  /\ \E dir \in Routes(at, dest) :
       /\ HasPort(at, dir)
       /\ held' = <<at, dir>>
       /\ dest' \in { d \in Routers : Sends(<<at, dir>>, d) }
  /\ more' = TRUE
  /\ UNCHANGED <<algorithm, ejected, start>>

Next == Eject \/ Forward \/ WaitFor

Spec == Init /\ [][Next]_vars

-----------------------------------------------------------------------------
Distance(r, d) == Abs(X(r) - X(d)) + Abs(Y(r) - Y(d))

(***************************************************************************)
(* In a whole mesh every algorithm is minimal, also from a router where a  *)
(* drain left the packet: each hop takes it one link nearer to its         *)
(* destination, whatever VCs are free and random() returns (the            *)
(* outportCompute functions).  So every packet that moves arrives.         *)
(***************************************************************************)
EveryHopNearer ==
  [][held' # held /\ dest' = dest => Distance(at', dest) = Distance(at, dest) - 1]_vars

(***************************************************************************)
(* In a whole mesh a packet leaves the network at its destination only: no *)
(* algorithm asks for a port that the router does not have.                *)
(***************************************************************************)
EjectsAtDestination == ejected => at = dest

(***************************************************************************)
(* No chain of waiting packets closes under the algorithms that restrict   *)
(* their turns, nor under table routing when vertical links weigh more: as *)
(* long as packets are only where routing sends them there is no deadlock, *)
(* and only a drain can make one (route_compute, with the link weights of  *)
(* Mesh_XY).                                                               *)
(***************************************************************************)
NoWaitCycle ==
  algorithm \in {"TABLE_", "XY_", "WestFirst_", "ADAPT_WestFirst_"} /\ more /\ ~ejected
    => held # start
=============================================================================
