--------------------------- MODULE TopologyPaths ---------------------------
(***************************************************************************)
(* Topology::shortest_path as a program: extend_shortest_path relaxes the  *)
(* distance matrix in place, cell by cell, and sweeps over it until a      *)
(* sweep changes nothing.  The routing tables are read off the result.     *)
(* (The matrices of latencies and of intermediate switches that the loop   *)
(* also fills are never read.)                                             *)
(***************************************************************************)
EXTENDS Integers, FiniteSetsExt

CONSTANTS
  NumNodes,          \* number of rows of the matrix
  LinkWeights,       \* the weights a link may have
  INFINITE_LATENCY   \* the weight of a link that is not there

Switches == 0 .. NumNodes - 1

ASSUME TopologyAssumption ==
  /\ NumNodes \in Nat \ {0}
  /\ LinkWeights \subseteq Nat \ {0}
  /\ INFINITE_LATENCY \in Nat
  /\ \A w \in LinkWeights : NumNodes * w < INFINITE_LATENCY

VARIABLES
  weights,  \* topology_weights: the links, given
  dist,     \* current_dist
  cell,     \* the cell <<i, j>> the sweep is at
  change,   \* this sweep has changed a cell
  done      \* a sweep has changed nothing

pathVars == <<weights, dist, cell, change, done>>

\* createLinks sets each direction on its own: a link may be one-way, as those
\* of the endpoints are, or weigh more in one direction than in the other.  A
\* node is at distance 0 of itself.
Topologies ==
  { w \in [Switches \X Switches -> LinkWeights \union {0, INFINITE_LATENCY}] :
      \A i, j \in Switches : w[<<i, j>>] = 0 <=> i = j }

\* The matrix that createLinks fills from the links, before the first sweep.
PathsInit ==
  /\ dist = weights
  /\ cell = <<0, 0>>
  /\ change = FALSE
  /\ done = FALSE

\* The least of the cell and of the ways through every node k.
Shortest(i, j) ==
  Min({dist[<<i, j>>]} \union { dist[<<i, k>>] + dist[<<k, j>>] : k \in Switches })

LastCell == <<NumNodes - 1, NumNodes - 1>>

NextCell(c) == IF c[2] + 1 < NumNodes THEN <<c[1], c[2] + 1>> ELSE <<c[1] + 1, 0>>

\* Mutant of SweepOver: one sweep is all.
SweepOverOnce(changed) ==
  /\ cell' = <<0, 0>>
  /\ change' = FALSE
  /\ done' = TRUE

\* The end of the body of the while loop.
SweepOver(changed) ==
  /\ cell' = <<0, 0>>
  /\ change' = FALSE
  /\ done' = ~changed

\* Mutant of Relax: the sweep is repeated whether or not a cell changed.
RelaxAlways ==
  /\ ~done
  /\ dist' = [dist EXCEPT ![cell] = Shortest(cell[1], cell[2])]
  /\ IF cell = LastCell
     THEN SweepOver(TRUE)
     ELSE /\ cell' = NextCell(cell)
          /\ change' = TRUE
          /\ UNCHANGED done
  /\ UNCHANGED weights

\* One cell; the matrix is changed in place, later cells see it.
Relax ==
  /\ ~done
  /\ \E minimum \in {Shortest(cell[1], cell[2])} :
       \E changed \in {change \/ minimum # dist[cell]} :
         /\ dist' = [dist EXCEPT ![cell] = minimum]
         /\ IF cell = LastCell
            THEN SweepOver(changed)
            ELSE /\ cell' = NextCell(cell)
                 /\ change' = changed
                 /\ UNCHANGED done
  /\ UNCHANGED weights

\* Mutant of shortest_path_to_node: the weight of the way back is taken.
DestinationsTransposed(src, next) ==
  { d \in Switches : weights[<<next, src>>] + dist[<<next, d>>] = dist[<<src, d>>] }

\* The destinations in the routing table entry of the link from src to next.
shortest_path_to_node(src, next) ==
  { d \in Switches : weights[<<src, next>>] + dist[<<next, d>>] = dist[<<src, d>>] }

IsLink(i, j) == weights[<<i, j>>] > 0 /\ weights[<<i, j>>] # INFINITE_LATENCY

-----------------------------------------------------------------------------
(***************************************************************************)
(* When the loop ends, the matrix holds the shortest distances: no link    *)
(* shortens a cell, and a finite cell is reached through some first link   *)
(* (extend_shortest_path).  The two facts together determine the matrix.   *)
(***************************************************************************)
EndsShortest ==
  done => \A i, j \in Switches :
            /\ dist[<<i, i>>] = 0
            /\ \A k \in Switches : dist[<<i, j>>] <= weights[<<i, k>>] + dist[<<k, j>>]
            /\ i # j /\ dist[<<i, j>>] < INFINITE_LATENCY =>
                 \E k \in Switches \ {i} : dist[<<i, j>>] = weights[<<i, k>>] + dist[<<k, j>>]

(***************************************************************************)
(* The routing tables lead to every node that can be reached, and never in *)
(* a circle: a link that a table offers towards d leads strictly nearer to *)
(* d (shortest_path_to_node on the finished matrix).                       *)
(***************************************************************************)
TablesLead ==
  done => \A i, d \in Switches :
            i # d /\ dist[<<i, d>>] < INFINITE_LATENCY =>
              /\ \E k \in Switches : IsLink(i, k) /\ d \in shortest_path_to_node(i, k)
              /\ \A k \in Switches :
                   IsLink(i, k) /\ d \in shortest_path_to_node(i, k)
                     => dist[<<k, d>>] < dist[<<i, d>>]
=============================================================================
