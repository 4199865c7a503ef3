----------------------------- MODULE MCStartup -----------------------------
(***************************************************************************)
(* Files of up to two entries, whole and cut off, with and without a final *)
(* newline, over the router ids 0 .. 3, a direction in either case and a   *)
(* word that is none; topologies of four switches (links in pairs of every *)
(* weight, one-way links in every pattern, a ring whose links weigh more   *)
(* in one direction); and a file the repository ships, as the drain path   *)
(* that MeshRing makes of it.                                              *)
(***************************************************************************)
EXTENDS Startup, TLC

MCLetters == "N" :> "North" @@ "e" :> "East"

MCNumbers == "0" :> 0 @@ "1" :> 1 @@ "2" :> 2 @@ "3" :> 3

Tokens == {"0", "1", "2", "3", "N", "e", "up"}

Files ==
  { [tokens |-> t, newline |-> n] :
      t \in UNION { [1 .. k -> Tokens] : k \in 0 .. 4 }, n \in BOOLEAN }

\* A file that is accepted, and a topology: four switches in a square.
GoodFile == [tokens |-> <<"3", "N", "1", "e">>, newline |-> FALSE]

Matrix(Weight(_, _)) ==
  [ij \in Switches \X Switches |-> IF ij[1] = ij[2] THEN 0 ELSE Weight(ij[1], ij[2])]

Square == Matrix(LAMBDA i, j : IF i + j = 3 THEN INFINITE_LATENCY ELSE 1)

Ways     == { ij \in Switches \X Switches : ij[1] # ij[2] }
BothWays == { ij \in Ways : ij[1] < ij[2] }
SideWays == { ij \in Ways : ij[1] + ij[2] # 3 }

\* Links in both directions, of the same weight.
Paired ==
  { Matrix(LAMBDA i, j : IF i < j THEN w[<<i, j>>] ELSE w[<<j, i>>]) :
      w \in [BothWays -> LinkWeights \union {INFINITE_LATENCY}] }

\* One-way links.
OneWay == { Matrix(LAMBDA i, j : w[<<i, j>>]) : w \in [Ways -> {1, INFINITE_LATENCY}] }

\* The square, with a weight for each direction.
Uneven ==
  { Matrix(LAMBDA i, j : IF i + j = 3 THEN INFINITE_LATENCY ELSE w[<<i, j>>]) :
      w \in [SideWays -> LinkWeights] }

MCSetups ==
  [file : Files, weights : {Square}]
    \union [file : {GoodFile}, weights : Paired \union OneWay \union Uneven]

-----------------------------------------------------------------------------
\* spin_configs/SR_16_nodes-connectivity_matrix_0-links_removed_0.txt
ShippedRing == <<
  <<1, "West">>, <<0, "East">>, <<4, "South">>, <<5, "West">>,
  <<1, "North">>, <<2, "West">>, <<1, "East">>, <<5, "South">>,
  <<4, "East">>, <<8, "South">>, <<9, "West">>, <<5, "North">>,
  <<6, "West">>, <<2, "North">>, <<3, "West">>, <<2, "East">>,
  <<6, "South">>, <<5, "East">>, <<9, "South">>, <<8, "East">>,
  <<12, "South">>, <<13, "West">>, <<9, "North">>, <<10, "West">>,
  <<6, "North">>, <<7, "West">>, <<3, "North">>, <<7, "South">>,
  <<6, "East">>, <<10, "South">>, <<9, "East">>, <<13, "South">>,
  <<14, "West">>, <<10, "North">>, <<11, "West">>, <<7, "North">>,
  <<11, "South">>, <<10, "East">>, <<14, "South">>, <<15, "West">>,
  <<11, "North">>, <<15, "South">>, <<14, "East">>, <<13, "East">>,
  <<12, "East">>, <<8, "North">>, <<4, "North">> >>

Shipped == INSTANCE MeshRing WITH NumRows <- 4, NumCols <- 4, RingFile <- ShippedRing

\* The drain path the repository ships for a 4 x 4 mesh is what doSpin relies on.
ASSUME ShippedPathAssumption ==
  /\ Shipped!RingCloses
  /\ Shipped!RingVisitsOnce
  /\ Shipped!RingFollowsLinks
  /\ Shipped!UpstreamIsDriver
  /\ Shipped!LinksPaired
=============================================================================
