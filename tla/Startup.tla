------------------------------ MODULE Startup ------------------------------
(***************************************************************************)
(* How a network with --spin comes up: the constructor of GarnetNetwork    *)
(* reads the drain path, and only when it has accepted the file does       *)
(* init() create the links, whose routing tables come from the shortest    *)
(* paths.                                                                  *)
(***************************************************************************)
EXTENDS SpinRingReader, TopologyPaths

CONSTANT Setups   \* the networks considered: [file, weights]

ASSUME SetupAssumption ==
  \A s \in Setups :
    /\ s.file \in [tokens : Seq(STRING), newline : BOOLEAN]
    /\ s.weights \in Topologies

vars == <<readerVars, pathVars>>

Init ==
  /\ \E s \in Setups : file = s.file /\ weights = s.weights
  /\ ReaderInit
  /\ PathsInit

\* GarnetNetwork::GarnetNetwork
Construct == (ReadEntry \/ CloseRing) /\ UNCHANGED pathVars

\* GarnetNetwork::init
CreateLinks == status = "ok" /\ Relax /\ UNCHANGED readerVars

Next == Construct \/ CreateLinks

\* Both are straight-line code of one thread.
Spec == Init /\ [][Next]_vars /\ WF_vars(Next)

(***************************************************************************)
(* Every start comes to an end: the reader reaches a verdict although the  *)
(* only exit of its loop is eof(), and with an accepted path some sweep of *)
(* extend_shortest_path changes nothing, so that the network comes up.     *)
(***************************************************************************)
EveryStartEnds == <>(status \in {"fatal", "throw", "assert"} \/ done)
=============================================================================
