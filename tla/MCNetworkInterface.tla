------------------------- MODULE MCNetworkInterface -------------------------
(***************************************************************************)
(* Workloads of NetworkInterface.  The vnets have two VCs each, and the    *)
(* first is ordered.                                                       *)
(***************************************************************************)
EXTENDS NetworkInterface

CONSTANTS e1, e2, e3

TwoVnets == {0, 1}
EjectVcs == {e1, e2, e3}
EjectVnet == [v \in EjectVcs |-> IF v = e3 THEN 1 ELSE 0]

\* Both vnets eject while other work keeps the interface busy.
Ejecting == [eject |-> EjectVcs, busy |-> TRUE, locks |-> 0, messages |-> <<>>,
             inj_single_vnet |-> FALSE, ni_inj |-> "rr"]

\* Multicast messages that find too few VCs and are served in parts.
Multicasts ==
  [eject |-> {}, busy |-> FALSE, locks |-> 1, inj_single_vnet |-> FALSE, ni_inj |-> "rr",
   messages |-> << [vnet |-> 1, dests |-> {1}], [vnet |-> 0, dests |-> {1, 2}],
                   [vnet |-> 1, dests |-> {1}], [vnet |-> 0, dests |-> {2, 3}] >>]

\* Messages of both vnets compete for the VCs of vnet 0 while flits arrive.
SingleVnet ==
  [eject |-> {e3}, busy |-> FALSE, locks |-> 1, inj_single_vnet |-> TRUE, ni_inj |-> "fcfs",
   messages |-> << [vnet |-> 1, dests |-> {1, 2}], [vnet |-> 0, dests |-> {1}] >>]

AllWorkloads == {Ejecting, Multicasts, SingleVnet}
=============================================================================
