------------------------------- MODULE DoSpin -------------------------------
(***************************************************************************)
(* GarnetNetwork::doSpin for one VC, iteration by iteration.  spinRing has *)
(* N + 1 entries, 0 .. N, of which the last names the same port as the     *)
(* first.  The first loop empties the ports 0 .. N - 1 into the flit_      *)
(* members of the entries that follow them and gives the credits back; the *)
(* second loop fills the ports of the entries 1 .. N from flit_ and takes  *)
(* the credits again.  num_pkts counts flits out and in, and the asserts   *)
(* compare it with a count taken before.                                   *)
(*                                                                         *)
(* doSpin runs while every link is quiet (DrainControlProofs), so no other *)
(* part of the network acts between its iterations; between two spins      *)
(* flits arrive at ports and depart (Arrive, Depart).                      *)
(***************************************************************************)
EXTENDS AtomicSpin, FiniteSets

VARIABLES
  stage,         \* "idle", "remove" (first loop) or "insert" (second loop)
  idx,           \* the loop variable
  ivc,           \* state of the input VC of every port
  flit_,         \* spinRing[i].flit_
  num_pkts,      \* flits taken out and not yet put in
  spun_pkt_num,  \* flits counted before the first loop
  start          \* flitAt when doSpin was called (history)

vars == <<flitAt, outvc, stage, idx, ivc, flit_, num_pkts, spun_pkt_num, start>>

Entries == 0 .. N

\* Mutant of PortOf: the last entry does not name the first port again.
PortOfNoWrap(i) == IF i = N THEN N - 1 ELSE i

PortOf(i) == IF i = N THEN 0 ELSE i

Occupied(at) == { p \in Ports : at[p] # NoFlit }

DInit ==
  /\ Init
  /\ stage = "idle"
  /\ idx = 0
  /\ ivc = [p \in Ports |-> "IDLE"]
  /\ flit_ = [i \in Entries |-> NoFlit]
  /\ num_pkts = 0
  /\ spun_pkt_num = 0
  /\ start = flitAt

increment_credit(p) ==
  outvc' = [outvc EXCEPT ![p] = [state |-> "IDLE", credits |-> @.credits + 1]]

decrement_credit(p) ==
  outvc' = [outvc EXCEPT ![p] = [state |-> "ACTIVE", credits |-> @.credits - 1]]

\* doSpin is called: count the flits to spin.
Begin ==
  /\ stage = "idle"
  /\ stage' = "remove"
  /\ idx' = 0
  /\ num_pkts' = 0
  /\ spun_pkt_num' = Cardinality(Occupied(flitAt))
  /\ start' = flitAt
  /\ UNCHANGED <<flitAt, outvc, ivc, flit_>>

\* Mutant of Remove: the input VC is not set idle.
RemoveKeepsVcActive ==
  /\ stage = "remove"
  /\ idx < N
  /\ idx' = idx + 1
  /\ flit_' = [flit_ EXCEPT ![idx + 1] = flitAt[idx]]
  /\ IF flitAt[idx] = NoFlit
     THEN UNCHANGED <<flitAt, outvc, num_pkts>>
     ELSE /\ flitAt' = [flitAt EXCEPT ![idx] = NoFlit]
          /\ num_pkts' = num_pkts + 1
          /\ increment_credit(idx)
  /\ UNCHANGED <<stage, ivc, spun_pkt_num, start>>

\* Mutant of Remove: the entry after an empty port keeps its old flit_.
RemoveKeepsOldFlit ==
  /\ stage = "remove"
  /\ idx < N
  /\ idx' = idx + 1
  /\ IF flitAt[idx] = NoFlit
     THEN UNCHANGED <<flitAt, outvc, ivc, flit_, num_pkts>>
     ELSE /\ flit_' = [flit_ EXCEPT ![idx + 1] = flitAt[idx]]
          /\ flitAt' = [flitAt EXCEPT ![idx] = NoFlit]
          /\ num_pkts' = num_pkts + 1
          /\ ivc' = [ivc EXCEPT ![idx] = "IDLE"]
          /\ increment_credit(idx)
  /\ UNCHANGED <<stage, spun_pkt_num, start>>

\* One iteration of the first loop.
Remove ==
  /\ stage = "remove"
  /\ idx < N
  /\ idx' = idx + 1
  /\ flit_' = [flit_ EXCEPT ![idx + 1] = flitAt[idx]]
  /\ IF flitAt[idx] = NoFlit
     THEN UNCHANGED <<flitAt, outvc, ivc, num_pkts>>
     ELSE /\ flitAt' = [flitAt EXCEPT ![idx] = NoFlit]
          /\ num_pkts' = num_pkts + 1
          /\ ivc' = [ivc EXCEPT ![idx] = "IDLE"]
          /\ increment_credit(idx)
  /\ UNCHANGED <<stage, spun_pkt_num, start>>

\* The first loop is over; assert(spun_pkt_num == num_pkts).
Turn ==
  /\ stage = "remove"
  /\ idx = N
  /\ stage' = "insert"
  /\ idx' = 1
  /\ UNCHANGED <<flitAt, outvc, ivc, flit_, num_pkts, spun_pkt_num, start>>

\* One iteration of the second loop.
Insert ==
  /\ stage = "insert"
  /\ idx <= N
  /\ idx' = idx + 1
  /\ IF flit_[idx] = NoFlit
     THEN UNCHANGED <<flitAt, outvc, ivc, num_pkts>>
     ELSE /\ flitAt' = [flitAt EXCEPT ![PortOf(idx)] = flit_[idx]]
          /\ num_pkts' = num_pkts - 1
          /\ ivc' = [ivc EXCEPT ![PortOf(idx)] = "ACTIVE"]
          /\ decrement_credit(PortOf(idx))
  /\ UNCHANGED <<stage, flit_, spun_pkt_num, start>>

\* The second loop is over; assert(num_pkts == 0).  The loop after it assigns
\* to copies of the entries, so every flit_ keeps its value.
Finish ==
  /\ stage = "insert"
  /\ idx = N + 1
  /\ stage' = "idle"
  /\ UNCHANGED <<flitAt, outvc, idx, ivc, flit_, num_pkts, spun_pkt_num, start>>

\* Between two spins: a flit comes to rest in a port, or leaves it for good.
ArriveAt(p, f) ==
  /\ stage = "idle"
  /\ Arrive(p, f)
  /\ ivc' = [ivc EXCEPT ![p] = "ACTIVE"]
  /\ UNCHANGED <<stage, idx, flit_, num_pkts, spun_pkt_num, start>>

DepartFrom(p) ==
  /\ stage = "idle"
  /\ Depart(p)
  /\ ivc' = [ivc EXCEPT ![p] = "IDLE"]
  /\ UNCHANGED <<stage, idx, flit_, num_pkts, spun_pkt_num, start>>

doSpin == Begin \/ Remove \/ Turn \/ Insert \/ Finish

DNext ==
  \/ doSpin
  \/ \E p \in Ports : DepartFrom(p) \/ \E f \in Flits : ArriveAt(p, f)

DSpec == DInit /\ [][DNext]_vars

-----------------------------------------------------------------------------
\* The values every variable ranges over.
TypeOK ==
  /\ flitAt \in [Ports -> Slot]
  /\ outvc \in [Ports -> [state: {"IDLE", "ACTIVE"}, credits: 0 .. BufDepth]]
  /\ stage \in {"idle", "remove", "insert"}
  /\ idx \in 0 .. N + 1
  /\ ivc \in [Ports -> {"IDLE", "ACTIVE"}]
  /\ flit_ \in [Entries -> Slot]
  /\ num_pkts \in 0 .. N
  /\ spun_pkt_num \in 0 .. N
  /\ start \in [Ports -> Slot]

(***************************************************************************)
(* doSpin's asserts: as many flits were taken out as were counted before   *)
(* and are put in again, a flit is only put into an IDLE input VC, and the *)
(* upstream output VC then has a credit (OutVcState::decrement_credit) or, *)
(* when the flit was taken out, lacked one (increment_credit).             *)
(***************************************************************************)
AssertsHold ==
  /\ stage = "remove" /\ idx = N => num_pkts = spun_pkt_num
  /\ stage = "insert" /\ idx = N + 1 => num_pkts = 0
  /\ stage = "remove" /\ idx < N /\ flitAt[idx] # NoFlit =>
       outvc[idx].credits < BufDepth
  /\ stage = "insert" /\ idx <= N /\ flit_[idx] # NoFlit =>
       /\ ivc[PortOf(idx)] = "IDLE"
       /\ outvc[PortOf(idx)].credits > 0

(***************************************************************************)
(* The inductive invariant.  Input VC and output VC of every port always   *)
(* fit the flit in it; the loops have dealt with the entries before idx;   *)
(* and num_pkts counts the flits that are in flit_ members only.           *)
(***************************************************************************)
Matching ==
  \A p \in Ports :
    /\ outvc[p] = OutVcFor(flitAt[p])
    /\ ivc[p] = IF flitAt[p] = NoFlit THEN "IDLE" ELSE "ACTIVE"

Below(k) == { p \in Occupied(start) : p < k }
From(k)  == { p \in Occupied(start) : p >= k }

Removing ==
  /\ idx <= N
  /\ \A p \in Ports :
       IF p < idx THEN flitAt[p] = NoFlit /\ flit_[p + 1] = start[p]
                  ELSE flitAt[p] = start[p]
  /\ num_pkts = Cardinality(Below(idx))

Filled(p) == IF p = 0 THEN idx = N + 1 ELSE p < idx

Inserting ==
  /\ idx >= 1
  /\ \A p \in Ports :
       /\ flit_[p + 1] = start[p]
       /\ flitAt[p] = IF Filled(p) THEN start[Before(p)] ELSE NoFlit
  /\ num_pkts = Cardinality(From(idx - 1))

IInv ==
  /\ TypeOK
  /\ Matching
  /\ stage # "idle" => spun_pkt_num = Cardinality(Occupied(start))
  /\ stage = "remove" => Removing
  /\ stage = "insert" => Inserting

(***************************************************************************)
(* Seen from outside, doSpin is the single step AtomicSpin!Spin: while it  *)
(* runs the network is still in the state it found.  In particular no flit *)
(* is lost, duplicated or moved further than one port, and the credits of  *)
(* all ports fit the flits afterwards.                                     *)
(***************************************************************************)
Atomic == INSTANCE AtomicSpin WITH
  flitAt <- IF stage = "idle" THEN flitAt ELSE start,
  outvc  <- IF stage = "idle" THEN outvc ELSE [p \in Ports |-> OutVcFor(start[p])]

IsAtomicSpin == Atomic!Spec

\* The comment "clean ring." above doSpin's last loop: no entry of spinRing
\* keeps a flit after the spin.
RingIsClean == stage = "idle" => \A i \in Entries : flit_[i] = NoFlit
=============================================================================
