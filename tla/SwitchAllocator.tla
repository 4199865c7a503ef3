--------------------------- MODULE SwitchAllocator ---------------------------
(***************************************************************************)
(* SwitchAllocator::wakeup of one router in detail: the round-robin        *)
(* pointers of both stages, the U-turn deflection of uTurn_crossbar = 0    *)
(* and the ordering check of ordered vnets.  DrainNetwork leaves the       *)
(* choice of both arbiters open.                                           *)
(*                                                                         *)
(* The rest of the router is an environment: flits arrive in empty input   *)
(* VCs with the output port route_compute gave them (a drain puts flits    *)
(* into any port, so any output port may be asked for), credits make       *)
(* output VCs idle again, and drains halt the router.                      *)
(***************************************************************************)
EXTENDS Integers, Sequences, FiniteSetsExt

CONSTANTS
  InDir,          \* direction of every input port, ports numbered from 0
  OutDir,         \* direction of every output port
  NumVnets,       \* virtual networks
  VcPerVnet,      \* VCs per virtual network
  Ordered,        \* the ordered vnets
  UTurnCrossbar   \* uTurn_crossbar: whether U-turns are allowed

InPorts  == DOMAIN InDir
OutPorts == DOMAIN OutDir
NumIn  == Cardinality(InPorts)
NumVcs == NumVnets * VcPerVnet
VCs == 0 .. NumVcs - 1
Vnets == 0 .. NumVnets - 1
get_vnet(v) == v \div VcPerVnet
Directions == {"Local", "North", "East", "South", "West"}

NoFlit == -1
NoPort == -2
NoIn == -1

ASSUME AllocatorAssumption ==
  /\ {NumVnets, VcPerVnet, NumIn, Cardinality(OutPorts)} \subseteq Nat \ {0}
  /\ InPorts = 0 .. NumIn - 1
  /\ OutPorts = 0 .. Cardinality(OutPorts) - 1
  /\ InDir \in [InPorts -> Directions]
  /\ OutDir \in [OutPorts -> Directions]
  /\ Ordered \subseteq Vnets
  /\ UTurnCrossbar \in BOOLEAN

VARIABLES
  inbuf,   \* output port of the flit in every input VC, or NoFlit
  order,   \* the occupied VCs of every input port and vnet, oldest first (enqueue times)
  outvc,   \* state of every output VC
  rrVc,    \* m_round_robin_invc
  rrIn,    \* m_round_robin_inport
  halt     \* halt_ of the router

vars == <<inbuf, order, outvc, rrVc, rrIn, halt>>

Init ==
  /\ inbuf = [p \in InPorts |-> [v \in VCs |-> NoFlit]]
  /\ order = [p \in InPorts |-> [n \in Vnets |-> <<>>]]
  /\ outvc = [o \in OutPorts |-> [v \in VCs |-> "IDLE"]]
  /\ rrVc = [p \in InPorts |-> 0]
  /\ rrIn = [o \in OutPorts |-> 0]
  /\ halt = FALSE

-----------------------------------------------------------------------------
PortTo(dir) == CHOOSE o \in OutPorts : OutDir[o] = dir
HasPortTo(dir) == \E o \in OutPorts : OutDir[o] = dir

\* disallow_uturn: an output port at a right angle to input port p; NoPort
\* stands for its assert(0).
disallow_uturn(p) ==
  LET across == IF InDir[p] \in {"East", "West"} THEN <<"North", "South">>
                                                  ELSE <<"East", "West">>
  IN  CASE HasPortTo(across[1]) -> PortTo(across[1])
        [] ~HasPortTo(across[1]) /\ HasPortTo(across[2]) -> PortTo(across[2])
        [] OTHER -> NoPort

IsUTurn(p, o) == InDir[p] # "Local" /\ OutDir[o] = InDir[p]

\* The output port a flit asks for once SA-I has looked at it.
Outport(p, v) ==
  IF ~UTurnCrossbar /\ IsUTurn(p, inbuf[p][v]) THEN disallow_uturn(p) ELSE inbuf[p][v]

FreeVcs(o, n) == { v \in VCs : get_vnet(v) = n /\ outvc[o][v] = "IDLE" }

\* The output port kept in an input VC: grant_outport is never called, so it
\* keeps the value set_idle gives it.
get_outport(p, v) == -1

Older(p, w, v) ==
  LET queue == order[p][get_vnet(v)]
  IN  \E i, j \in DOMAIN queue : i < j /\ queue[i] = w /\ queue[j] = v

\* Mutant of send_allowed: idle output VCs of other vnets count as well.
SendAnyVnet(p, v) ==
  /\ Outport(p, v) \in OutPorts
  /\ \E w \in VCs : outvc[Outport(p, v)][w] = "IDLE"

send_allowed(p, v) ==
  /\ Outport(p, v) \in OutPorts
  /\ FreeVcs(Outport(p, v), get_vnet(v)) # {}
  /\ get_vnet(v) \in Ordered =>
       ~ \E w \in VCs : /\ get_vnet(w) = get_vnet(v)
                        /\ inbuf[p][w] # NoFlit
                        /\ get_outport(p, w) = Outport(p, v)
                        /\ Older(p, w, v)

VcAt(p, k) == (rrVc[p] + k) % NumVcs

\* SA-I: for every input port the turn, counted from its pointer, at which it
\* finds a VC that may send, or NumVcs.
arbitrate_inports ==
  [p \in InPorts |->
     Min({ k \in 0 .. NumVcs - 1 :
             inbuf[p][VcAt(p, k)] # NoFlit /\ send_allowed(p, VcAt(p, k)) } \union {NumVcs})]

\* The flits SA-I has looked at, the winner included, keep a deflection.
Scanned(p, turn) == { VcAt(p, k) : k \in { j \in 0 .. NumVcs - 1 : j <= turn[p] } }

Deflected(p, v, turn) ==
  IF inbuf[p][v] # NoFlit /\ v \in Scanned(p, turn) THEN Outport(p, v) ELSE inbuf[p][v]

\* The output port that input port p asks for.
Request(p, turn) == IF turn[p] = NumVcs THEN NoPort ELSE Outport(p, VcAt(p, turn[p]))

\* Mutant of FirstAsking: the lowest input port always wins.
LowestAsking(o, request) ==
  LET asking == { p \in InPorts : request[p] = o }
  IN  IF asking = {} THEN NoIn ELSE Min(asking)

\* Mutant of FirstAsking: only the port the pointer names is looked at.
PointerAsking(o, request) == IF request[rrIn[o]] = o THEN rrIn[o] ELSE NoIn

\* The input port asking for o that comes first from the pointer of o on.
FirstAsking(o, request) ==
  LET turns == { k \in 0 .. NumIn - 1 : request[(rrIn[o] + k) % NumIn] = o }
  IN  IF turns = {} THEN NoIn ELSE (rrIn[o] + Min(turns)) % NumIn

\* SA-II: the input port that every output port is granted to.
arbitrate_outports(turn) ==
  LET request == [p \in InPorts |-> Request(p, turn)]
  IN  [o \in OutPorts |-> FirstAsking(o, request)]

\* Grants of one wakeup: input port, VC and output port.
Grants(turn, to) ==
  { [in |-> to[o], vc |-> VcAt(to[o], turn[to[o]]), out |-> o]
      : o \in { q \in OutPorts : to[q] # NoIn } }

GrantsNow == LET turn == arbitrate_inports IN Grants(turn, arbitrate_outports(turn))

\* vc_allocate: the first idle VC of the flit's vnet.
vc_allocate(g) == Min(FreeVcs(g.out, get_vnet(g.vc)))

\* Both pointers move by one for a grant, whoever won.
NextVc(p, won) == IF won THEN (rrVc[p] + 1) % NumVcs ELSE rrVc[p]
NextIn(o, won) == IF won THEN (rrIn[o] + 1) % NumIn ELSE rrIn[o]

Wakeup ==
  /\ ~halt
  /\ \E turn \in {arbitrate_inports} : \E to \in {arbitrate_outports(turn)} :
     \E gs \in {Grants(turn, to)} :
       LET Won(p, v) == \E g \in gs : g.in = p /\ g.vc = v
       IN  /\ inbuf' = [p \in InPorts |-> [v \in VCs |->
                          IF Won(p, v) THEN NoFlit ELSE Deflected(p, v, turn)]]
           /\ order' = [p \in InPorts |-> [n \in Vnets |->
                          SelectSeq(order[p][n], LAMBDA v : ~Won(p, v))]]
           /\ outvc' = [o \in OutPorts |-> [v \in VCs |->
                          IF \E g \in gs : g.out = o /\ vc_allocate(g) = v
                          THEN "ACTIVE" ELSE outvc[o][v]]]
           /\ rrVc' = [p \in InPorts |-> NextVc(p, \E v \in VCs : Won(p, v))]
           /\ rrIn' = [o \in OutPorts |-> NextIn(o, to[o] # NoIn)]
  /\ UNCHANGED halt

\* InputUnit::wakeup puts a flit that asks for o into an empty VC.
Arrive(p, v, o) ==
  /\ inbuf[p][v] = NoFlit
  /\ inbuf' = [inbuf EXCEPT ![p][v] = o]
  /\ order' = [order EXCEPT ![p][get_vnet(v)] = Append(@, v)]
  /\ UNCHANGED <<outvc, rrVc, rrIn, halt>>

\* OutputUnit::wakeup takes a credit.
Free(o, v) ==
  /\ outvc[o][v] = "ACTIVE"
  /\ outvc' = [outvc EXCEPT ![o][v] = "IDLE"]
  /\ UNCHANGED <<inbuf, order, rrVc, rrIn, halt>>

SetHalt ==
  /\ halt' = ~halt
  /\ UNCHANGED <<inbuf, order, outvc, rrVc, rrIn>>

Next ==
  \/ Wakeup
  \/ \E p \in InPorts, v \in VCs, o \in OutPorts : Arrive(p, v, o)
  \/ \E o \in OutPorts, v \in VCs : Free(o, v)
  \/ SetHalt

(***************************************************************************)
(* check_for_wakeup keeps the router running while it holds a flit, every  *)
(* halt ends, and credits come back.                                       *)
(***************************************************************************)
Fairness ==
  /\ SF_vars(Wakeup)
  /\ WF_vars(halt /\ SetHalt)
  /\ \A o \in OutPorts, v \in VCs : WF_vars(Free(o, v))

Spec == Init /\ [][Next]_vars /\ Fairness

-----------------------------------------------------------------------------
\* The values every variable ranges over.
TypeOK ==
  /\ inbuf \in [InPorts -> [VCs -> OutPorts \union {NoFlit, NoPort}]]
  /\ order \in [InPorts -> [Vnets -> Seq(VCs)]]
  /\ outvc \in [OutPorts -> [VCs -> {"IDLE", "ACTIVE"}]]
  /\ rrVc \in [InPorts -> VCs]
  /\ rrIn \in [OutPorts -> InPorts]
  /\ halt \in BOOLEAN

\* "has to get a valid VC since it checked before performing SA": the check of
\* SA-I still holds when SA-II allocates the VC, for every grant of a wakeup.
VcAllocateSucceeds ==
  \A g \in GrantsNow : FreeVcs(g.out, get_vnet(g.vc)) # {}

\* Whenever some flit could be sent, one is: the two stages never block each
\* other, and a halt is the only reason to stay idle.
Sendable(p, v) == inbuf[p][v] # NoFlit /\ send_allowed(p, v)

WorkConserving ==
  (\E p \in InPorts, v \in VCs : Sendable(p, v)) => GrantsNow # {}

\* The flit in VC v of port p leaves the router.
Left(p, v) == inbuf[p][v] # NoFlit /\ inbuf'[p][v] = NoFlit

\* What the comment on the ordering check says.  The code does not do it, since
\* get_outport is never the port asked for: see the README.
\* "pt-to-pt ordering is not violated in ordered vnets, i.e., there should be no
\* other flit in this input port within an ordered vnet that arrived before
\* this flit and is requesting the same output port."
KeepsOrder ==
  [][\A p \in InPorts, v, w \in VCs :
       ( /\ get_vnet(v) = get_vnet(w) /\ get_vnet(v) \in Ordered
         /\ Older(p, w, v) /\ inbuf[p][w] = inbuf[p][v]
         /\ Left(p, v) ) => Left(p, w)]_vars

\* SA-I chooses VC v for input port p.
Chosen(p, v) ==
  LET turn == arbitrate_inports[p] IN turn # NumVcs /\ VcAt(p, turn) = v

\* A VC that SA-I keeps choosing is granted its output port in the end: the
\* pointer of an output port, which moves by one for every grant whoever won, does
\* come to its input port.  There is no such promise for a VC that may be sent
\* (Sendable) and that SA-I does not keep choosing: see the README.
EveryRequestGranted ==
  \A p \in InPorts, v \in VCs : []<>~Chosen(p, v)
=============================================================================
