---------------------------- MODULE DrainNetwork ----------------------------
(***************************************************************************)
(* The DRAIN network as one state machine: routers (input units, output    *)
(* units, the drain control of Router::wakeup, switch allocation and       *)
(* traversal), flit and credit links, network interfaces, and the halt and *)
(* drain that GarnetNetwork performs over all of them.                     *)
(*                                                                         *)
(* Time is gem5's event queue.  wake[x] holds, for every consumer x, how   *)
(* many cycles ahead its wakeups are scheduled; a consumer with a wakeup   *)
(* 0 cycles ahead runs in this cycle, consumers of one cycle run in any    *)
(* order, and Tick moves to the next cycle when none is left.  Delays of   *)
(* flits and credits are relative to the current cycle as well.            *)
(*                                                                         *)
(* Router::wakeup is one handler.  It is split in three steps (receive,    *)
(* spin, allocate) that `running` chains together, so no other consumer    *)
(* runs in between.                                                        *)
(*                                                                         *)
(* A NetworkLink moves a flit from its source queue one cycle after it was *)
(* queued and hands it over LinkLatency cycles later, so a link is a delay *)
(* line of 1 + LinkLatency cycles that schedules its consumer for the      *)
(* arrival (NetworkLink shows it).  One network interface per router; its  *)
(* protocol buffers never fill up, so it stalls no ejection (NiEjection    *)
(* has the stalls).                                                        *)
(***************************************************************************)
EXTENDS MeshRing, FiniteSets, FiniteSetsExt

CONSTANTS
  NumVnets,       \* virtual networks
  VcPerVnet,      \* VCs per virtual network
  BufDepth,       \* flit buffers per VC, the initial credits of an output VC
  LinkLatency,    \* m_latency of every flit and credit link
  PipeStages,     \* pipeline stages of a router
  SpinThreshold,  \* m_spin_thrshld: cycles between two drains
  SpinMults,      \* the values of m_spin_mult considered
  DrainAllVc,     \* drain_all_vc: spin all VCs, or the base VC of each vnet
  Packets,        \* the packets of a run, each sent once
  Source,         \* Packets -> Routers
  Dest,           \* Packets -> Routers
  Vnet,           \* Packets -> Vnets
  SendPhases,     \* the phases of an epoch in which controllers send (a bound)
  Priority        \* Consumers -> Nat: in a cycle the least value runs first, equal
                  \* values in any order (a bound; all equal is gem5's event queue)

Vnets == 0 .. NumVnets - 1
VCs   == 0 .. NumVnets * VcPerVnet - 1
VcsOf(vnet) == vnet * VcPerVnet .. (vnet + 1) * VcPerVnet - 1
get_vnet(vc) == vc \div VcPerVnet

ASSUME NetworkAssumption ==
  /\ {NumVnets, VcPerVnet, BufDepth, LinkLatency, PipeStages} \subseteq Nat \ {0}
  /\ SpinThreshold \in Nat \ {0}
  /\ SpinMults \subseteq Nat /\ IsFiniteSet(SpinMults)
  /\ DrainAllVc \in BOOLEAN
  /\ Source \in [Packets -> Routers]
  /\ Dest \in [Packets -> Routers]
  /\ Vnet \in [Packets -> Vnets]
  /\ SendPhases \subseteq Nat

NoRouter == -1

LocalPorts == Routers \X {"Local"}     \* input ports fed by a network interface
EjectPorts == Routers \X {"Eject"}     \* output ports that end in one
InPorts    == RingPorts \cup LocalPorts
Chans      == InPorts \cup EjectPorts

InPortsOf(r)  == { c \in InPorts : c[1] = r }
OutChansOf(r) == { OutChan(r, dir) : dir \in OutSides(r) \cup {"Local"} }

Consumers     == Routers \X {"router", "ni"}
RouterOf(r)   == <<r, "router">>
NiOf(r)       == <<r, "ni">>
RouterConsumers == { RouterOf(r) : r \in Routers }

\* link_consumer of a flit link, and of the credit link that runs against it
FlitConsumer(c) == IF c[2] = "Eject" THEN NiOf(c[1]) ELSE RouterOf(c[1])
CreditConsumer(c) ==
  CASE c[2] = "Local" -> NiOf(c[1])
    [] c[2] = "Eject" -> RouterOf(c[1])
    [] OTHER          -> RouterOf(get_upstreamId(c[2], c[1]))

LinkDelay     == 1 + LinkLatency
PreDrainDelay == 2
DrainDelay    == PreDrainDelay + 1

\* No wakeup is scheduled and no flit is held back for longer.
MaxDelay == Max({DrainDelay, LinkDelay, PipeStages} \cup { 2 * n : n \in SpinMults })

VARIABLES
  spinMult,   \* m_spin_mult: spins per drain; 0 draws the number at random
  phase,      \* curCycle() % m_spin_thrshld
  started,    \* curCycle() >= m_spin_thrshld
  wake,       \* m_scheduled_wakeups of every consumer, in cycles from now
  running,    \* <<router, step>> while a router is in its wakeup
  halt,       \* halt_ of every router
  lock,       \* GarnetNetwork::lock
  inbuf,      \* input VCs: flits buffered at every input port
  outvc,      \* OutVcState: state and credits, at the unit that feeds the link
  pipe,       \* flits on the way over every link
  crd,        \* credits on the way back over every link
  msgq,       \* protocol buffers into the network interfaces
  nivc,       \* m_ni_out_vcs of the network interfaces
  fresh,      \* packets the controllers have not sent yet
  delivered   \* packets handed to the destination's protocol buffer

vars == <<phase, started, wake, running, halt, lock, inbuf, outvc, pipe, crd,
          msgq, nivc, fresh, delivered>>

ResumeDelay == 2 * spinMult

clockVars == <<phase, started>>
lockVars  == <<halt, lock>>
niVars    == <<msgq, nivc, fresh, delivered>>

Idle == <<NoRouter, "idle">>

Ready(queue) == queue # <<>> /\ Head(queue).delay = 0

\* Consumer x has a wakeup in this cycle, and none is due before it.
Due(x) == /\ 0 \in wake[x]
          /\ \A y \in Consumers : 0 \in wake[y] => Priority[x] <= Priority[y]

Schedule(w, who, delay) ==
  [x \in Consumers |-> IF x \in who THEN w[x] \cup {delay} ELSE w[x]]

IsIdle(ov) == ov.state = "IDLE"
FreeVcs(c, vnet) == { vc \in VcsOf(vnet) : IsIdle(outvc[c][vc]) }
select_free_vc(c, vnet) == Min(FreeVcs(c, vnet))

decrement_credit(ov) == [ov EXCEPT !.credits = @ - 1]
increment_credit(ov) == [ov EXCEPT !.credits = @ + 1]
set_vc_state(ov, st) == [ov EXCEPT !.state = st]

\* Mutant of TakeCredit: the free signal is ignored.
TakeCreditStaysActive(ov) == increment_credit(ov)

\* A credit always carries the free signal: every packet is one flit.
TakeCredit(ov) == set_vc_state(increment_credit(ov), "IDLE")

Init ==
  /\ spinMult \in SpinMults
  /\ phase = 0
  /\ started = FALSE
  /\ wake = [x \in Consumers |-> {}]
  /\ running = Idle
  /\ halt = [r \in Routers |-> FALSE]
  /\ lock = NoRouter
  /\ inbuf = [c \in InPorts |-> [vc \in VCs |-> <<>>]]
  /\ outvc = [c \in Chans |-> [vc \in VCs |-> [state |-> "IDLE", credits |-> BufDepth]]]
  /\ pipe = [c \in Chans |-> <<>>]
  /\ crd = [c \in Chans |-> <<>>]
  /\ msgq = [n \in Routers |-> [v \in Vnets |-> <<>>]]
  /\ nivc = [n \in Routers |-> [vc \in VCs |-> <<>>]]
  /\ fresh = Packets
  /\ delivered = {}

-----------------------------------------------------------------------------
(***************************************************************************)
(* Router::wakeup, step 1: every input unit takes a flit off its link,     *)
(* routes it and buffers it; every output unit takes a credit.             *)
(***************************************************************************)
InputUnitWakeup(r, arrived, route) ==
  /\ inbuf' = [c \in InPorts |->
       IF c \in arrived
       THEN [inbuf[c] EXCEPT ![Head(pipe[c]).vc] =
               Append(@, [pkt   |-> Head(pipe[c]).pkt,
                          out   |-> route[c],
                          delay |-> PipeStages - 1])]
       ELSE inbuf[c]]
  /\ pipe' = [c \in Chans |-> IF c \in arrived THEN Tail(pipe[c]) ELSE pipe[c]]

OutputUnitWakeup(credited) ==
  /\ outvc' = [c \in Chans |->
       IF c \in credited
       THEN [outvc[c] EXCEPT ![Head(crd[c]).vc] = TakeCredit(@)]
       ELSE outvc[c]]
  /\ crd' = [c \in Chans |-> IF c \in credited THEN Tail(crd[c]) ELSE crd[c]]

RouterReceive(r) ==
  LET arrived  == { c \in InPortsOf(r) : Ready(pipe[c]) }
      credited == { c \in OutChansOf(r) : Ready(crd[c]) }
      later    == IF arrived # {} /\ PipeStages > 1 THEN {PipeStages - 1} ELSE {}
  IN  /\ running = Idle
      /\ Due(RouterOf(r))
      /\ running' = <<r, "spin">>
      /\ \E route \in [arrived -> Sides \cup {"Local"}] :
           /\ \A c \in arrived : route[c] \in route_compute(r, Dest[Head(pipe[c]).pkt])
           /\ InputUnitWakeup(r, arrived, route)
      /\ OutputUnitWakeup(credited)
      /\ wake' = [wake EXCEPT ![RouterOf(r)] = (@ \ {0}) \cup later]
      /\ UNCHANGED <<clockVars, lockVars, niVars>>

(***************************************************************************)
(* Step 2, at the threshold: the first router to run halts the whole       *)
(* network, takes the lock and has every router woken for the drain.       *)
(***************************************************************************)
AtThreshold == started /\ phase = 0
DrainTime   == started /\ phase > PreDrainDelay /\ lock # NoRouter

\* No flit of an output port is in its link's buffer, nor will be in this cycle:
\* one that has the latency left is there as soon as its link has run.
chck_link_state ==
  \A c \in RingPorts \cup EjectPorts : \A i \in 1 .. Len(pipe[c]) :
    pipe[c][i].delay > LinkLatency

set_halt(val) == halt' = [r \in Routers |-> val]

\* Mutant of RouterHalt: nobody is woken for the drain.
RouterHaltSilently(r) ==
  /\ running = <<r, "spin">>
  /\ AtThreshold
  /\ running' = <<r, "sa">>
  /\ IF halt[r] THEN UNCHANGED halt ELSE set_halt(TRUE)
  /\ lock' = IF lock = NoRouter THEN r ELSE lock
  /\ UNCHANGED <<clockVars, wake, inbuf, outvc, pipe, crd, niVars>>

RouterHalt(r) ==
  /\ running = <<r, "spin">>
  /\ AtThreshold
  /\ running' = <<r, "sa">>
  /\ IF halt[r]
     THEN UNCHANGED <<halt, wake>>
     ELSE /\ set_halt(TRUE)
          /\ wake' = Schedule(wake, RouterConsumers, DrainDelay)
  /\ lock' = IF lock = NoRouter THEN r ELSE lock
  /\ UNCHANGED <<clockVars, inbuf, outvc, pipe, crd, niVars>>

(***************************************************************************)
(* Step 2, once the threshold is more than PreDrainDelay cycles past and   *)
(* the lock is held: GarnetNetwork::doSpin moves every flit of the drained *)
(* VCs along the drain path, set_flit_time holds the flits back for        *)
(* ResumeDelay cycles, and the network resumes.                            *)
(*                                                                         *)
(* spins > 1 is doSpin repeated: every spin takes all flits out (stage 1:  *)
(* the upstream output VC gets its credit back and turns IDLE), then puts  *)
(* them in one port further (stage 2: a credit is taken, ACTIVE again).    *)
(***************************************************************************)
BaseVcs  == { v * VcPerVnet : v \in Vnets }
SpunVcs  == IF DrainAllVc /\ spinMult > 0 THEN VCs ELSE BaseVcs   \* doSpin is called for
TimedVcs == IF DrainAllVc THEN VCs ELSE BaseVcs           \* set_flit_time is called for

SpinCounts == IF spinMult = 0 THEN 0 .. 9 ELSE {spinMult}

\* doSpin calls for vc in a drain of `spins` rounds
SpinsOf(vc, spins) == IF vc \in SpunVcs THEN spins ELSE 0

\* Mutant of SpunFrom: the spin leaves every flit where it is.
SpunInPlace(i, spins) == i

\* The position of the drain path whose flit is at position i after `spins` spins.
SpunFrom(i, spins) == ((i - 1 - spins) % RingSize) + 1

RingIndex(c) == CHOOSE i \in 1 .. RingSize : SpinRing[i] = c

FlitsAt(i, spins, vc) == inbuf[SpinRing[SpunFrom(i, spins)]][vc]

\* Mutant of SpunFlit: flits are held back longer than the routers' wakeup.
SpunFlitLate(f, dir) == [f EXCEPT !.out = dir, !.delay = ResumeDelay + 2]

\* set_flit_time: advance_stage(SA_, curCycle() + 2 * m_spin_mult)
SpunFlit(f, dir) == [f EXCEPT !.out = dir, !.delay = ResumeDelay]

\* Mutant of SpinInputVc: stage 1 peeks at the flit instead of taking it.
SpinInputVcPeek(i, spins, vc, route) ==
  IF FlitsAt(i, spins, vc) = <<>>
  THEN inbuf[SpinRing[i]][vc]
  ELSE <<SpunFlit(Head(FlitsAt(i, spins, vc)), route[<<i, vc>>])>>

SpinInputVc(i, spins, vc, route) ==
  IF FlitsAt(i, spins, vc) = <<>>
  THEN <<>>
  ELSE <<SpunFlit(Head(FlitsAt(i, spins, vc)), route[<<i, vc>>])>>

\* Mutant of SpinOutVc: stage 1 gives no credit back upstream.
SpinOutVcNoCredit(i, spins, vc, ov) ==
  IF FlitsAt(i, spins, vc) # <<>>
  THEN decrement_credit(set_vc_state(ov, "ACTIVE"))
  ELSE set_vc_state(ov, "IDLE")

SpinOutVc(i, spins, vc, ov) ==
  LET left   == \E k \in 0 .. spins - 1 : FlitsAt(i, k, vc) # <<>>
      had    == IF FlitsAt(i, 0, vc) # <<>> THEN 1 ELSE 0
      has    == IF FlitsAt(i, spins, vc) # <<>> THEN 1 ELSE 0
      idled  == IF left THEN set_vc_state(ov, "IDLE") ELSE ov
  IN  IF spins = 0
      THEN ov
      ELSE [state   |-> IF has = 1 THEN "ACTIVE" ELSE idled.state,
            credits |-> ov.credits + had - has]

\* The routes doSpin may compute for the flits it moves; without a spin a flit
\* keeps its route.
SpinRoutes(spins) ==
  LET count(x)  == SpinsOf(x[2], spins)
      moved == { x \in (1 .. RingSize) \X TimedVcs : FlitsAt(x[1], count(x), x[2]) # <<>> }
      flitAt(x) == Head(FlitsAt(x[1], count(x), x[2]))
  IN  { route \in [moved -> Sides \cup {"Local"}] :
          \A x \in moved :
            IF count(x) = 0
            THEN route[x] = flitAt(x).out
            ELSE route[x] \in route_compute(SpinRing[x[1]][1], Dest[flitAt(x).pkt]) }

doSpin(spins, route) ==
  /\ inbuf' = [c \in InPorts |-> [vc \in VCs |->
       IF c \in RingPorts /\ vc \in TimedVcs
       THEN SpinInputVc(RingIndex(c), SpinsOf(vc, spins), vc, route)
       ELSE inbuf[c][vc]]]
  /\ outvc' = [c \in Chans |-> [vc \in VCs |->
       IF c \in RingPorts /\ vc \in SpunVcs
       THEN SpinOutVc(RingIndex(c), spins, vc, outvc[c][vc])
       ELSE outvc[c][vc]]]

RouterDrain(r) ==
  /\ running = <<r, "spin">>
  /\ DrainTime
  /\ running' = <<r, "sa">>
  /\ set_halt(FALSE)
  /\ \E spins \in SpinCounts : \E route \in SpinRoutes(spins) : doSpin(spins, route)
  /\ lock' = NoRouter
  /\ wake' = IF ResumeDelay = 0   \* every router is already scheduled for this cycle
             THEN wake
             ELSE Schedule(wake, RouterConsumers, ResumeDelay)
  /\ UNCHANGED <<clockVars, pipe, crd, niVars>>

\* Step 2 in every other cycle: only chck_link_state, which changes nothing.
RouterNoSpin(r) ==
  /\ running = <<r, "spin">>
  /\ ~AtThreshold
  /\ ~DrainTime
  /\ running' = <<r, "sa">>
  /\ UNCHANGED <<clockVars, wake, lockVars, inbuf, outvc, pipe, crd, niVars>>

-----------------------------------------------------------------------------
(***************************************************************************)
(* Step 3: switch allocation and traversal.  Every input port requests the *)
(* output port of one of its ready VCs that has a free output VC there;    *)
(* every requested output port grants one input port.  The round-robin     *)
(* pointers that break the ties are left open.                             *)
(***************************************************************************)
ReadyVcs(r, c) ==
  { vc \in VCs : /\ Ready(inbuf[c][vc])
                 /\ FreeVcs(OutChan(r, Head(inbuf[c][vc]).out), get_vnet(vc)) # {} }

Requests(r) ==
  LET ports == { c \in InPortsOf(r) : ReadyVcs(r, c) # {} }
  IN  { req \in [ports -> VCs] : \A c \in ports : req[c] \in ReadyVcs(r, c) }

RequestedChan(r, req, c) == OutChan(r, Head(inbuf[c][req[c]]).out)

Grants(r, req) ==
  { win \in SUBSET (DOMAIN req) :
      /\ \A c, d \in win : RequestedChan(r, req, c) = RequestedChan(r, req, d) => c = d
      /\ \A c \in DOMAIN req : \E d \in win :
           RequestedChan(r, req, c) = RequestedChan(r, req, d) }

\* Mutant of Allocations: switch allocation does not look at halt_.
AllocationsUnhalted(r) ==
  UNION { { <<req, win>> : win \in Grants(r, req) } : req \in Requests(r) }

\* A router that is halted allocates nothing.
Allocations(r) ==
  IF halt[r]
  THEN { <<[c \in {} |-> 0], {}>> }
  ELSE UNION { { <<req, win>> : win \in Grants(r, req) } : req \in Requests(r) }

\* Mutant of check_for_wakeup: the local input port is forgotten.
CheckRingPortsOnly(r) ==
  \E c \in InPortsOf(r) \ LocalPorts, vc \in VCs :
    inbuf'[c][vc] # <<>> /\ Head(inbuf'[c][vc]).delay <= 1

\* SwitchAllocator::check_for_wakeup: a flit may leave in the next cycle.
check_for_wakeup(r) ==
  \E c \in InPortsOf(r), vc \in VCs :
    inbuf'[c][vc] # <<>> /\ Head(inbuf'[c][vc]).delay <= 1

\* The winner leaves its input VC, takes an output VC and a credit, goes through
\* the crossbar onto the link, and a credit goes back upstream.
SwitchTraversal(r, req, win) ==
  LET chan(c)   == RequestedChan(r, req, c)
      newvc(c)  == select_free_vc(chan(c), get_vnet(req[c]))
      winner(o) == CHOOSE c \in win : chan(c) = o
      taken     == { chan(c) : c \in win }
  IN  /\ inbuf' = [c \in InPorts |->
           IF c \in win THEN [inbuf[c] EXCEPT ![req[c]] = Tail(@)] ELSE inbuf[c]]
      /\ outvc' = [o \in Chans |->
           IF o \in taken
           THEN [outvc[o] EXCEPT ![newvc(winner(o))] =
                   decrement_credit(set_vc_state(@, "ACTIVE"))]
           ELSE outvc[o]]
      /\ pipe' = [o \in Chans |->
           IF o \in taken
           THEN Append(pipe[o],
                  [pkt   |-> Head(inbuf[winner(o)][req[winner(o)]]).pkt,
                   vc    |-> newvc(winner(o)),
                   delay |-> LinkDelay])
           ELSE pipe[o]]
      /\ crd' = [c \in Chans |->
           IF c \in win THEN Append(crd[c], [vc |-> req[c], delay |-> LinkDelay])
                        ELSE crd[c]]
      /\ wake' =
           LET sent  == Schedule(wake, { FlitConsumer(o) : o \in taken }
                                       \cup { CreditConsumer(c) : c \in win }, LinkDelay)
           IN  IF check_for_wakeup(r) THEN Schedule(sent, {RouterOf(r)}, 1) ELSE sent

RouterAllocate(r) ==
  /\ running = <<r, "sa">>
  /\ running' = Idle
  /\ \E alloc \in Allocations(r) : SwitchTraversal(r, alloc[1], alloc[2])
  /\ UNCHANGED <<clockVars, lockVars, niVars>>

-----------------------------------------------------------------------------
(***************************************************************************)
(* NetworkInterface::wakeup: pick up one message per vnet unless the       *)
(* network is locked, put one flit on the injection link, take a flit off  *)
(* the ejection link and a credit off the credit link.                     *)
(***************************************************************************)
Pickable(n) ==
  { v \in Vnets : Ready(msgq[n][v]) /\ lock = NoRouter /\ FreeVcs(<<n, "Local">>, v) # {} }

\* flitisizeMessage: calculateVC returns some idle VC of the vnet
PickVcs(n) ==
  { pick \in [Pickable(n) -> VCs] :
      \A v \in Pickable(n) : pick[v] \in FreeVcs(<<n, "Local">>, v) }

Picked(pick) == { pick[v] : v \in DOMAIN pick }

FlitsAfterPick(n, pick) ==
  [vc \in VCs |->
     IF vc \in Picked(pick)
     THEN Append(nivc[n][vc], Head(msgq[n][CHOOSE v \in DOMAIN pick : pick[v] = vc]).pkt)
     ELSE nivc[n][vc]]

\* scheduleOutputLink: one VC with a flit and a credit, if there is any
SendVcs(n, queued) ==
  LET ready == { vc \in VCs : queued[vc] # <<>> /\ outvc[<<n, "Local">>][vc].credits > 0 }
  IN  IF ready = {} THEN {{}} ELSE { {vc} : vc \in ready }

checkReschedule(n) ==
  \/ \E v \in Vnets : Ready(msgq'[n][v])
  \/ \E vc \in VCs : nivc'[n][vc] # <<>>

(***************************************************************************)
(* The cycles until the credit of an ejected flit is back.  The interface  *)
(* wakes the link of its credits whenever one is queued, so the link may   *)
(* already be awake and take the credit in this cycle (an early line in    *)
(* DelayLine), when no other credit goes through it.                       *)
(***************************************************************************)
CreditDelays(n) ==
  { d \in {LinkLatency, LinkDelay} :
      \A i \in 1 .. Len(crd[<<n, "Eject">>]) : crd[<<n, "Eject">>][i].delay < d }

\* One wakeup in which `pick` gives the VCs to messages, `send` is the VC served
\* and a credit takes `after` cycles.
InterfaceMoves(n, pick, send, after) ==
  LET inj == <<n, "Local">>
      ej  == <<n, "Eject">>
      ejected  == Ready(pipe[ej])
      credited == Ready(crd[inj])
      queued   == FlitsAfterPick(n, pick)
  IN
  /\ msgq' = [msgq EXCEPT ![n] = [v \in Vnets |->
       IF v \in DOMAIN pick THEN Tail(@[v]) ELSE @[v]]]
  /\ nivc' = [nivc EXCEPT ![n] = [vc \in VCs |->
       IF vc \in send THEN Tail(queued[vc]) ELSE queued[vc]]]
  /\ outvc' = [outvc EXCEPT ![inj] = [vc \in VCs |->
       LET picked == IF vc \in Picked(pick) THEN set_vc_state(@[vc], "ACTIVE") ELSE @[vc]
           sent   == IF vc \in send THEN decrement_credit(picked) ELSE picked
       IN  IF credited /\ Head(crd[inj]).vc = vc THEN TakeCredit(sent) ELSE sent]]
  /\ pipe' = [pipe EXCEPT
       ![inj] = IF send = {} THEN @
                ELSE LET vc == CHOOSE x \in send : TRUE
                     IN  Append(@, [pkt |-> Head(queued[vc]), vc |-> vc, delay |-> LinkDelay]),
       ![ej]  = IF ejected THEN Tail(@) ELSE @]
  /\ crd' = [crd EXCEPT
       ![inj] = IF credited THEN Tail(@) ELSE @,
       ![ej]  = IF ejected
                THEN Append(@, [vc |-> Head(pipe[ej]).vc, delay |-> after])
                ELSE @]
  /\ delivered' = delivered \cup (IF ejected THEN {Head(pipe[ej]).pkt} ELSE {})
  /\ wake' =
       LET ran   == [wake EXCEPT ![NiOf(n)] = @ \ {0}]
           flit  == IF send = {} THEN ran ELSE Schedule(ran, {RouterOf(n)}, LinkDelay)
           sent  == IF ejected THEN Schedule(flit, {RouterOf(n)}, after) ELSE flit
       IN  IF checkReschedule(n) THEN Schedule(sent, {NiOf(n)}, 1) ELSE sent

InterfaceWakeup(n) ==
  /\ running = Idle
  /\ Due(NiOf(n))
  /\ \E pick \in PickVcs(n) : \E send \in SendVcs(n, FlitsAfterPick(n, pick)) :
       \E after \in CreditDelays(n) : InterfaceMoves(n, pick, send, after)
  /\ UNCHANGED <<clockVars, running, lockVars, inbuf, fresh>>

-----------------------------------------------------------------------------
CycleDone == running = Idle /\ \A x \in Consumers : 0 \notin wake[x]

(***************************************************************************)
(* A controller enqueues a message for its interface; it is ready one      *)
(* cycle later.  Controllers touch nothing else of a cycle, so they may    *)
(* run after the cycle's other consumers.                                  *)
(***************************************************************************)
SendMessage(p) ==
  /\ CycleDone
  /\ p \in fresh
  /\ phase \in SendPhases
  /\ fresh' = fresh \ {p}
  /\ msgq' = [msgq EXCEPT ![Source[p]][Vnet[p]] = Append(@, [pkt |-> p, delay |-> 1])]
  /\ wake' = Schedule(wake, {NiOf(Source[p])}, 1)
  /\ UNCHANGED <<clockVars, running, lockVars, inbuf, outvc, pipe, crd, nivc, delivered>>

Closer(queue) ==
  [i \in 1 .. Len(queue) |->
     [queue[i] EXCEPT !.delay = IF @ = 0 THEN 0 ELSE @ - 1]]

\* The event queue moves on to the next cycle.
Tick ==
  /\ CycleDone
  /\ phase' = IF phase = SpinThreshold - 1 THEN 0 ELSE phase + 1
  /\ started' = (started \/ phase = SpinThreshold - 1)
  /\ wake' = [x \in Consumers |-> { d - 1 : d \in wake[x] }]
  /\ inbuf' = [c \in InPorts |-> [vc \in VCs |-> Closer(inbuf[c][vc])]]
  /\ pipe' = [c \in Chans |-> Closer(pipe[c])]
  /\ crd' = [c \in Chans |-> Closer(crd[c])]
  /\ msgq' = [n \in Routers |-> [v \in Vnets |-> Closer(msgq[n][v])]]
  /\ UNCHANGED <<running, lockVars, outvc, nivc, fresh, delivered>>

RouterStep(r) ==
  \/ RouterReceive(r)
  \/ RouterHalt(r)
  \/ RouterDrain(r)
  \/ RouterNoSpin(r)
  \/ RouterAllocate(r)

System ==
  \/ \E r \in Routers : RouterStep(r) \/ InterfaceWakeup(r)
  \/ Tick

Next ==
  /\ System \/ \E p \in Packets : SendMessage(p)
  /\ UNCHANGED spinMult

Spec == Init /\ [][Next]_<<vars, spinMult>>

\* The event queue never stops while the simulation runs.
FairSpec == Spec /\ WF_vars(System)

-----------------------------------------------------------------------------
Flit    == [pkt: Packets, out: Sides \cup {"Local"}, delay: 0 .. MaxDelay]
Transit == [pkt: Packets, vc: VCs, delay: 0 .. LinkDelay]
Credit  == [vc: VCs, delay: 0 .. LinkDelay]
Message == [pkt: Packets, delay: 0 .. 1]

\* The values every variable ranges over.
TypeOK ==
  /\ phase \in 0 .. SpinThreshold - 1
  /\ started \in BOOLEAN
  /\ spinMult \in SpinMults
  /\ wake \in [Consumers -> SUBSET (0 .. MaxDelay)]
  /\ running \in {Idle} \cup (Routers \X {"spin", "sa"})
  /\ halt \in [Routers -> BOOLEAN]
  /\ lock \in Routers \cup {NoRouter}
  /\ inbuf \in [InPorts -> [VCs -> Seq(Flit)]]
  /\ outvc \in [Chans -> [VCs -> [state: {"IDLE", "ACTIVE"}, credits: 0 .. BufDepth]]]
  /\ pipe \in [Chans -> Seq(Transit)]
  /\ crd \in [Chans -> Seq(Credit)]
  /\ msgq \in [Routers -> [Vnets -> Seq(Message)]]
  /\ nivc \in [Routers -> [VCs -> Seq(Packets)]]
  /\ fresh \subseteq Packets
  /\ delivered \subseteq Packets

CountVc(queue, vc) == Cardinality({ i \in 1 .. Len(queue) : queue[i].vc = vc })

\* The flow control of VC vc of the link to c, as VcFlow sees it.
Flow(c, vc) == INSTANCE VcFlow WITH
  state    <- outvc[c][vc].state,
  credits  <- outvc[c][vc].credits,
  waiting  <- IF c \in LocalPorts THEN Len(nivc[c[1]][vc]) ELSE 0,
  flits    <- CountVc(pipe[c], vc),
  buffered <- IF c \in InPorts THEN Len(inbuf[c][vc]) ELSE 0,
  back     <- CountVc(crd[c], vc)

(***************************************************************************)
(* Credit bookkeeping across allocation, traversal, credit return and      *)
(* drain: the credits an output VC lacks are exactly its flits on the link,*)
(* its flits in the input VC and its credits on the way back; and an       *)
(* output VC is ACTIVE exactly when one of those (or a flit still in the   *)
(* interface) exists, and then only one.  So no flit ever arrives at an    *)
(* occupied input VC (the IDLE_ asserts of InputUnit::wakeup and doSpin).  *)
(***************************************************************************)
CreditConservation ==
  \A c \in Chans, vc \in VCs : Flow(c, vc)!CreditsExact /\ Flow(c, vc)!OnePacket

(***************************************************************************)
(* Every virtual channel of every link follows the flow control of VcFlow, *)
(* also when one step moves flits of several of them: in particular the    *)
(* drain, which bypasses links and credits, only touches quiet channels.   *)
(***************************************************************************)
ImplementsFlow ==
  /\ \A c \in Chans, vc \in VCs : Flow(c, vc)!Init
  /\ [][ \A c \in Chans, vc \in VCs : [Flow(c, vc)!Next]_(Flow(c, vc)!vars) ]_vars

(***************************************************************************)
(* No packet is lost or duplicated, whatever routers, interfaces and       *)
(* drains do: each is in exactly one place.                                *)
(***************************************************************************)
PacketConservation ==
  \A p \in Packets :
    LET inQueue(q) == Cardinality({ i \in 1 .. Len(q) : q[i].pkt = p })
        places ==
             { <<"msg", x>>  : x \in { nv \in Routers \X Vnets : inQueue(msgq[nv[1]][nv[2]]) = 1 } }
        \cup { <<"ni", x>>   : x \in { nv \in Routers \X VCs : nivc[nv[1]][nv[2]] = <<p>> } }
        \cup { <<"buf", x>>  : x \in { cv \in InPorts \X VCs : inQueue(inbuf[cv[1]][cv[2]]) = 1 } }
        \cup { <<"link", x>> : x \in { c \in Chans : inQueue(pipe[c]) = 1 } }
        \cup { <<"end", x>>  : x \in { S \in {"fresh", "delivered"} :
                                        p \in (IF S = "fresh" THEN fresh ELSE delivered) } }
    IN  Cardinality(places) = 1

\* The assert on spin_safe_ that precedes the drain in Router::wakeup, under
\* the comment "there should not be any flit on any link".
SpinSafe == running[2] = "spin" /\ DrainTime => chck_link_state

\* The assert on spin_safe_ of the router that holds the lock, PreDrainDelay
\* cycles after the threshold, under the comment "there is nothing on the link".
NothingOnLinks ==
  running = <<lock, "spin">> /\ phase = PreDrainDelay => chck_link_state

(***************************************************************************)
(* No consumer sleeps on work: a router with a buffered flit has a wakeup  *)
(* for the cycle the flit may leave, or for the cycle before, in which     *)
(* check_for_wakeup schedules it; an arrival has its consumer scheduled    *)
(* for that very cycle; an interface with messages or flits runs again.    *)
(***************************************************************************)
NoLostWakeup ==
  /\ \A c \in InPorts, vc \in VCs : \A i \in 1 .. Len(inbuf[c][vc]) :
       LET d == inbuf[c][vc][i].delay
           w == wake[RouterOf(c[1])]
       IN  \/ running[1] = c[1]
           \/ d \in w \/ (d > 0 /\ d - 1 \in w) \/ (d = 0 /\ 1 \in w)
  /\ \A c \in Chans : \A i \in 1 .. Len(pipe[c]) : pipe[c][i].delay \in wake[FlitConsumer(c)]
  /\ \A c \in Chans : \A i \in 1 .. Len(crd[c]) : crd[c][i].delay \in wake[CreditConsumer(c)]
  /\ \A n \in Routers :
       (\E v \in Vnets : msgq[n][v] # <<>>) \/ (\E vc \in VCs : nivc[n][vc] # <<>>)
         => wake[NiOf(n)] \cap {0, 1} # {}

\* Every halt ends: the drain runs and the lock is released.
HaltEnds == (lock # NoRouter) ~> (lock = NoRouter)

(***************************************************************************)
(* DRAIN's purpose: every packet a controller sends reaches its            *)
(* destination, also when routing has brought the network into a cyclic    *)
(* wait.                                                                   *)
(***************************************************************************)
EveryPacketArrives == \A p \in Packets : (p \notin fresh) ~> (p \in delivered)

(***************************************************************************)
(* The network implements the halt-and-drain protocol DrainControl, whose  *)
(* channels are all links whose state the drain relies on: flit links      *)
(* between routers and to the interfaces, and credit links between routers.*)
(* The theorems about DrainControl therefore hold of the network.          *)
(***************************************************************************)
QuietChannels == ((RingPorts \cup EjectPorts) \X {"flit"}) \cup (RingPorts \X {"credit"})

ArrivalDelays(queue) == { queue[i].delay : i \in 1 .. Len(queue) }

Control == INSTANCE DrainControl WITH
  Channels <- QuietChannels,
  wake     <- [r \in Routers |-> wake[RouterOf(r)]],
  flying   <- [x \in QuietChannels |->
                 ArrivalDelays(IF x[2] = "flit" THEN pipe[x[1]] ELSE crd[x[1]])]

\* Every step of routers, links and interfaces is a step of the protocol or
\* leaves its state alone.
ImplementsControl == Control!Spec
=============================================================================
