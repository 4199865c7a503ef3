-------------------------- MODULE NetworkInterface --------------------------
(***************************************************************************)
(* NetworkInterface::wakeup as a whole: the ejection half of NiEjection    *)
(* joined with the injection half.  A message may have several             *)
(* destinations; flitisizeMessage makes a one-flit packet for each as long *)
(* as it finds an idle VC, and leaves the rest of the message in its       *)
(* buffer.  One flit per wakeup goes to the link, chosen round robin, in   *)
(* an ordered vnet the oldest first.  While the network is locked by a     *)
(* drain no message is picked up.                                          *)
(*                                                                         *)
(* m_ni_out_vcs_enqueue_time is kept as an order: older[v] are the VCs     *)
(* whose queued flit was picked up in an earlier cycle than that of v.     *)
(***************************************************************************)
EXTENDS NiEjection, Integers, FiniteSetsExt

CONSTANTS
  NumVnets,       \* m_virtual_networks
  VcPerVnet,      \* m_vc_per_vnet
  BufDepth,       \* flit buffers per VC of the router
  Ordered,        \* the ordered vnets
  Workloads       \* what the interface is configured and used for

InjVcs == 0 .. NumVnets * VcPerVnet - 1
VnetVcs(n) == n * VcPerVnet .. (n + 1) * VcPerVnet - 1
get_vnet(v) == v \div VcPerVnet
NoVc == -1
ASSUME InterfaceAssumption ==
  /\ {NumVnets, VcPerVnet, BufDepth} \subseteq Nat \ {0}
  /\ Vnets = 0 .. NumVnets - 1
  /\ Ordered \subseteq Vnets
  /\ \A w \in Workloads :
       /\ w.eject \subseteq Vcs
       /\ w.locks \in Nat   \* how often a drain locks the network (a bound)
       /\ w.busy \in BOOLEAN /\ w.inj_single_vnet \in BOOLEAN
       /\ w.ni_inj \in {"rr", "fcfs"}
       /\ w.messages \in Seq([vnet: Vnets, dests: SUBSET Nat])
       /\ \A m \in DOMAIN w.messages : IsFiniteSet(w.messages[m].dests)

VARIABLES
  load,      \* the workload: ejection VCs in use, messages, options
  lock,      \* the network is locked
  locked,    \* drains so far
  unsent,    \* messages no controller has enqueued yet (a suffix of them)
  inNode,    \* inNode_ptr: queue of [id, dests, ready] per vnet
  niVc,      \* m_ni_out_vcs: at most one flit [id, dest] per VC
  outState,  \* m_out_vc_state, state
  outCred,   \* m_out_vc_state, credits
  older,     \* order of m_ni_out_vcs_enqueue_time
  vcAlloc,   \* m_vc_allocator
  vcRound,   \* m_vc_round_robin
  creditIn,  \* the credit inCreditLink has ready
  flits,     \* flits made for every message and destination (history)
  sent       \* the flits that left, as <<message, destination>> (history)

inj  == <<lock, locked, unsent, inNode, niVc, outState, outCred, older,
          vcAlloc, vcRound, creditIn, flits, sent>>
nivars == <<vars, inj>>

Messages == load.messages   \* [vnet, dests]; a message is named by its index
Ids == DOMAIN Messages
Dests == UNION { Messages[m].dests : m \in Ids }

Empty == [id |-> 0, dest |-> 0]

NiInit ==
  /\ Init
  /\ load \in Workloads
  /\ busy = load.busy
  /\ lock = FALSE /\ locked = 0
  /\ unsent = 1
  /\ inNode = [n \in Vnets |-> <<>>]
  /\ niVc = [v \in InjVcs |-> Empty]
  /\ outState = [v \in InjVcs |-> "IDLE"]
  /\ outCred = [v \in InjVcs |-> BufDepth]
  /\ older = [v \in InjVcs |-> {}]
  /\ vcAlloc = [n \in Vnets |-> 0]
  /\ vcRound = 0
  /\ creditIn = NoVc
  /\ flits = [x \in Ids \X Dests |-> 0]
  /\ sent = {}

-----------------------------------------------------------------------------
(***************************************************************************)
(* Picking up messages.  The vnets are visited in turn, the destinations   *)
(* of a message in turn, and each takes the next idle VC of the vnet it is *)
(* injected into; the first that finds none ends its message, and every    *)
(* later one of that vnet finds none either.  So with k idle VCs the first *)
(* k requests are served.                                                  *)
(***************************************************************************)
isReady(queue) == queue # <<>> /\ Head(queue).ready

\* The vnet whose VCs a message of vnet n is injected into.
InjVnet(n) == IF load.inj_single_vnet THEN 0 ELSE n

\* The flits the message at the head of the buffer of vnet n still needs.
RequestsOf(n) ==
  IF isReady(inNode[n]) /\ ~lock
  THEN { [vnet |-> n, id |-> Head(inNode[n]).id, dest |-> d] : d \in Head(inNode[n]).dests }
  ELSE {}

\* The flits wanted in the VCs of vnet u, and the order of the handler's loops.
Requests(u) == UNION { RequestsOf(n) : n \in { k \in Vnets : InjVnet(k) = u } }

Precedes(r, s) == r.vnet < s.vnet \/ (r.vnet = s.vnet /\ r.dest < s.dest)

\* Mutant of FreeVcs: the state of the VC is not looked at.
FreeVcsBusy(u) == VnetVcs(u)

\* The idle VCs of vnet u.
FreeVcs(u) == { v \in VnetVcs(u) : outState[v] = "IDLE" }

\* When calculateVC looks at VC v of vnet u: it starts at m_vc_allocator, or at
\* the first VC of the vnet, and wraps once.
Turn(u, v) ==
  LET first == (u * VcPerVnet) + (IF load.ni_inj = "rr" THEN vcAlloc[u] ELSE 0)
  IN  IF v < first THEN v + VcPerVnet ELSE v

\* The requests that are served, each paired with the VC that serves it: as many
\* idle VCs are found before the VC as there are requests before the request.
Served ==
  UNION { { p \in FreeVcs(u) \X Requests(u) :
              Cardinality({ v \in FreeVcs(u) : Turn(u, v) < Turn(u, p[1]) })
                = Cardinality({ r \in Requests(u) : Precedes(r, p[2]) }) } : u \in Vnets }

\* m_vc_allocator ends up behind the last VC found.
NextAlloc(served, u) ==
  LET found == { p[1] : p \in { q \in served : get_vnet(q[1]) = u } }
  IN  IF load.ni_inj = "rr" /\ found # {}
      THEN (Max({ Turn(u, v) : v \in found }) + 1) % VcPerVnet
      ELSE vcAlloc[u]

\* Mutant of Remaining: served destinations stay in a message that waits.
RemainingAll(served, n) ==
  LET m == Head(inNode[n])
      done == { p[2].dest : p \in { q \in served : q[2].vnet = n } }
  IN  IF done = m.dests THEN Tail(inNode[n]) ELSE inNode[n]

\* What is left in a buffer: a message all of whose destinations are served
\* is dequeued, another one keeps the destinations that are not.
Remaining(served, n) ==
  LET m == Head(inNode[n])
      done == { p[2].dest : p \in { q \in served : q[2].vnet = n } }
  IN  IF done = m.dests
      THEN Tail(inNode[n])
      ELSE << [m EXCEPT !.dests = @ \ done] >> \o Tail(inNode[n])

-----------------------------------------------------------------------------
Queued(vc) == { v \in InjVcs : vc[v] # Empty }

\* Mutant of IsCandidate: ordered vnets are treated like the others.
IsCandidateAny(vc, old, v) == vc[v] # Empty /\ outCred[v] > 0

\* A flit is queued, there is a credit and, in an ordered vnet, no other VC of
\* the vnet has a flit that was picked up in an earlier cycle.
IsCandidate(vc, old, v) ==
  /\ vc[v] # Empty
  /\ outCred[v] > 0
  /\ get_vnet(v) \in Ordered =>
       \A w \in VnetVcs(get_vnet(v)) : vc[w] # Empty => w \notin old[v]

\* m_vc_round_robin moves on in every wakeup, whether or not a flit is sent.
NextRound == (vcRound + 1) % (NumVnets * VcPerVnet)

\* The VC scheduleOutputLink serves, or NoVc.
OutVc(vc, old) ==
  LET total == NumVnets * VcPerVnet
      turns == { k \in 1 .. total : IsCandidate(vc, old, (vcRound + k) % total) }
  IN  IF turns = {} THEN NoVc ELSE (vcRound + Min(turns)) % total

\* Mutant of checkReschedule: only queued flits ask for a wakeup.
RescheduleFlits(q, vc) == Queued(vc) # {}

\* Whether a message or a flit is left that nobody will wake the interface for.
checkReschedule(q, vc) == (\E n \in Vnets : isReady(q[n])) \/ Queued(vc) # {}

\* m_ni_out_vcs and the order of their flits after the messages are picked up.
WithFlits(served) ==
  [v \in InjVcs |-> IF \E p \in served : p[1] = v
                    THEN LET r == (CHOOSE p \in served : p[1] = v)[2]
                         IN  [id |-> r.id, dest |-> r.dest]
                    ELSE niVc[v]]

Aged(served) ==
  [v \in InjVcs |-> IF \E p \in served : p[1] = v THEN Queued(niVc) ELSE older[v]]

\* The injection half of the handler, and the credit it takes at the end.
InjectHalf ==
  \E served \in {Served} : \E vc \in {WithFlits(served)}, old \in {Aged(served)} :
  \E out \in {OutVc(vc, old)} :
    /\ inNode' = [n \in Vnets |-> IF isReady(inNode[n]) /\ ~lock
                                  THEN Remaining(served, n) ELSE inNode[n]]
    /\ vcAlloc' = [u \in Vnets |-> NextAlloc(served, u)]
    /\ flits' = [x \in DOMAIN flits |-> flits[x] +
                   Cardinality({ p \in served : <<p[2].id, p[2].dest>> = x })]
    /\ vcRound' = NextRound
    /\ niVc' = [v \in InjVcs |-> IF v = out THEN Empty ELSE vc[v]]
    /\ older' = [v \in InjVcs |-> IF v = out THEN {} ELSE old[v] \ {out}]
    /\ sent' = IF out = NoVc THEN sent ELSE sent \union { <<vc[out].id, vc[out].dest>> }
    /\ outState' = [v \in InjVcs |-> CASE v = creditIn -> "IDLE"
                                       [] v # creditIn /\ vc[v] # niVc[v] -> "ACTIVE"
                                       [] OTHER -> outState[v]]
    /\ outCred' = [v \in InjVcs |-> outCred[v] - (IF v = out THEN 1 ELSE 0)
                                            + (IF v = creditIn THEN 1 ELSE 0)]
    /\ creditIn' = NoVc
    /\ UNCHANGED <<lock, locked, unsent>>

\* The handler: both halves in one step.
NiWakeup ==
  /\ InjectHalf
  /\ Wakeup(checkReschedule(inNode', niVc'))

\* A controller enqueues the next message; it is ready in the next cycle, for
\* which the buffer schedules the interface.
Enqueue ==
  /\ unsent \in Ids
  /\ unsent' = unsent + 1
  /\ LET m == Messages[unsent]
     IN  inNode' = [inNode EXCEPT ![m.vnet] =
                      Append(@, [id |-> unsent, dests |-> m.dests, ready |-> FALSE])]
  /\ wake' = wake \union {1}
  /\ UNCHANGED <<ovc, arrived, buf, stall, stallCount, callback, credits, linkWake>>
  /\ UNCHANGED <<lock, locked, niVc, outState, outCred, older, vcAlloc, vcRound,
                 creditIn, flits, sent>>

\* A drain locks the network and releases it later.
SetLock ==
  /\ lock \/ locked < load.locks
  /\ lock' = ~lock
  /\ locked' = IF lock THEN locked ELSE locked + 1
  /\ UNCHANGED <<vars, unsent, inNode, niVc, outState, outCred, older, vcAlloc,
                 vcRound, creditIn, flits, sent>>

\* VCs whose flit is in the router, so that a credit for them may come back.
AtRouter == { v \in InjVcs : outState[v] = "ACTIVE" /\ niVc[v] = Empty }

\* The next cycle; a flit may arrive, and a credit, and in a busy interface
\* work the model does not follow may wake it.
NiTick(v, c, other) ==
  /\ other => busy
  /\ v \in load.eject \union {NoFlit}
  /\ Tick(v, c # NoVc \/ other)
  /\ c \in AtRouter \union {NoVc}
  /\ creditIn' = c
  /\ inNode' = [n \in Vnets |-> [i \in DOMAIN inNode[n] |->
                                   [inNode[n][i] EXCEPT !.ready = TRUE]]]
  /\ UNCHANGED <<lock, locked, unsent, niVc, outState, outCred, older, vcAlloc,
                 vcRound, flits, sent>>

NiNext ==
  /\ \/ NiWakeup
     \/ CreditLinkWakeup /\ UNCHANGED inj
     \/ \E n \in Vnets : Dequeue(n) /\ UNCHANGED inj
     \/ Enqueue
     \/ SetLock
     \/ \E v \in Vcs \union {NoFlit}, c \in InjVcs \union {NoVc}, other \in BOOLEAN :
          NiTick(v, c, other)
  /\ UNCHANGED <<busy, load>>

(***************************************************************************)
(* The event queue runs every consumer that is scheduled and then goes to  *)
(* the next cycle, in which no flit and no credit has to arrive;           *)
(* controllers take every message that they can take; a lock is released;  *)
(* the router returns credits for the flits it holds; and a busy interface *)
(* is woken again and again.                                               *)
(***************************************************************************)
Arrival == Vcs \union {NoFlit}

NiFairness ==
  /\ WF_nivars(NiWakeup)
  /\ WF_nivars(CreditLinkWakeup /\ UNCHANGED inj)
  /\ WF_nivars(NiTick(NoFlit, NoVc, FALSE))
  /\ \A n \in Vnets : WF_nivars(Dequeue(n) /\ UNCHANGED inj)
  /\ WF_nivars(lock /\ SetLock)
  /\ SF_nivars(\E v \in Arrival, c \in InjVcs : NiTick(v, c, FALSE))
  /\ SF_nivars(\E v \in Arrival, c \in InjVcs \union {NoVc} : NiTick(v, c, TRUE))

NiSpec == NiInit /\ [][NiNext]_<<nivars, busy, load>> /\ NiFairness

-----------------------------------------------------------------------------
\* The values every variable of the injection half ranges over; the credit
\* counters stay between 0 and BufDepth, which OutVcState asserts.
NiTypeOK ==
  /\ TypeOK
  /\ load \in Workloads
  /\ lock \in BOOLEAN
  /\ niVc \in [InjVcs -> [id: Ids \union {0}, dest: Dests \union {0}]]
  /\ outState \in [InjVcs -> {"IDLE", "ACTIVE"}]
  /\ outCred \in [InjVcs -> 0 .. BufDepth]
  /\ older \in [InjVcs -> SUBSET InjVcs]
  /\ vcAlloc \in [Vnets -> 0 .. VcPerVnet - 1]
  /\ vcRound \in InjVcs
  /\ creditIn \in InjVcs \union {NoVc}

\* A multicast message gets one flit per destination: never two, although it
\* is flitisized again for every wakeup that runs out of VCs, and all of them
\* by the time it has left its buffer.
Waiting(m) == m >= unsent \/ \E n \in Vnets : \E i \in DOMAIN inNode[n] : inNode[n][i].id = m

EachDestinationOnce ==
  \A m \in Ids : \A d \in Messages[m].dests :
    flits[<<m, d>>] <= 1 /\ (~Waiting(m) => flits[<<m, d>>] = 1)

\* No flit is overwritten, and none leaves twice: a VC with a queued flit is
\* ACTIVE, and every flit that was made is in one VC or has left.
NoFlitOverwritten ==
  /\ \A v \in InjVcs : niVc[v] # Empty => outState[v] = "ACTIVE"
  /\ \A m \in Ids : \A d \in Messages[m].dests :
       flits[<<m, d>>] = Cardinality({ v \in InjVcs : niVc[v] = [id |-> m, dest |-> d] })
                         + (IF <<m, d>> \in sent THEN 1 ELSE 0)

\* Point-to-point order of ordered vnets: flits to a destination leave the
\* interface in the order in which controllers enqueued their messages.
LeavesInOrder ==
  [][\A x \in sent' \ sent, y \in sent :
       /\ Messages[x[1]].vnet = Messages[y[1]].vnet /\ Messages[x[1]].vnet \in Ordered
       /\ x[2] = y[2]
       => y[1] < x[1]]_nivars

\* Every message a controller enqueues is sent to all of its destinations,
\* whatever drains, credits and other vnets do.
AllIds == UNION { DOMAIN w.messages : w \in Workloads }

Enqueued(m) == m \in Ids /\ unsent > m
Sent(m) == m \in Ids /\ \A d \in Messages[m].dests : <<m, d>> \in sent

EveryMessageSent == \A m \in AllIds : Enqueued(m) ~> Sent(m)

=============================================================================
