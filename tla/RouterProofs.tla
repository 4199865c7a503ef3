---------------------------- MODULE RouterProofs ----------------------------
(***************************************************************************)
(* What a router sends with and over: its switch allocator, for every      *)
(* number of ports, vnets and VCs; the link, for every latency and any     *)
(* number of items; and the flow control of one virtual channel.           *)
(***************************************************************************)
EXTENDS SwitchAllocator, NetworkLink, WellFoundedInduction, TLAPS

\* What the arbiters need of the state: TypeOK but for the order of arrival,
\* which SA-I looks at in ordered vnets only.
AllocInv ==
  /\ inbuf \in [InPorts -> [VCs -> OutPorts \union {NoFlit, NoPort}]]
  /\ outvc \in [OutPorts -> [VCs -> {"IDLE", "ACTIVE"}]]
  /\ rrVc \in [InPorts -> VCs]
  /\ rrIn \in [OutPorts -> InPorts]
  /\ halt \in BOOLEAN

-----------------------------------------------------------------------------
\* A set of naturals that is not empty has a least element, and Min is it.
LEMMA MinIsLeast ==
  ASSUME NEW S \in SUBSET Nat, S # {}
  PROVE  Min(S) \in S /\ \A y \in S : Min(S) <= y
<1> DEFINE R == OpToRel(<, Nat)
<1>1. \E x \in S : \A y \in S : ~(<<y, x>> \in R)
  BY NatLessThanWellFounded, WFMin
<1>2. R = { ss \in Nat \X Nat : ss[1] < ss[2] }
  BY Zenon DEF OpToRel
<1> HIDE DEF R
<1>3. \A x, y \in S : ~(<<y, x>> \in R) => x <= y
  BY <1>2
<1>4. \E x \in S : \A y \in S : x <= y
  BY <1>1, <1>3
<1> QED
  BY <1>4 DEF Min

\* Counting from any pointer on, modulo the number of ports or VCs, every one
\* of them has its turn, and only they have.
LEMMA TurnsInRange ==
  ASSUME NEW N \in Nat \ {0}, NEW a \in 0 .. N - 1, NEW k \in Nat
  PROVE  (a + k) % N \in 0 .. N - 1
  OBVIOUS

LEMMA EveryoneHasATurn ==
  ASSUME NEW N \in Nat \ {0}, NEW a \in 0 .. N - 1, NEW b \in 0 .. N - 1
  PROVE  \E k \in 0 .. N - 1 : (a + k) % N = b
<1>1. CASE a <= b
  <2>1. b - a \in 0 .. N - 1 /\ a + (b - a) = b
    BY <1>1
  <2>2. b % N = b
    OBVIOUS
  <2> QED
    BY <2>1, <2>2
<1>2. CASE a > b
  <2>1. b - a + N \in 0 .. N - 1 /\ a + (b - a + N) = b + N
    BY <1>2
  <2>2. (b + N) % N = b
    OBVIOUS
  <2> QED
    BY <2>1, <2>2
<1> QED
  BY <1>1, <1>2

LEMMA Sizes ==
  /\ NumVcs \in Nat \ {0} /\ NumIn \in Nat \ {0}
  /\ VCs = 0 .. NumVcs - 1 /\ InPorts = 0 .. NumIn - 1
  /\ OutPorts \subseteq Nat /\ NoFlit \notin OutPorts /\ NoPort \notin OutPorts
  BY AllocatorAssumption DEF NumVcs, VCs, NoFlit, NoPort

-----------------------------------------------------------------------------
\* SA-I stops at a VC that may send, and finds one when there is one.
LEMMA InportsFinds ==
  ASSUME AllocInv, NEW p \in InPorts
  PROVE  LET t == arbitrate_inports[p]
         IN  /\ t \in 0 .. NumVcs
             /\ t # NumVcs => VcAt(p, t) \in VCs /\ Sendable(p, VcAt(p, t))
             /\ (\E v \in VCs : Sendable(p, v)) => t # NumVcs
<1> DEFINE A == { k \in 0 .. NumVcs - 1 :
                    inbuf[p][VcAt(p, k)] # NoFlit /\ send_allowed(p, VcAt(p, k)) }
           t == arbitrate_inports[p]
<1>1. t = Min(A \union {NumVcs})
  BY DEF arbitrate_inports
<1>2. NumVcs \in Nat \ {0} /\ VCs = 0 .. NumVcs - 1 /\ rrVc[p] \in 0 .. NumVcs - 1
  BY Sizes DEF AllocInv
<1>3. A \subseteq 0 .. NumVcs - 1 /\ \A k \in A : Sendable(p, VcAt(p, k))
  BY DEF Sendable
<1>4. \A k \in 0 .. NumVcs - 1 : VcAt(p, k) \in VCs
  <2> TAKE k \in 0 .. NumVcs - 1
  <2>1. k \in Nat
    BY <1>2
  <2>2. (rrVc[p] + k) % NumVcs \in 0 .. NumVcs - 1
    BY <1>2, <2>1, TurnsInRange
  <2> QED
    BY <1>2, <2>2 DEF VcAt
<1>5. ASSUME NEW v \in VCs, Sendable(p, v)
      PROVE  A # {}
  <2>1. PICK k \in 0 .. NumVcs - 1 : VcAt(p, k) = v
    BY <1>2, EveryoneHasATurn DEF VcAt
  <2> QED
    BY <1>5, <2>1 DEF Sendable
<1> HIDE DEF A
<1>6. A \union {NumVcs} \in SUBSET Nat /\ A \union {NumVcs} # {}
  BY <1>2, <1>3
<1>7. t \in A \union {NumVcs} /\ \A k \in A : t <= k
  BY <1>1, <1>6, MinIsLeast
<1> HIDE DEF t
<1>8. t \in 0 .. NumVcs /\ (t # NumVcs => t \in A)
  BY <1>2, <1>3, <1>7
<1>9. A # {} => t # NumVcs
  <2>1. \A k \in A : k < NumVcs /\ t <= k /\ k \in Int
    BY <1>2, <1>3, <1>7
  <2> QED
    BY <1>2, <1>8, <2>1
<1> QED
  BY <1>3, <1>4, <1>5, <1>8, <1>9 DEF t

\* SA-II grants an output port to an input port that asks for it, and to some
\* one when any does.
LEMMA OutportsFinds ==
  ASSUME AllocInv, NEW o \in OutPorts, NEW turn
  PROVE  LET w == arbitrate_outports(turn)[o]
         IN  /\ w # NoIn => w \in InPorts /\ Request(w, turn) = o
             /\ (\E p \in InPorts : Request(p, turn) = o) => w # NoIn
<1> DEFINE request == [p \in InPorts |-> Request(p, turn)]
           turns == { k \in 0 .. NumIn - 1 : request[(rrIn[o] + k) % NumIn] = o }
           w == arbitrate_outports(turn)[o]
           q == (rrIn[o] + Min(turns)) % NumIn
<1>1. w = IF turns = {} THEN NoIn ELSE q
  BY DEF arbitrate_outports, FirstAsking
<1>2. NumIn \in Nat \ {0} /\ InPorts = 0 .. NumIn - 1 /\ rrIn[o] \in 0 .. NumIn - 1
  BY Sizes DEF AllocInv
<1>3. turns \in SUBSET Nat /\ \A k \in turns : request[(rrIn[o] + k) % NumIn] = o
  BY <1>2
<1>4. turns # {} => q \in InPorts /\ request[q] = o
  <2> HAVE turns # {}
  <2>1. Min(turns) \in turns
    BY <1>3, MinIsLeast
  <2>2. Min(turns) \in Nat
    BY <1>3, <2>1
  <2> QED
    BY <1>2, <1>3, <2>1, <2>2, TurnsInRange
<1>5. ASSUME NEW p \in InPorts, Request(p, turn) = o
      PROVE  turns # {}
  <2>1. PICK k \in 0 .. NumIn - 1 : (rrIn[o] + k) % NumIn = p
    BY <1>2, EveryoneHasATurn
  <2>2. k \in turns
    BY <1>5, <2>1
  <2> QED
    BY <2>2
<1>6. \A p \in InPorts : request[p] = Request(p, turn) /\ p # NoIn
  BY <1>2 DEF NoIn
<1> HIDE DEF request, turns, w, q
<1> QED
  BY <1>1, <1>4, <1>5, <1>6 DEF w

\* A flit that SA-I picked asks for an output port with an idle VC of its vnet.
LEMMA RequestIsSendable ==
  ASSUME AllocInv, NEW p \in InPorts, NEW o \in OutPorts,
         Request(p, arbitrate_inports) = o
  PROVE  LET t == arbitrate_inports[p]
         IN  t # NumVcs /\ Sendable(p, VcAt(p, t)) /\ Outport(p, VcAt(p, t)) = o
<1>1. arbitrate_inports[p] # NumVcs
  BY Sizes DEF Request
<1> QED
  BY <1>1, InportsFinds DEF Request

\* The check of SA-I holds for every grant of SA-II.
LEMMA GrantsHaveVcs == AllocInv => VcAllocateSucceeds
<1> SUFFICES ASSUME AllocInv, NEW g \in GrantsNow
             PROVE  FreeVcs(g.out, get_vnet(g.vc)) # {}
  BY DEF VcAllocateSucceeds
<1> DEFINE turn == arbitrate_inports
           to == arbitrate_outports(turn)
<1>1. PICK o \in OutPorts : to[o] # NoIn /\ g = [in |-> to[o], vc |-> VcAt(to[o], turn[to[o]]), out |-> o]
  BY DEF GrantsNow, Grants
<1>2. to[o] \in InPorts /\ Request(to[o], turn) = o
  BY <1>1, OutportsFinds
<1> HIDE DEF turn, to
<1>3. Sendable(to[o], VcAt(to[o], turn[to[o]])) /\ Outport(to[o], VcAt(to[o], turn[to[o]])) = o
  BY <1>2, RequestIsSendable DEF turn
<1> QED
  BY <1>1, <1>3 DEF Sendable, send_allowed

\* A flit that may send makes SA-I ask for its output port or another, and
\* SA-II grant that.
LEMMA SomeGrant == AllocInv => WorkConserving
<1> SUFFICES ASSUME AllocInv, NEW p \in InPorts, NEW v \in VCs, Sendable(p, v)
             PROVE  GrantsNow # {}
  BY DEF WorkConserving
<1> DEFINE turn == arbitrate_inports
           to == arbitrate_outports(turn)
           w == VcAt(p, turn[p])
           o == Outport(p, w)
<1>1. turn[p] # NumVcs /\ Sendable(p, w)
  BY InportsFinds
<1>2. o \in OutPorts
  BY <1>1 DEF Sendable, send_allowed
<1>3. Request(p, turn) = o
  BY <1>1 DEF Request
<1>4. to[o] # NoIn
  BY <1>2, <1>3, OutportsFinds
<1>5. GrantsNow = Grants(turn, to)
  BY DEF GrantsNow
<1> HIDE DEF o, to, turn
<1> QED
  BY <1>2, <1>4, <1>5 DEF Grants

-----------------------------------------------------------------------------
\* disallow_uturn names an output port of the router or none.
LEMMA DeflectsToPort ==
  ASSUME NEW p
  PROVE  disallow_uturn(p) \in OutPorts \union {NoPort}
<1>1. \A dir : HasPortTo(dir) => PortTo(dir) \in OutPorts
  BY DEF HasPortTo, PortTo
<1> QED
  BY <1>1 DEF disallow_uturn

\* A flit keeps its output port or is deflected to another.
LEMMA OutportTyped ==
  ASSUME AllocInv, NEW p \in InPorts, NEW v \in VCs
  PROVE  Outport(p, v) \in OutPorts \union {NoFlit, NoPort}
  BY DeflectsToPort DEF Outport, AllocInv

LEMMA WakeupAlloc ==
  ASSUME AllocInv, Wakeup
  PROVE  AllocInv'
<1>1. \A p \in InPorts, v \in VCs :
        /\ Outport(p, v) \in OutPorts \union {NoFlit, NoPort}
        /\ inbuf[p][v] \in OutPorts \union {NoFlit, NoPort}
  BY OutportTyped DEF AllocInv
<1>2. inbuf' \in [InPorts -> [VCs -> OutPorts \union {NoFlit, NoPort}]]
  <2> DEFINE turn == arbitrate_inports
             gs == Grants(turn, arbitrate_outports(turn))
  <2>1. inbuf' = [p \in InPorts |-> [v \in VCs |->
                    IF \E g \in gs : g.in = p /\ g.vc = v
                    THEN NoFlit ELSE Deflected(p, v, turn)]]
    BY SMT DEF Wakeup
  <2> HIDE DEF turn, gs
  <2>2. \A p \in InPorts, v \in VCs : Deflected(p, v, turn) \in OutPorts \union {NoFlit, NoPort}
    BY <1>1 DEF Deflected
  <2> QED
    BY <2>1, <2>2
<1>3. outvc' \in [OutPorts -> [VCs -> {"IDLE", "ACTIVE"}]]
  <2>1. PICK gs : outvc' = [o \in OutPorts |-> [v \in VCs |->
                              IF \E g \in gs : g.out = o /\ vc_allocate(g) = v
                              THEN "ACTIVE" ELSE outvc[o][v]]]
    BY Zenon DEF Wakeup
  <2> QED
    BY <2>1 DEF AllocInv
<1>4. rrVc' \in [InPorts -> VCs]
  <2>1. PICK gs : rrVc' = [p \in InPorts |->
                             NextVc(p, \E v \in VCs : \E g \in gs : g.in = p /\ g.vc = v)]
    BY Zenon DEF Wakeup
  <2>2. \A p \in InPorts, won \in BOOLEAN : NextVc(p, won) \in VCs
    <3> TAKE p \in InPorts, won \in BOOLEAN
    <3>1. rrVc[p] \in 0 .. NumVcs - 1
      BY Sizes DEF AllocInv
    <3>2. (rrVc[p] + 1) % NumVcs \in 0 .. NumVcs - 1
      BY <3>1, Sizes, TurnsInRange
    <3> QED
      BY <3>1, <3>2, Sizes DEF NextVc
  <2> QED
    BY <2>1, <2>2
<1>5. rrIn' \in [OutPorts -> InPorts]
  <2>1. PICK to : rrIn' = [o \in OutPorts |-> NextIn(o, to[o] # NoIn)]
    BY Zenon DEF Wakeup
  <2>2. \A o \in OutPorts, won \in BOOLEAN : NextIn(o, won) \in InPorts
    <3> TAKE o \in OutPorts, won \in BOOLEAN
    <3>1. rrIn[o] \in 0 .. NumIn - 1
      BY Sizes DEF AllocInv
    <3>2. (rrIn[o] + 1) % NumIn \in 0 .. NumIn - 1
      BY <3>1, Sizes, TurnsInRange
    <3> QED
      BY <3>1, <3>2, Sizes DEF NextIn
  <2> QED
    BY <2>1, <2>2
<1> QED
  BY <1>2, <1>3, <1>4, <1>5 DEF AllocInv, Wakeup

\* The environment puts flits, credits and halts where they belong.
LEMMA NextAlloc ==
  ASSUME AllocInv, [Next]_vars
  PROVE  AllocInv'
<1>1. CASE Wakeup
  BY <1>1, WakeupAlloc
<1>2. CASE \E p \in InPorts, v \in VCs, o \in OutPorts : Arrive(p, v, o)
  BY <1>2 DEF Arrive, AllocInv
<1>3. CASE \E o \in OutPorts, v \in VCs : Free(o, v)
  BY <1>3 DEF Free, AllocInv
<1>4. CASE SetHalt
  BY <1>4 DEF SetHalt, AllocInv
<1>5. CASE UNCHANGED vars
  BY <1>5 DEF vars, AllocInv
<1> QED
  BY <1>1, <1>2, <1>3, <1>4, <1>5 DEF Next

LEMMA InitAlloc == Init => AllocInv
<1> SUFFICES ASSUME Init PROVE AllocInv
  OBVIOUS
<1>1. 0 \in VCs /\ 0 \in InPorts
  BY Sizes
<1> QED
  BY <1>1 DEF Init, AllocInv

\* "has to get a valid VC since it checked before performing SA": in every
\* router vc_allocate finds an idle VC for every grant of a wakeup, although
\* SA-I checked for it before any VC was given away.
THEOREM AllocationSucceeds == Spec => []VcAllocateSucceeds
<1>1. Init => AllocInv
  BY InitAlloc
<1>2. AllocInv /\ [Next]_vars => AllocInv'
  BY NextAlloc
<1>3. AllocInv => VcAllocateSucceeds
  BY GrantsHaveVcs
<1> QED
  BY <1>1, <1>2, <1>3, PTL DEF Spec

\* In every router and for every position of the round-robin pointers, a wakeup
\* that could send a flit sends one.
THEOREM AllocatorWorks == Spec => []WorkConserving
<1>1. Init => AllocInv
  BY InitAlloc
<1>2. AllocInv /\ [Next]_vars => AllocInv'
  BY NextAlloc
<1>3. AllocInv => WorkConserving
  BY SomeGrant
<1> QED
  BY <1>1, <1>2, <1>3, PTL DEF Spec

-----------------------------------------------------------------------------
(***************************************************************************)
(* The link is a delay line.                                               *)
(***************************************************************************)
Fresh == { x \in srcQueue : x.time = stamp }
Old   == { x \in srcQueue : x.time = stamp - 1 }

(***************************************************************************)
(* The source queue holds what was sent in this cycle and in the last one, *)
(* at most one item each, and the link is scheduled for either; only that  *)
(* of an interface's credits is also scheduled for nothing.  The consumer  *)
(* is scheduled for every item in the buffer, and what the link has moved  *)
(* in this cycle is the only one of the full latency.                      *)
(***************************************************************************)
QueueInv ==
  /\ srcQueue = Fresh \cup Old
  /\ \A x, y \in srcQueue : x.time = y.time => x = y
  /\ Fresh # {} => 1 \in linkAwake
  /\ 1 \in linkAwake => sent
  /\ Old # {} => 0 \in linkAwake
  /\ eager => stamp = 0
  /\ ~eager => (1 \in linkAwake => Fresh # {}) /\ (0 \in linkAwake => Old # {})

BufferInv ==
  /\ \A x \in linkBuffer : x.time \in awake
  /\ \A x, y \in linkBuffer : x.time = y.time => x = y
  /\ \A x \in linkBuffer : x.time = m_latency => 0 \notin linkAwake

ItemsDistinct ==
  /\ \A x, y \in srcQueue : x.item = y.item => x = y
  /\ \A x, y \in linkBuffer : x.item = y.item => x = y
  /\ \A x \in srcQueue, y \in linkBuffer : x.item # y.item

LinkInv == LinkTypeOK /\ QueueInv /\ BufferInv /\ ItemsDistinct

-----------------------------------------------------------------------------
\* An entry is its item and its time; ageing keeps the one and lowers the other.
LEMMA Aged ==
  ASSUME NEW x \in Entry
  PROVE  /\ x = [item |-> x.item, time |-> x.time]
         /\ x.item \in Items /\ x.time \in Int /\ -1 <= x.time /\ x.time <= m_latency
         /\ [x EXCEPT !.time = @ - 1] = [item |-> x.item, time |-> x.time - 1]
         /\ [x EXCEPT !.time = m_latency] = [item |-> x.item, time |-> m_latency]
  BY LinkAssumption DEF Entry

\* A link starts with nothing in it and nothing scheduled.
LEMMA InitLink == LinkInit => LinkInv
  BY LinkAssumption
  DEF LinkInit, LinkInv, LinkTypeOK, QueueInv, BufferInv, ItemsDistinct, Fresh, Old

\* The top of the source queue is the item of the last cycle, if there is one.
LEMMA TopOf ==
  ASSUME NEW q, NEW s \in {0, 1},
         \A x \in q : x.time = s \/ x.time = s - 1,
         \A x, y \in q : x.time = y.time => x = y
  PROVE  /\ \A x \in q : x \in Top(q) <=> (x.time = s - 1 \/ \A y \in q : y.time = s)
         /\ \A x, y \in Top(q) : x = y
         /\ q # {} => Top(q) # {}
  BY DEF Top

LEMMA TopOfQueue ==
  ASSUME LinkInv
  PROVE  /\ \A x \in srcQueue : x \in Top(srcQueue) <=> (x \in Old \/ Old = {})
         /\ \A x, y \in Top(srcQueue) : x = y
         /\ srcQueue # {} => Top(srcQueue) # {}
         /\ \A x \in srcQueue : x.time = stamp \/ x.time = stamp - 1
         /\ stamp \in {0, 1}
<1>1. stamp \in {0, 1} /\ \A x \in srcQueue : x.time = stamp \/ x.time = stamp - 1
  BY DEF LinkInv, QueueInv, Fresh, Old, LinkTypeOK
<1>2. \A x, y \in srcQueue : x.time = y.time => x = y
  BY DEF LinkInv, QueueInv
<1>3. /\ \A x \in srcQueue : x \in Top(srcQueue) <=> (x.time = stamp - 1 \/ \A y \in srcQueue : y.time = stamp)
      /\ \A x, y \in Top(srcQueue) : x = y
      /\ srcQueue # {} => Top(srcQueue) # {}
  BY <1>1, <1>2, TopOf
<1>4. Old = {} <=> \A y \in srcQueue : y.time = stamp
  BY <1>1 DEF Old
<1> QED
  BY <1>1, <1>3, <1>4 DEF Old

\* The sender of a cycle puts the only fresh item into the queue.
LEMMA SendLink ==
  ASSUME LinkInv, NEW i \in Items, Send(i), UNCHANGED <<stamp, eager>>
  PROVE  LinkInv'
<1> DEFINE e == [item |-> i, time |-> stamp]
<1> USE LinkAssumption DEF LinkInv
<1>1. /\ e \in Entry /\ e.time = stamp /\ e.item = i
      /\ srcQueue' = srcQueue \cup {e}
  BY DEF Send, LinkTypeOK, Entry
<1>2. Fresh = {} /\ ~(1 \in linkAwake)
  BY DEF Send, QueueInv
<1>3. Fresh' = {e} /\ Old' = Old /\ srcQueue = Old
  BY <1>1, <1>2 DEF Fresh, Old, QueueInv, LinkTypeOK
<1> HIDE DEF e
<1>4. LinkTypeOK'
  BY <1>1 DEF LinkTypeOK, Send
<1>5. QueueInv'
  <2>1. srcQueue' = (Fresh \cup Old)'
    BY <1>1, <1>3
  <2>2. \A x, y \in srcQueue' : x.time = y.time => x = y
    BY <1>1, <1>3 DEF QueueInv, Old, LinkTypeOK
  <2>3. 1 \in linkAwake' /\ sent' /\ (0 \in linkAwake' <=> 0 \in linkAwake)
    BY DEF Send
  <2> QED
    BY <1>3, <2>1, <2>2, <2>3 DEF QueueInv
<1>6. BufferInv'
  BY DEF BufferInv, Send
<1>7. ItemsDistinct'
  BY <1>1 DEF ItemsDistinct, Send
<1> QED
  BY <1>4, <1>5, <1>6, <1>7

\* An interface that wakes the link again changes nothing else.
LEMMA WakeAgainLink ==
  ASSUME LinkInv, WakeAgain, UNCHANGED <<stamp, eager>>
  PROVE  LinkInv'
<1> USE DEF LinkInv, WakeAgain
<1>1. Fresh' = Fresh /\ Old' = Old
  BY DEF Fresh, Old
<1>2. 1 \in linkAwake' /\ (0 \in linkAwake' <=> 0 \in linkAwake)
  OBVIOUS
<1>3. LinkTypeOK' /\ ItemsDistinct'
  BY DEF LinkTypeOK, ItemsDistinct
<1>4. QueueInv'
  BY <1>1, <1>2 DEF QueueInv
<1>5. BufferInv'
  BY <1>2 DEF BufferInv
<1> QED
  BY <1>3, <1>4, <1>5

\* A wakeup of the link moves the item of the last cycle; without one, which
\* happens for the credits of an interface only, that of this cycle.
LEMMA LinkWakeupMoves ==
  ASSUME LinkInv, LinkWakeup, UNCHANGED <<stamp, eager>>
  PROVE  \/ srcQueue = {} /\ UNCHANGED <<srcQueue, linkBuffer, awake>>
         \/ \E x \in srcQueue : Top(srcQueue) = {x} /\ (x \in Old \/ Old = {}) /\ Move(x)
<1> USE LinkAssumption DEF LinkInv
<1>1. CASE srcQueue = {}
  BY <1>1 DEF LinkWakeup, isReady, Top
<1>2. CASE srcQueue # {}
  <2>1. PICK x \in srcQueue : Top(srcQueue) = {x} /\ (x \in Old \/ Old = {})
    <3>1. PICK x \in Top(srcQueue) : TRUE
      BY <1>2, TopOfQueue
    <3>2. x \in srcQueue
      BY <3>1 DEF Top
    <3> QED
      BY <3>1, <3>2, TopOfQueue
  <2>2. x.time <= 0
    <3>1. CASE x \in Old
      BY <3>1, TopOfQueue DEF Old
    <3>2. CASE Old = {}
      <4>1. eager /\ stamp = 0
        BY <3>2 DEF LinkWakeup, QueueInv
      <4> QED
        BY <4>1, <2>1, TopOfQueue
    <3> QED
      BY <2>1, <3>1, <3>2
  <2>3. isReady(srcQueue)
    BY <2>1, <2>2 DEF isReady
  <2> QED
    BY <2>1, <2>3 DEF LinkWakeup
<1> QED
  BY <1>1, <1>2

\* The item it moves is the only one in the buffer of the full latency.
LEMMA LinkWakeupLink ==
  ASSUME LinkInv, LinkWakeup, UNCHANGED <<stamp, eager>>
  PROVE  LinkInv'
<1> USE LinkAssumption DEF LinkInv
<1>1. CASE srcQueue = {} /\ UNCHANGED <<srcQueue, linkBuffer, awake>>
  <2>1. Fresh' = {} /\ Old' = {} /\ Fresh = {} /\ linkAwake' = linkAwake \ {0} /\ sent' = sent
    BY <1>1 DEF Fresh, Old, LinkWakeup
  <2>2. LinkTypeOK' /\ ItemsDistinct' /\ BufferInv'
    BY <1>1, <2>1 DEF LinkTypeOK, ItemsDistinct, BufferInv
  <2>3. QueueInv'
    BY <1>1, <2>1 DEF QueueInv
  <2> QED
    BY <2>2, <2>3
<1>2. CASE \E x \in srcQueue : Top(srcQueue) = {x} /\ (x \in Old \/ Old = {}) /\ Move(x)
  <2>1. PICK x \in srcQueue : (x \in Old \/ Old = {}) /\ Move(x)
    BY <1>2
  <2> DEFINE e == [item |-> x.item, time |-> m_latency]
  <2>2. x \in Entry
    BY DEF LinkTypeOK
  <2>3. e = [x EXCEPT !.time = m_latency]
    BY <2>2, Aged
  <2>4. e \in Entry /\ e.item = x.item /\ e.time = m_latency
    BY <2>2 DEF Entry
  <2> HIDE DEF e
  <2>5. /\ srcQueue' = srcQueue \ {x} /\ linkBuffer' = linkBuffer \cup {e}
        /\ awake' = awake \cup {m_latency} /\ linkAwake' = linkAwake \ {0} /\ sent' = sent
        /\ 0 \in linkAwake
    BY <2>1, <2>3 DEF Move, LinkWakeup
  <2>6. Old' = {} /\ Fresh' \subseteq Fresh /\ (~eager => Fresh' = Fresh)
    <3>1. Old' = Old \ {x} /\ Fresh' = Fresh \ {x}
      BY <2>5 DEF Old, Fresh
    <3>2. \A y \in Old : x \in Old => y = x
      BY DEF QueueInv, Old
    <3>3. ~eager => x \in Old
      BY <2>1, <2>5 DEF QueueInv
    <3>4. x \in Old => x \notin Fresh
      BY DEF Old, Fresh, LinkTypeOK
    <3> QED
      BY <2>1, <3>1, <3>2, <3>3, <3>4
  <2>7. LinkTypeOK'
    BY <2>4, <2>5 DEF LinkTypeOK
  <2>8. QueueInv'
    <3>1. srcQueue' = (Fresh \cup Old)'
      <4>1. \A y \in srcQueue' : y.time = stamp \/ y.time = stamp - 1
        BY <2>5, TopOfQueue
      <4> QED
        BY <4>1 DEF Fresh, Old
    <3>2. \A u, w \in srcQueue' : u.time = w.time => u = w
      BY <2>5 DEF QueueInv
    <3>3. 0 \notin linkAwake' /\ (1 \in linkAwake' <=> 1 \in linkAwake)
      BY <2>5
    <3> QED
      BY <2>5, <2>6, <3>1, <3>2, <3>3 DEF QueueInv
  <2>9. BufferInv'
    BY <2>4, <2>5 DEF BufferInv
  <2>10. ItemsDistinct'
    BY <2>2, <2>4, <2>5 DEF ItemsDistinct
  <2> QED
    BY <2>7, <2>8, <2>9, <2>10
<1> QED
  BY <1>1, <1>2, LinkWakeupMoves

\* What the consumer finds ready is due, and all of it is one item.
LEMMA ConsumerTakes ==
  ASSUME LinkInv, ConsumerWakeup, UNCHANGED <<stamp, eager>>
  PROVE  \/ \E x \in linkBuffer : x.time = 0 /\ linkBuffer' = linkBuffer \ {x}
         \/ (\A x \in linkBuffer : x.time # 0) /\ linkBuffer' = linkBuffer
<1> USE LinkAssumption DEF LinkInv
<1>1. \A x \in linkBuffer : x.time \in 0 .. m_latency
  BY DEF BufferInv, LinkTypeOK
<1>2. CASE isReady(linkBuffer)
  <2>1. \A x \in Top(linkBuffer) : x \in linkBuffer /\ x.time = 0
    BY <1>1, <1>2 DEF isReady, Top
  <2> QED
    BY <1>2, <2>1 DEF ConsumerWakeup
<1>3. CASE ~isReady(linkBuffer)
  <2>1. \A x \in linkBuffer : x.time # 0
    BY <1>1, <1>3 DEF isReady, Top
  <2> QED
    BY <1>3, <2>1 DEF ConsumerWakeup
<1> QED
  BY <1>2, <1>3

\* After a wakeup of the consumer nothing in the buffer is due in this cycle.
LEMMA ConsumerLink ==
  ASSUME LinkInv, ConsumerWakeup, UNCHANGED <<stamp, eager>>
  PROVE  LinkInv'
<1> USE LinkAssumption DEF LinkInv
<1>1. /\ srcQueue' = srcQueue /\ linkAwake' = linkAwake /\ sent' = sent
      /\ Fresh' = Fresh /\ Old' = Old /\ awake' = awake \ {0}
  BY DEF ConsumerWakeup, Fresh, Old
<1>2. linkBuffer' \subseteq linkBuffer /\ \A x \in linkBuffer' : x.time # 0
  BY ConsumerTakes DEF BufferInv
<1>3. LinkTypeOK' /\ QueueInv' /\ ItemsDistinct'
  BY <1>1, <1>2 DEF LinkTypeOK, QueueInv, ItemsDistinct
<1>4. BufferInv'
  BY <1>1, <1>2 DEF BufferInv
<1> QED
  BY <1>3, <1>4

\* Another wakeup of the consumer touches nothing of the link.
LEMMA OtherLink ==
  ASSUME LinkInv, OtherWakeup, UNCHANGED <<stamp, eager>>
  PROVE  LinkInv'
  BY LinkAssumption
  DEF LinkInv, OtherWakeup, LinkTypeOK, QueueInv, BufferInv, ItemsDistinct, Fresh, Old

\* When a cycle may end, everything of the last one has left the source queue
\* and nothing in the buffer is due.
LEMMA TickEnds ==
  ASSUME LinkInv, Tick
  PROVE  /\ Old = {} /\ srcQueue = Fresh
         /\ \A x \in linkBuffer : x.time > 0
  BY LinkAssumption DEF LinkInv, Tick, QueueInv, BufferInv, LinkTypeOK

\* What was fresh is old in the next cycle.
LEMMA TickLink ==
  ASSUME LinkInv, Tick, UNCHANGED <<stamp, eager>>
  PROVE  LinkInv'
<1> USE LinkAssumption DEF LinkInv
<1> DEFINE Down(x) == [item |-> x.item, time |-> x.time - 1]
<1>1. /\ srcQueue' = { Down(x) : x \in srcQueue }
      /\ linkBuffer' = { Down(x) : x \in linkBuffer }
  <2>1. \A x \in srcQueue \cup linkBuffer : [x EXCEPT !.time = @ - 1] = Down(x)
    BY Aged DEF LinkTypeOK
  <2> QED
    BY <2>1, Zenon DEF Tick
<1>2. /\ linkAwake' = { t - 1 : t \in linkAwake } /\ awake' = { t - 1 : t \in awake }
      /\ 0 \notin linkAwake /\ 0 \notin awake /\ ~sent'
  BY DEF Tick
<1>3. /\ Old = {} /\ srcQueue = Fresh
      /\ \A x \in linkBuffer : x.time > 0
  BY TickEnds
<1>4. \A x \in srcQueue : x \in Entry /\ x.time = stamp
  BY <1>3 DEF Fresh, LinkTypeOK
<1>5. LinkTypeOK'
  <2>1. srcQueue' \subseteq Entry
    BY <1>1, <1>4 DEF Entry, LinkTypeOK
  <2>2. linkBuffer' \subseteq Entry
    BY <1>1, <1>3 DEF Entry, LinkTypeOK
  <2>3. linkAwake' \subseteq 0 .. 1 /\ awake' \subseteq 0 .. m_latency
    BY <1>2 DEF LinkTypeOK
  <2>4. stamp' \in {0, 1} /\ eager' \in BOOLEAN /\ sent' \in BOOLEAN
    BY DEF LinkTypeOK, Tick
  <2> QED
    BY <2>1, <2>2, <2>3, <2>4 DEF LinkTypeOK
<1>6. Fresh' = {} /\ Old' = srcQueue'
  BY <1>1, <1>4 DEF Fresh, Old, LinkTypeOK
<1>7. QueueInv'
  <2>1. \A x, y \in srcQueue' : x.time = y.time => x = y
    BY <1>1, <1>4 DEF QueueInv
  <2>2. srcQueue' # {} <=> srcQueue # {}
    BY <1>1
  <2>3. 1 \notin linkAwake'
    BY <1>2 DEF LinkTypeOK
  <2>4. 0 \in linkAwake' <=> 1 \in linkAwake
    BY <1>2 DEF LinkTypeOK
  <2> QED
    BY <1>2, <1>3, <1>6, <2>1, <2>2, <2>3, <2>4 DEF QueueInv
<1>8. \A x \in linkBuffer' : \E u \in linkBuffer : x = Down(u)
  BY <1>1
<1>9. BufferInv'
  <2>1. \A x \in linkBuffer' : x.time \in awake'
    BY <1>2, <1>8 DEF BufferInv
  <2>2. \A x, y \in linkBuffer' : x.time = y.time => x = y
    BY <1>8 DEF BufferInv, LinkTypeOK, Entry
  <2>3. \A x \in linkBuffer' : x.time # m_latency
    BY <1>8 DEF LinkTypeOK, Entry
  <2> QED
    BY <2>1, <2>2, <2>3 DEF BufferInv
<1>10. ItemsDistinct'
  <2>1. \A x, y \in srcQueue' : x.item = y.item => x = y
    BY <1>1 DEF ItemsDistinct
  <2>2. \A x, y \in linkBuffer' : x.item = y.item => x = y
    BY <1>1 DEF ItemsDistinct
  <2>3. \A x \in srcQueue', y \in linkBuffer' : x.item # y.item
    BY <1>1 DEF ItemsDistinct
  <2> QED
    BY <2>1, <2>2, <2>3 DEF ItemsDistinct
<1> QED
  BY <1>5, <1>7, <1>9, <1>10

-----------------------------------------------------------------------------
\* What an item in the source queue is for the delay line.
Due(x) == IF Leaves(x) THEN m_latency ELSE 1 + m_latency

\* All but what the link will not move in this cycle is due within its latency.
LEMMA PipeEntries ==
  ASSUME LinkInv
  PROVE  /\ \A z \in Pipe : z = [item |-> z.item, due |-> z.due]
         /\ \A x \in Old : Leaves(x)
         /\ \A x \in srcQueue : Due(x) \in m_latency .. m_latency + 1
         /\ \A x \in linkBuffer : x.time \in 0 .. m_latency
         /\ 0 \in linkAwake => \A x \in linkBuffer : x.time < m_latency
<1> USE LinkAssumption DEF LinkInv
<1>1. \A z \in Pipe : z = [item |-> z.item, due |-> z.due]
  BY DEF Pipe
<1>2. \A x \in Old : Leaves(x)
  BY TopOfQueue DEF Old, Leaves, QueueInv
<1>3. \A x \in linkBuffer : x.time \in 0 .. m_latency
  BY DEF BufferInv, LinkTypeOK
<1>4. 0 \in linkAwake => \A x \in linkBuffer : x.time < m_latency
  BY <1>3 DEF BufferInv
<1> QED
  BY <1>1, <1>2, <1>3, <1>4 DEF Due

\* The sender puts one item in: of the whole delay, or a cycle less when an
\* interface's link is awake already and has nothing else to move.
LEMMA SendIsSend ==
  ASSUME LinkInv, NEW i \in Items, Send(i), UNCHANGED <<stamp, eager>>
  PROVE  \E d \in Line!Delays : Line!Send(i, d)
<1> USE LinkAssumption
<1>1. PICK e : e = [item |-> i, time |-> stamp]
  OBVIOUS
<1> DEFINE d == IF 0 \in linkAwake /\ Old = {} THEN m_latency ELSE 1 + m_latency
           B(x) == [item |-> x.item, due |-> x.time]
           Q(x) == [item |-> x.item, due |-> Due(x)]
           R(x) == [item |-> x.item, due |-> Due(x)']
<1>2. Fresh = {} /\ stamp \in {0, 1} /\ srcQueue = Old
  BY DEF LinkInv, LinkTypeOK, QueueInv, Send
<1>3. /\ srcQueue' = srcQueue \cup {e} /\ linkBuffer' = linkBuffer
      /\ 0 \in linkAwake' <=> 0 \in linkAwake
      /\ e.item = i /\ e.time = stamp
  BY <1>1 DEF Send
<1>4. \A x \in srcQueue : x.time = stamp - 1
  BY <1>2 DEF Old
<1>5. \A x, y \in srcQueue : x.time = y.time => x = y
  BY DEF LinkInv, QueueInv
<1>6. \A x \in srcQueue' : x \in Top(srcQueue') <=> (x.time = stamp - 1 \/ \A y \in srcQueue' : y.time = stamp)
  <2>1. \A x \in srcQueue' : x.time = stamp \/ x.time = stamp - 1
    BY <1>3, <1>4
  <2>2. \A x, y \in srcQueue' : x.time = y.time => x = y
    BY <1>2, <1>3, <1>4, <1>5
  <2> QED
    BY <1>2, <2>1, <2>2, TopOf
<1>7. Due(e)' = d
  <2>1. e \in Top(srcQueue') <=> Old = {}
    <3>1. e \in srcQueue' /\ e.time = stamp /\ stamp \in Int
      BY <1>2, <1>3
    <3>2. e \in Top(srcQueue') <=> \A y \in srcQueue' : y.time = stamp
      BY <1>6, <3>1
    <3>3. (\A y \in srcQueue' : y.time = stamp) <=> srcQueue = {}
      BY <1>3, <1>4, <3>1
    <3> QED
      BY <1>2, <3>2, <3>3
  <2> QED
    BY <1>3, <2>1 DEF Due, Leaves
<1>8. \A x \in srcQueue : Due(x)' = m_latency /\ Due(x) = m_latency
  <2> TAKE x \in srcQueue
  <2>1. Leaves(x) /\ 0 \in linkAwake
    BY <1>2, PipeEntries DEF Leaves
  <2>2. x \in Top(srcQueue')
    BY <1>3, <1>4, <1>6
  <2> QED
    BY <1>3, <2>1, <2>2 DEF Due, Leaves
<1>9. d \in Line!Delays
  BY DEF Line!Delays, LinkInv, QueueInv
<1>10. \A z \in Pipe : z.item # i /\ z.due < d
  <2>1. \A x \in srcQueue : Due(x) < d
    <3> TAKE x \in srcQueue
    <3>1. Old # {} /\ Due(x) = m_latency
      BY <1>2, <1>8
    <3>2. d = 1 + m_latency
      BY <3>1
    <3> QED
      BY <3>1, <3>2
  <2>2. \A x \in linkBuffer : x.item # i /\ x.time < d
    BY PipeEntries DEF Send
  <2>3. \A x \in srcQueue : x.item # i
    BY DEF Send
  <2> QED
    BY <2>1, <2>2, <2>3 DEF Pipe, Due
<1>11. Pipe' = Pipe \cup {[item |-> i, due |-> d]}
  <2>1. Pipe = { Q(x) : x \in srcQueue } \cup { B(x) : x \in linkBuffer }
    BY DEF Pipe, Due
  <2>2. Pipe' = { R(x) : x \in srcQueue' } \cup { B(x) : x \in linkBuffer' }
    BY DEF Pipe, Due
  <2>3. R(e) = [item |-> i, due |-> d] /\ \A x \in srcQueue : R(x) = Q(x)
    BY <1>3, <1>7, <1>8
  <2> HIDE DEF d, Q, B, R
  <2> QED
    BY <1>3, <2>1, <2>2, <2>3
<1> HIDE DEF d
<1>12. Line!Send(i, d)
  BY <1>10, <1>11 DEF Line!Send
<1> QED
  BY <1>9, <1>12

\* A wakeup of the link that is scheduled again moves nothing.
LEMMA WakeAgainStutters ==
  ASSUME WakeAgain
  PROVE  Pipe' = Pipe
<1>1. /\ srcQueue' = srcQueue /\ linkBuffer' = linkBuffer
      /\ 0 \in linkAwake' <=> 0 \in linkAwake
  BY DEF WakeAgain
<1>2. \A x : Leaves(x)' <=> Leaves(x)
  BY <1>1 DEF Leaves
<1> QED
  BY <1>1, <1>2 DEF Pipe

\* The link hands an item on in the cycle in which it has the latency left.
LEMMA LinkWakeupStutters ==
  ASSUME LinkInv, LinkWakeup, UNCHANGED <<stamp, eager>>
  PROVE  Pipe' = Pipe
<1> USE LinkAssumption
<1>1. CASE srcQueue = {} /\ UNCHANGED <<srcQueue, linkBuffer, awake>>
  BY <1>1 DEF Pipe
<1>2. CASE \E x \in srcQueue : Top(srcQueue) = {x} /\ (x \in Old \/ Old = {}) /\ Move(x)
  <2>1. PICK x \in srcQueue : Top(srcQueue) = {x} /\ Move(x)
    BY <1>2
  <2> DEFINE e == [item |-> x.item, time |-> m_latency]
             Q(y) == [item |-> y.item, due |-> Due(y)]
             R(y) == [item |-> y.item, due |-> Due(y)']
             B(y) == [item |-> y.item, due |-> y.time]
  <2>2. x \in Entry
    BY DEF LinkInv, LinkTypeOK
  <2>3. [x EXCEPT !.time = m_latency] = e
    BY <2>2, Aged
  <2>4. /\ srcQueue' = srcQueue \ {x} /\ linkBuffer' = linkBuffer \cup {e}
        /\ 0 \in linkAwake /\ 0 \notin linkAwake'
    BY <2>1, <2>3 DEF Move, LinkWakeup
  <2>5. Q(x) = [item |-> x.item, due |-> m_latency] /\ B(e) = Q(x)
    BY <2>1, <2>4 DEF Due, Leaves
  <2>6. \A y \in srcQueue' : R(y) = Q(y)
    BY <2>1, <2>4 DEF Due, Leaves
  <2>7. /\ Pipe = { Q(y) : y \in srcQueue } \cup { B(y) : y \in linkBuffer }
        /\ Pipe' = { R(y) : y \in srcQueue' } \cup { B(y) : y \in linkBuffer' }
    BY DEF Pipe, Due
  <2> HIDE DEF Q, R, B, e
  <2> QED
    BY <2>4, <2>5, <2>6, <2>7
<1> QED
  BY <1>1, <1>2, LinkWakeupMoves

\* The consumer takes what is due in this cycle, if anything is.
LEMMA ConsumerArrives ==
  ASSUME LinkInv, ConsumerWakeup, UNCHANGED <<stamp, eager>>
  PROVE  (\E z \in Pipe : Line!Arrive(z)) \/ Pipe' = Pipe
<1> USE LinkAssumption
<1>1. /\ srcQueue' = srcQueue
      /\ \A y \in srcQueue : Due(y)' = Due(y)
  BY DEF ConsumerWakeup, Due, Leaves
<1>2. CASE linkBuffer' = linkBuffer
  BY <1>1, <1>2 DEF Pipe, Due
<1>3. CASE \E x \in linkBuffer : x.time = 0 /\ linkBuffer' = linkBuffer \ {x}
  <2>1. PICK x \in linkBuffer : x.time = 0 /\ linkBuffer' = linkBuffer \ {x}
    BY <1>3
  <2> DEFINE z == [item |-> x.item, due |-> 0]
  <2>2. z \in Pipe
    BY <2>1 DEF Pipe
  <2>3. \A y \in linkBuffer : y.time = 0 => y = x
    BY <2>1 DEF LinkInv, BufferInv
  <2>4. z \notin Pipe'
    <3>1. \A y \in srcQueue : Due(y)' # 0
      BY <1>1, PipeEntries
    <3>2. \A y \in linkBuffer' : y.time # 0
      BY <2>1, <2>3
    <3> QED
      BY <1>1, <3>1, <3>2 DEF Pipe, Due
  <2>5. Pipe' \cup {z} = Pipe
    <3> DEFINE Q == { [item |-> y.item, due |-> Due(y)] : y \in srcQueue }
               B(y) == [item |-> y.item, due |-> y.time]
    <3>1. B(x) = z
      BY <2>1
    <3>2. Pipe = Q \cup { B(y) : y \in linkBuffer }
      BY DEF Pipe, Due
    <3>3. Pipe' = Q \cup { B(y) : y \in linkBuffer' }
      BY <1>1 DEF Pipe, Due
    <3> HIDE DEF Q, B, z
    <3> QED
      BY <2>1, <3>1, <3>2, <3>3
  <2>6. Line!Arrive(z)
    BY <2>4, <2>5 DEF Line!Arrive
  <2> QED
    BY <2>2, <2>6
<1> QED
  BY <1>2, <1>3, ConsumerTakes

\* A cycle ends for the delay line when it ends for the link.
LEMMA TickIsTick ==
  ASSUME LinkInv, Tick, UNCHANGED <<stamp, eager>>
  PROVE  Line!Tick
<1> USE LinkAssumption
<1> DEFINE Down(x) == [item |-> x.item, time |-> x.time - 1]
           Q(x) == [item |-> x.item, due |-> 1 + m_latency]
           R(x) == [item |-> x.item, due |-> m_latency]
           B(x) == [item |-> x.item, due |-> x.time]
           D(z) == [z EXCEPT !.due = @ - 1]
<1>1. /\ srcQueue' = { Down(x) : x \in srcQueue }
      /\ linkBuffer' = { Down(x) : x \in linkBuffer }
  <2>1. \A x \in srcQueue \cup linkBuffer : [x EXCEPT !.time = @ - 1] = Down(x)
    BY Aged DEF LinkInv, LinkTypeOK
  <2>2. /\ srcQueue' = { [x EXCEPT !.time = @ - 1] : x \in srcQueue }
        /\ linkBuffer' = { [x EXCEPT !.time = @ - 1] : x \in linkBuffer }
    BY DEF Tick
  <2> QED
    BY <2>1, <2>2, Zenon
<1>2. 0 \notin linkAwake /\ srcQueue = Fresh /\ \A x \in linkBuffer : x.time > 0
  BY TickEnds DEF Tick
<1>3. \A x \in srcQueue : Due(x) = 1 + m_latency
  BY <1>2 DEF Due, Leaves
<1>4. \A y \in srcQueue' : Due(y)' = m_latency
  <2> TAKE y \in srcQueue'
  <2>1. LinkInv' /\ srcQueue # {}
    BY <1>1, TickLink
  <2>2. 0 \in linkAwake'
    BY <1>2, <2>1 DEF LinkInv, QueueInv, Tick
  <2>3. \A x \in srcQueue : x.time = stamp
    BY <1>2 DEF Fresh
  <2>4. \A u, w \in srcQueue' : u.time = w.time
    BY <1>1, <2>3
  <2>5. y \in Top(srcQueue')
    <3>1. y.time \in Int
      BY <2>1, Aged DEF LinkInv, LinkTypeOK, Entry
    <3> QED
      BY <2>4, <3>1 DEF Top
  <2> QED
    BY <2>2, <2>5 DEF Due, Leaves
<1>5. \A z \in Pipe : z.due > 0
  BY <1>2, <1>3 DEF Pipe, Due
<1>6. Pipe = { Q(x) : x \in srcQueue } \cup { B(x) : x \in linkBuffer }
  BY <1>3 DEF Pipe, Due
<1>7. Pipe' = { R(x) : x \in srcQueue' } \cup { B(x) : x \in linkBuffer' }
  BY <1>4 DEF Pipe, Due
<1>8. \A x \in srcQueue : R(Down(x)) = D(Q(x))
  OBVIOUS
<1>9. \A x \in linkBuffer : B(Down(x)) = D(B(x))
  OBVIOUS
<1> HIDE DEF Down, Q, R, B, D
<1>10. Pipe' = { D(z) : z \in Pipe }
  BY <1>1, <1>6, <1>7, <1>8, <1>9
<1> QED
  BY <1>5, <1>10 DEF Line!Tick, D

-----------------------------------------------------------------------------
\* Every step of the sender, the link, the consumer and the clock keeps LinkInv.
LEMMA NextLink ==
  ASSUME LinkInv, [LinkNext]_linkVars
  PROVE  LinkInv'
<1>1. CASE LinkNext
  BY <1>1, SendLink, WakeAgainLink, LinkWakeupLink, ConsumerLink, OtherLink, TickLink DEF LinkNext
<1>2. CASE UNCHANGED linkVars
  BY <1>2 DEF linkVars, LinkInv, LinkTypeOK, QueueInv, BufferInv, ItemsDistinct, Fresh, Old
<1> QED
  BY <1>1, <1>2

\* The link never holds more than it can: its wakeups stay within a cycle, those
\* of its consumer and the times in its heaps within the latency.
THEOREM LinkTyped == LinkSpec => []LinkTypeOK
<1>1. LinkInit => LinkInv
  BY InitLink
<1>2. LinkInv /\ [LinkNext]_linkVars => LinkInv'
  BY NextLink
<1>3. LinkInv => LinkTypeOK
  BY DEF LinkInv
<1> QED
  BY <1>1, <1>2, <1>3, PTL DEF LinkSpec

\* For every latency and any number of flits or credits, the source queue,
\* the link and its buffer are one delay line of 1 + m_latency cycles, which
\* only the credits of an interface may pass in m_latency: NetworkLink::wakeup,
\* which moves one item, leaves none behind, and the consumer is awake in the
\* very cycle in which an item is due.
THEOREM LinkIsDelayLine == LinkSpec => IsDelayLine
<1>1. LinkInit => LinkInv
  BY InitLink
<1>2. LinkInv /\ [LinkNext]_linkVars => LinkInv'
  BY NextLink
<1>3. LinkInit => Line!Init
  BY DEF LinkInit, Line!Init, Pipe
<1>4. LinkInv /\ [LinkNext]_linkVars => [Line!Next]_<<eager, Pipe>>
  <2> SUFFICES ASSUME LinkInv, [LinkNext]_linkVars
               PROVE  Line!Next \/ UNCHANGED <<eager, Pipe>>
    OBVIOUS
  <2>1. CASE \E i \in Items : Send(i) /\ UNCHANGED <<stamp, eager>>
    BY <2>1, SendIsSend DEF Line!Next
  <2>2. CASE WakeAgain /\ UNCHANGED <<stamp, eager>>
    BY <2>2, WakeAgainStutters
  <2>3. CASE LinkWakeup /\ UNCHANGED <<stamp, eager>>
    BY <2>3, LinkWakeupStutters
  <2>4. CASE ConsumerWakeup /\ UNCHANGED <<stamp, eager>>
    BY <2>4, ConsumerArrives DEF Line!Next
  <2>5. CASE OtherWakeup /\ UNCHANGED <<stamp, eager>>
    BY <2>5 DEF OtherWakeup, Pipe, Leaves
  <2>6. CASE Tick /\ UNCHANGED <<stamp, eager>>
    BY <2>6, TickIsTick DEF Line!Next
  <2>7. CASE UNCHANGED linkVars
    BY <2>7 DEF linkVars, Pipe, Leaves
  <2> QED
    BY <2>1, <2>2, <2>3, <2>4, <2>5, <2>6, <2>7 DEF LinkNext
<1> QED
  BY <1>1, <1>2, <1>3, <1>4, PTL DEF LinkSpec, IsDelayLine, Line!Spec

-----------------------------------------------------------------------------
(***************************************************************************)
(* The flow control of one virtual channel of the link is safe for every   *)
(* buffer depth.                                                           *)
(***************************************************************************)
CONSTANT BufDepth

VARIABLES state, credits, waiting, flits, buffered, back

Vc == INSTANCE VcFlow

\* A VC starts idle with all its credits.
LEMMA VcInit ==
  ASSUME BufDepth \in Nat \ {0}, Vc!Init
  PROVE  Vc!IInv
  BY DEF Vc!Init, Vc!IInv, Vc!TypeOK, Vc!CreditsExact, Vc!OnePacket

\* Every step preserves the invariant: it moves the one packet of the VC on.
LEMMA VcNext ==
  ASSUME BufDepth \in Nat \ {0}, Vc!IInv, [Vc!Next]_(Vc!vars)
  PROVE  Vc!IInv'
<1> USE DEF Vc!IInv, Vc!TypeOK, Vc!CreditsExact, Vc!OnePacket
<1>1. CASE Vc!Pick
  BY <1>1 DEF Vc!Pick
<1>2. CASE Vc!Send
  BY <1>2 DEF Vc!Send
<1>3. CASE Vc!AllocateAndSend
  BY <1>3 DEF Vc!AllocateAndSend
<1>4. CASE Vc!Arrive
  BY <1>4 DEF Vc!Arrive
<1>5. CASE Vc!Forward
  BY <1>5 DEF Vc!Forward
<1>6. CASE Vc!Eject
  BY <1>6 DEF Vc!Eject
<1>7. CASE Vc!TakeCredit
  BY <1>7 DEF Vc!TakeCredit
<1>8. CASE Vc!SpinOut
  BY <1>8 DEF Vc!SpinOut, Vc!Quiet
<1>9. CASE Vc!SpinIn
  BY <1>9 DEF Vc!SpinIn, Vc!Quiet
<1>10. CASE UNCHANGED Vc!vars
  BY <1>10 DEF Vc!vars
<1> QED
  BY <1>1, <1>2, <1>3, <1>4, <1>5, <1>6, <1>7, <1>8, <1>9, <1>10 DEF Vc!Next

\* No flit meets an occupied input VC, no credit count leaves its range.
THEOREM FlowControlSafe ==
  ASSUME BufDepth \in Nat \ {0}
  PROVE  Vc!Spec => [](Vc!IInv /\ Vc!NoOverrun)
<1>1. Vc!Init => Vc!IInv
  BY VcInit
<1>2. Vc!IInv /\ [Vc!Next]_(Vc!vars) => Vc!IInv'
  BY VcNext
<1>3. Vc!IInv => Vc!NoOverrun
  BY DEF Vc!IInv, Vc!TypeOK, Vc!CreditsExact, Vc!OnePacket, Vc!NoOverrun
<1> QED
  BY <1>1, <1>2, <1>3, PTL DEF Vc!Spec
=============================================================================
