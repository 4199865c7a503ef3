------------------------- MODULE DrainNetworkProofs -------------------------
(***************************************************************************)
(* The DRAIN network as a whole, for every mesh with a drain path, every   *)
(* number of vnets and VCs, any traffic and any order of the consumers.    *)
(***************************************************************************)
EXTENDS DrainNetwork, FiniteSetTheorems, SequenceTheorems, WellFoundedInduction, TLAPS

-----------------------------------------------------------------------------
(***************************************************************************)
(* Ports, channels and consumers.                                          *)
(***************************************************************************)
LEMMA Ring ==
  /\ SpinRing \in Seq(Routers \X Sides)
  /\ RingSize \in Nat \ {0}
  /\ RingPorts \subseteq Routers \X Sides
  /\ \A i \in 1 .. RingSize : SpinRing[i] \in RingPorts
  /\ 0 \in Routers
<1>1. RingFile \in Seq(Routers \X Sides) /\ RingFile # <<>>
  BY MeshAssumption DEF RingTyped
<1>2. 0 \in Routers
  <2>1. NumRows * NumCols \in Nat \ {0}
    BY MeshAssumption
  <2> QED
    BY <2>1 DEF Routers
<1>3. FirstNode \in Routers \X Sides
  BY <1>2 DEF FirstNode, Sides
<1>4. SpinRing \in Seq(Routers \X Sides) /\ Len(SpinRing) = 1 + Len(RingFile)
  BY <1>1, <1>3 DEF SpinRing, init_spinRing
<1>5. Len(RingFile) \in Nat
  BY <1>1
<1>6. \A i \in 1 .. RingSize : SpinRing[i] \in Routers \X Sides
  BY <1>4, ElementOfSeq DEF RingSize
<1> QED
  BY <1>2, <1>4, <1>5, <1>6 DEF RingSize, RingPorts

LEMMA ChannelTypes ==
  ASSUME NEW c \in Chans
  PROVE  /\ c[1] \in Routers
         /\ c = <<c[1], c[2]>>
         /\ c \in RingPorts => c[2] \in Sides
         /\ c \in LocalPorts <=> c[2] = "Local"
         /\ c \in EjectPorts <=> c[2] = "Eject"
         /\ c \in RingPorts <=> c[2] \in Sides
         /\ c \in InPorts <=> c[2] # "Eject"
  BY Ring DEF Chans, InPorts, LocalPorts, EjectPorts, Sides

LEMMA NetworkConstants ==
  /\ NumRows \in Nat \ {0} /\ NumCols \in Nat \ {0}
  /\ NumVnets \in Nat \ {0} /\ VcPerVnet \in Nat \ {0} /\ BufDepth \in Nat \ {0}
  /\ LinkLatency \in Nat \ {0} /\ PipeStages \in Nat \ {0}
  /\ SpinThreshold \in Nat \ {0}
  /\ LinkDelay \in Nat /\ LinkDelay >= 2 /\ LinkDelay = 1 + LinkLatency
  /\ Routers \subseteq Int /\ NoRouter \notin Routers
  BY MeshAssumption, NetworkAssumption DEF LinkDelay, Routers, NoRouter

LEMMA ConsumerTypes ==
  ASSUME NEW c \in Chans
  PROVE  FlitConsumer(c) \in Consumers /\ CreditConsumer(c) \in Consumers
<1>1. c[1] \in Routers
  BY ChannelTypes
<1>2. ASSUME c \in RingPorts PROVE get_upstreamId(c[2], c[1]) \in Routers
  BY <1>2, MeshAssumption DEF UpstreamIsDriver
<1>3. c[2] \in {"Local", "Eject"} \/ c \in RingPorts
  BY ChannelTypes DEF Chans, InPorts
<1>4. c[2] \in Sides => c[2] # "Local" /\ c[2] # "Eject"
  BY DEF Sides
<1> QED
  BY <1>1, <1>2, <1>3, <1>4, ChannelTypes
  DEF FlitConsumer, CreditConsumer, Consumers, NiOf, RouterOf

\* A router consumes the flits of its input ports, an interface those of the
\* ejection link.
LEMMA FlitConsumers ==
  ASSUME NEW c \in Chans, NEW r \in Routers
  PROVE  /\ c \in InPortsOf(r) <=> FlitConsumer(c) = RouterOf(r)
         /\ FlitConsumer(c) = NiOf(r) <=> c = <<r, "Eject">>
  BY ChannelTypes DEF InPortsOf, FlitConsumer, RouterOf, NiOf

\* The router an output port leads to is the one whose input port faces back.
LEMMA Opposite ==
  ASSUME NEW r \in Routers, NEW dir \in Sides
  PROVE  /\ get_upstreamOutportDirn(dir) \in Sides
         /\ get_upstreamId(get_upstreamOutportDirn(dir), get_upstreamId(dir, r)) = r
  BY NetworkConstants DEF Sides, get_upstreamOutportDirn, get_upstreamId

\* A router consumes the credits of its output ports, an interface those of
\* the injection link.
LEMMA OutChannel ==
  ASSUME NEW r \in Routers, NEW dir \in OutSides(r) \cup {"Local"}
  PROVE  /\ OutChan(r, dir) \in Chans \ LocalPorts
         /\ OutChan(r, dir) \in OutChansOf(r)
         /\ CreditConsumer(OutChan(r, dir)) = RouterOf(r)
<1>1. OutChan(r, dir) \in OutChansOf(r)
  BY DEF OutChansOf
<1>2. CASE dir = "Local"
  BY <1>1, <1>2 DEF OutChan, Chans, EjectPorts, LocalPorts, CreditConsumer
<1>3. CASE dir # "Local"
  <2>1. dir \in Sides /\ OutChan(r, dir) \in RingPorts
    BY <1>3 DEF OutSides
  <2>2. OutChan(r, dir) = <<get_upstreamId(dir, r), get_upstreamOutportDirn(dir)>>
    BY <1>3 DEF OutChan
  <2>3. OutChan(r, dir)[2] \in Sides
    BY <2>1, <2>2, Opposite
  <2>4. CreditConsumer(OutChan(r, dir))
          = RouterOf(get_upstreamId(OutChan(r, dir)[2], OutChan(r, dir)[1]))
    BY <2>3 DEF CreditConsumer, Sides
  <2>5. OutChan(r, dir) \notin LocalPorts
    BY <2>3 DEF Sides, LocalPorts
  <2> QED
    BY <1>1, <2>1, <2>2, <2>4, <2>5, Opposite DEF Chans, InPorts
<1> QED
  BY <1>2, <1>3

LEMMA CreditConsumers ==
  ASSUME NEW c \in Chans, NEW r \in Routers
  PROVE  /\ c \in OutChansOf(r) <=> CreditConsumer(c) = RouterOf(r)
         /\ CreditConsumer(c) = NiOf(r) <=> c = <<r, "Local">>
<1>1. c \in OutChansOf(r) => CreditConsumer(c) = RouterOf(r)
  BY OutChannel DEF OutChansOf
<1>2. CASE c \in LocalPorts
  <2>1. c[2] = "Local" /\ CreditConsumer(c) = NiOf(c[1])
    BY <1>2, ChannelTypes DEF CreditConsumer
  <2> QED
    BY <1>1, <2>1, ChannelTypes DEF RouterOf, NiOf
<1>3. CASE c \in EjectPorts
  <2>1. c[2] = "Eject" /\ CreditConsumer(c) = RouterOf(c[1])
    BY <1>3, ChannelTypes DEF CreditConsumer
  <2>2. c[1] = r => c = OutChan(r, "Local")
    BY <2>1, ChannelTypes DEF OutChan
  <2> QED
    BY <1>1, <2>1, <2>2, ChannelTypes DEF RouterOf, NiOf, OutChansOf
<1>4. CASE c \in RingPorts
  <2>1. c[2] \in Sides
    BY <1>4, ChannelTypes
  <2>2. CreditConsumer(c) = RouterOf(get_upstreamId(c[2], c[1])) /\ c[2] # "Local"
    BY <2>1 DEF CreditConsumer, Sides
  <2>3. ASSUME get_upstreamId(c[2], c[1]) = r PROVE c \in OutChansOf(r)
    <3> DEFINE dir == get_upstreamOutportDirn(c[2])
    <3>1. OutChan(r, dir) = c
      BY <1>4, <2>3, MeshAssumption DEF UpstreamIsDriver
    <3>2. dir \in Sides
      BY <2>1, ChannelTypes, Opposite
    <3> HIDE DEF dir
    <3> QED
      BY <1>4, <3>1, <3>2 DEF OutChansOf, OutSides
  <2> QED
    BY <1>1, <2>2, <2>3 DEF RouterOf, NiOf
<1> QED
  BY <1>2, <1>3, <1>4 DEF Chans, InPorts

-----------------------------------------------------------------------------
(***************************************************************************)
(* The inductive invariant.                                                *)
(***************************************************************************)
States == {"IDLE", "ACTIVE"}
FlitRecord    == [pkt: Packets, out: Sides \cup {"Local"}, delay: Nat]
MessageRecord == [pkt: Packets, delay: Nat]

\* The values every variable ranges over; that credits stay in 0 .. BufDepth is
\* a consequence of the flow control.
Typed ==
  /\ phase \in 0 .. SpinThreshold - 1
  /\ started \in BOOLEAN
  /\ spinMult \in Nat
  /\ wake \in [Consumers -> SUBSET Nat]
  /\ running \in {Idle} \cup (Routers \X {"spin", "sa"})
  /\ halt \in [Routers -> BOOLEAN]
  /\ lock \in Routers \cup {NoRouter}
  /\ inbuf \in [InPorts -> [VCs -> Seq(FlitRecord)]]
  /\ outvc \in [Chans -> [VCs -> [state: States, credits: Int]]]
  /\ pipe \in [Chans -> Seq(Transit)]
  /\ crd \in [Chans -> Seq(Credit)]
  /\ msgq \in [Routers -> [Vnets -> Seq(MessageRecord)]]
  /\ nivc \in [Routers -> [VCs -> Seq(Packets)]]

\* A buffered flit asks for an output port its router has.
Routed ==
  \A c \in InPorts, vc \in VCs : \A i \in 1 .. Len(inbuf[c][vc]) :
    inbuf[c][vc][i].out \in OutSides(c[1]) \cup {"Local"}

\* Consumer x has still to run in this cycle, or is running.
Pending(x) == 0 \in wake[x] \/ (running # Idle /\ x = RouterOf(running[1]))

\* A router that runs has used up its wakeup for this cycle.
RunsOnce == running # Idle => 0 \notin wake[RouterOf(running[1])]

Increasing(queue) ==
  \A i, j \in 1 .. Len(queue) : i < j => queue[i].delay < queue[j].delay

\* Nothing that was put on the link in this cycle.
Older(queue) == \A i \in 1 .. Len(queue) : queue[i].delay < LinkDelay

\* A link in one direction: at most one item arrives in a cycle, and its consumer,
\* whose wakeups are w, is awake then; as long as its feeder has still to run,
\* nothing was put on it in this cycle.
Lane(queue, w, pending) ==
  /\ Increasing(queue)
  /\ \A i \in 1 .. Len(queue) : queue[i].delay \in w
  /\ pending => Older(queue)

FlitLane(c)   == Lane(pipe[c], wake[FlitConsumer(c)], Pending(CreditConsumer(c)))
CreditLane(c) == Lane(crd[c], wake[CreditConsumer(c)], Pending(FlitConsumer(c)))

Lanes == \A c \in Chans : FlitLane(c) /\ CreditLane(c)

\* The halt and drain of DrainControl, on the links of the network.
HaltedWhileLocked ==
  /\ \A r \in Routers : halt[r] <=> lock # NoRouter
  /\ lock # NoRouter => started /\ phase <= DrainDelay

DrainWakeups ==
  lock # NoRouter =>
    \A r \in Routers :
      \/ DrainDelay - phase \in wake[RouterOf(r)]
      \/ phase = DrainDelay /\ running = <<r, "spin">>

SentBefore(queue, d) == \A i \in 1 .. Len(queue) : queue[i].delay <= d

AllSentBefore(d) ==
  /\ \A c \in Chans \ LocalPorts : SentBefore(pipe[c], d)
  /\ \A c \in RingPorts : SentBefore(crd[c], d)

QuietInTime ==
  /\ lock # NoRouter => AllSentBefore(LinkLatency - phase)
  /\ AtThreshold /\ lock = NoRouter => running[2] # "sa" /\ AllSentBefore(LinkLatency)

HaltInv == HaltedWhileLocked /\ DrainWakeups /\ QuietInTime

\* The flow control of every VC.
FlowInv(c, vc) == Flow(c, vc)!CreditsExact /\ Flow(c, vc)!OnePacket

NetworkInv ==
  /\ Typed
  /\ Routed
  /\ RunsOnce
  /\ Lanes
  /\ HaltInv
  /\ \A c \in Chans, vc \in VCs : FlowInv(c, vc)

-----------------------------------------------------------------------------
(***************************************************************************)
(* Queues.                                                                 *)
(***************************************************************************)
\* A queue without its head.
LEMMA Taken ==
  ASSUME NEW S, NEW q \in Seq(S), q # <<>>
  PROVE  /\ Tail(q) \in Seq(S) /\ Head(q) = q[1] /\ Head(q) \in S
         /\ Len(q) \in Nat /\ Len(q) >= 1 /\ Len(Tail(q)) = Len(q) - 1
         /\ \A i \in 1 .. Len(q) - 1 : Tail(q)[i] = q[i + 1] /\ i + 1 \in 1 .. Len(q)
<1>1. Len(q) \in Nat /\ Len(q) # 0
  BY LenProperties, EmptySeq
<1> QED
  BY <1>1, HeadTailProperties, ElementOfSeq

\* What is not at the head has not arrived.
LEMMA OnlyHeadArrives ==
  ASSUME NEW S, NEW q \in Seq(S), \A s \in S : s.delay \in Nat, Increasing(q)
  PROVE  /\ ~Ready(q) => \A i \in 1 .. Len(q) : q[i].delay # 0
         /\ q # <<>> => \A i \in 1 .. Len(Tail(q)) : Tail(q)[i].delay # 0
<1>1. \A i \in 1 .. Len(q) : q[i].delay \in Nat
  BY ElementOfSeq
<1>2. CASE q = <<>>
  BY <1>2
<1>3. CASE q # <<>>
  <2>1. /\ Head(q) = q[1] /\ Len(q) \in Nat /\ Len(q) >= 1 /\ Len(Tail(q)) = Len(q) - 1
        /\ \A i \in 1 .. Len(q) - 1 : Tail(q)[i] = q[i + 1] /\ i + 1 \in 1 .. Len(q)
    BY <1>3, Taken
  <2>2. 1 \in 1 .. Len(q) /\ \A i \in 1 .. Len(q) : i # 1 => q[1].delay < q[i].delay
    BY <2>1 DEF Increasing
  <2>3. \A i \in 1 .. Len(q) : i # 1 => q[i].delay # 0
    BY <1>1, <2>2
  <2>4. ~Ready(q) => q[1].delay # 0
    BY <1>3, <2>1 DEF Ready
  <2> QED
    BY <1>3, <2>1, <2>3, <2>4
<1> QED
  BY <1>2, <1>3

LEMMA LaneKeeps ==
  ASSUME NEW q, NEW w, NEW w2, NEW p \in BOOLEAN, NEW p2 \in BOOLEAN,
         Lane(q, w, p), w \subseteq w2, p2 => p
  PROVE  Lane(q, w2, p2)
  BY DEF Lane

\* The consumer runs and takes what has arrived.
LEMMA LaneTakes ==
  ASSUME NEW S, NEW q \in Seq(S), \A s \in S : s.delay \in Nat,
         NEW w, NEW w2, NEW p \in BOOLEAN, NEW p2 \in BOOLEAN,
         Lane(q, w, p), \A d \in w : d = 0 \/ d \in w2, p2 => p,
         NEW q2, q2 = IF Ready(q) THEN Tail(q) ELSE q
  PROVE  Lane(q2, w2, p2)
<1>1. Increasing(q) /\ (\A i \in 1 .. Len(q) : q[i].delay \in w) /\ (p => Older(q))
  BY DEF Lane
<1>2. CASE ~Ready(q)
  <2>1. \A i \in 1 .. Len(q) : q[i].delay # 0
    BY <1>1, <1>2, OnlyHeadArrives
  <2> QED
    BY <1>1, <1>2, <2>1 DEF Lane
<1>3. CASE Ready(q)
  <2>1. q # <<>>
    BY <1>3 DEF Ready
  <2>2. \A i \in 1 .. Len(Tail(q)) : Tail(q)[i].delay # 0
    BY <1>1, <2>1, OnlyHeadArrives
  <2>3. /\ Len(q) \in Nat /\ Len(Tail(q)) = Len(q) - 1
        /\ \A i \in 1 .. Len(q) - 1 : Tail(q)[i] = q[i + 1] /\ i + 1 \in 1 .. Len(q)
    BY <2>1, Taken
  <2>4. Increasing(Tail(q))
    BY <1>1, <2>3 DEF Increasing
  <2>5. \A i \in 1 .. Len(Tail(q)) : Tail(q)[i].delay \in w2
    BY <1>1, <2>2, <2>3
  <2>6. p => Older(Tail(q))
    BY <1>1, <2>3 DEF Older
  <2> QED
    BY <1>3, <2>4, <2>5, <2>6 DEF Lane
<1> QED
  BY <1>2, <1>3

\* The feeder runs and puts something on the link, behind all the rest.
LEMMA LaneSends ==
  ASSUME NEW S, NEW q \in Seq(S), \A s \in S : s.delay \in Nat,
         NEW e \in S, \A i \in 1 .. Len(q) : q[i].delay < e.delay, NEW w, NEW w2,
         Lane(q, w, TRUE), w \subseteq w2, e.delay \in w2
  PROVE  Lane(Append(q, e), w2, FALSE)
<1>1. Increasing(q) /\ (\A i \in 1 .. Len(q) : q[i].delay \in w)
  BY DEF Lane
<1>2. /\ Len(q) \in Nat /\ Len(Append(q, e)) = Len(q) + 1
      /\ \A i \in 1 .. Len(q) : Append(q, e)[i] = q[i]
      /\ Append(q, e)[Len(q) + 1] = e
  BY AppendProperties, LenProperties
<1>3. \A i \in 1 .. Len(q) + 1 : i \in 1 .. Len(q) \/ i = Len(q) + 1
  BY <1>2
<1>4. Increasing(Append(q, e))
  <2> SUFFICES ASSUME NEW i \in 1 .. Len(q) + 1, NEW j \in 1 .. Len(q) + 1, i < j
               PROVE  Append(q, e)[i].delay < Append(q, e)[j].delay
    BY <1>2 DEF Increasing
  <2>1. i \in 1 .. Len(q)
    BY <1>2
  <2>2. CASE j \in 1 .. Len(q)
    BY <1>1, <1>2, <2>1, <2>2 DEF Increasing
  <2>3. CASE j = Len(q) + 1
    BY <1>1, <1>2, <2>1, <2>3
  <2> QED
    BY <1>3, <2>2, <2>3
<1>5. \A i \in 1 .. Len(q) + 1 : Append(q, e)[i].delay \in w2
  BY <1>1, <1>2, <1>3
<1> QED
  BY <1>2, <1>4, <1>5 DEF Lane

\* The next cycle.
LEMMA CloserQueue ==
  ASSUME NEW S, NEW q \in Seq(S)
  PROVE  /\ Len(Closer(q)) = Len(q)
         /\ \A i \in 1 .. Len(q) :
              Closer(q)[i] = [q[i] EXCEPT !.delay = IF @ = 0 THEN 0 ELSE @ - 1]
         /\ \A T : (\A i \in 1 .. Len(q) : Closer(q)[i] \in T) => Closer(q) \in Seq(T)
<1>1. Len(q) \in Nat
  BY LenProperties
<1>2. DOMAIN Closer(q) = 1 .. Len(q)
  BY DEF Closer
<1>3. \A i \in 1 .. Len(q) :
        Closer(q)[i] = [q[i] EXCEPT !.delay = IF @ = 0 THEN 0 ELSE @ - 1]
  BY DEF Closer
<1>4. ASSUME NEW T, \A i \in 1 .. Len(q) : Closer(q)[i] \in T
      PROVE  Closer(q) \in Seq(T)
  <2>1. Closer(q) \in [1 .. Len(q) -> T]
    BY <1>4 DEF Closer
  <2> QED
    BY <1>1, <2>1
<1>5. Closer(q) \in Seq({ Closer(q)[i] : i \in 1 .. Len(q) })
  BY <1>4
<1>6. Len(Closer(q)) = Len(q)
  BY <1>1, <1>2, <1>5, LenProperties
<1> QED
  BY <1>3, <1>4, <1>6

\* One step closer: only the delay changes.
LEMMA CloserItems ==
  /\ \A q \in Seq(Transit) :
       /\ Closer(q) \in Seq(Transit) /\ Len(Closer(q)) = Len(q)
       /\ \A i \in 1 .. Len(q) :
            /\ Closer(q)[i].pkt = q[i].pkt /\ Closer(q)[i].vc = q[i].vc
            /\ Closer(q)[i].delay = IF q[i].delay = 0 THEN 0 ELSE q[i].delay - 1
  /\ \A q \in Seq(Credit) :
       /\ Closer(q) \in Seq(Credit) /\ Len(Closer(q)) = Len(q)
       /\ \A i \in 1 .. Len(q) :
            /\ Closer(q)[i].vc = q[i].vc
            /\ Closer(q)[i].delay = IF q[i].delay = 0 THEN 0 ELSE q[i].delay - 1
  /\ \A q \in Seq(FlitRecord) :
       /\ Closer(q) \in Seq(FlitRecord) /\ Len(Closer(q)) = Len(q)
       /\ \A i \in 1 .. Len(q) :
            /\ Closer(q)[i].pkt = q[i].pkt /\ Closer(q)[i].out = q[i].out
            /\ Closer(q)[i].delay = IF q[i].delay = 0 THEN 0 ELSE q[i].delay - 1
  /\ \A q \in Seq(MessageRecord) :
       /\ Closer(q) \in Seq(MessageRecord) /\ Len(Closer(q)) = Len(q)
       /\ \A i \in 1 .. Len(q) :
            /\ Closer(q)[i].pkt = q[i].pkt
            /\ Closer(q)[i].delay = IF q[i].delay = 0 THEN 0 ELSE q[i].delay - 1
<1>1. LinkDelay \in Nat
  BY NetworkConstants
<1>2. ASSUME NEW q \in Seq(Transit)
      PROVE  /\ Closer(q) \in Seq(Transit) /\ Len(Closer(q)) = Len(q)
             /\ \A i \in 1 .. Len(q) :
                  /\ Closer(q)[i].pkt = q[i].pkt /\ Closer(q)[i].vc = q[i].vc
                  /\ Closer(q)[i].delay = IF q[i].delay = 0 THEN 0 ELSE q[i].delay - 1
  <2>1. ASSUME NEW i \in 1 .. Len(q)
        PROVE  /\ Closer(q)[i] \in Transit
               /\ Closer(q)[i].pkt = q[i].pkt /\ Closer(q)[i].vc = q[i].vc
               /\ Closer(q)[i].delay = IF q[i].delay = 0 THEN 0 ELSE q[i].delay - 1
    <3>1. q[i] \in Transit /\ Closer(q)[i] = [q[i] EXCEPT !.delay = IF @ = 0 THEN 0 ELSE @ - 1]
      BY ElementOfSeq, CloserQueue
    <3> QED
      BY <1>1, <3>1 DEF Transit
  <2> QED
    BY <2>1, CloserQueue
<1>3. ASSUME NEW q \in Seq(Credit)
      PROVE  /\ Closer(q) \in Seq(Credit) /\ Len(Closer(q)) = Len(q)
             /\ \A i \in 1 .. Len(q) :
                  /\ Closer(q)[i].vc = q[i].vc
                  /\ Closer(q)[i].delay = IF q[i].delay = 0 THEN 0 ELSE q[i].delay - 1
  <2>1. ASSUME NEW i \in 1 .. Len(q)
        PROVE  /\ Closer(q)[i] \in Credit
               /\ Closer(q)[i].vc = q[i].vc
               /\ Closer(q)[i].delay = IF q[i].delay = 0 THEN 0 ELSE q[i].delay - 1
    <3>1. q[i] \in Credit /\ Closer(q)[i] = [q[i] EXCEPT !.delay = IF @ = 0 THEN 0 ELSE @ - 1]
      BY ElementOfSeq, CloserQueue
    <3> QED
      BY <1>1, <3>1 DEF Credit
  <2> QED
    BY <2>1, CloserQueue
<1>4. ASSUME NEW q \in Seq(FlitRecord)
      PROVE  /\ Closer(q) \in Seq(FlitRecord) /\ Len(Closer(q)) = Len(q)
             /\ \A i \in 1 .. Len(q) :
                  /\ Closer(q)[i].pkt = q[i].pkt /\ Closer(q)[i].out = q[i].out
                  /\ Closer(q)[i].delay = IF q[i].delay = 0 THEN 0 ELSE q[i].delay - 1
  <2>1. ASSUME NEW i \in 1 .. Len(q)
        PROVE  /\ Closer(q)[i] \in FlitRecord
               /\ Closer(q)[i].pkt = q[i].pkt /\ Closer(q)[i].out = q[i].out
               /\ Closer(q)[i].delay = IF q[i].delay = 0 THEN 0 ELSE q[i].delay - 1
    <3>1. q[i] \in FlitRecord /\ Closer(q)[i] = [q[i] EXCEPT !.delay = IF @ = 0 THEN 0 ELSE @ - 1]
      BY ElementOfSeq, CloserQueue
    <3> QED
      BY <3>1 DEF FlitRecord
  <2> QED
    BY <2>1, CloserQueue
<1>5. ASSUME NEW q \in Seq(MessageRecord)
      PROVE  /\ Closer(q) \in Seq(MessageRecord) /\ Len(Closer(q)) = Len(q)
             /\ \A i \in 1 .. Len(q) :
                  /\ Closer(q)[i].pkt = q[i].pkt
                  /\ Closer(q)[i].delay = IF q[i].delay = 0 THEN 0 ELSE q[i].delay - 1
  <2>1. ASSUME NEW i \in 1 .. Len(q)
        PROVE  /\ Closer(q)[i] \in MessageRecord
               /\ Closer(q)[i].pkt = q[i].pkt
               /\ Closer(q)[i].delay = IF q[i].delay = 0 THEN 0 ELSE q[i].delay - 1
    <3>1. q[i] \in MessageRecord /\ Closer(q)[i] = [q[i] EXCEPT !.delay = IF @ = 0 THEN 0 ELSE @ - 1]
      BY ElementOfSeq, CloserQueue
    <3> QED
      BY <3>1 DEF MessageRecord
  <2> QED
    BY <2>1, CloserQueue
<1> QED
  BY <1>2, <1>3, <1>4, <1>5

\* At the end of a cycle nothing is left that has arrived.
LEMMA LaneTicks ==
  ASSUME NEW S, NEW q \in Seq(S), \A s \in S : s.delay \in 0 .. LinkDelay,
         Len(Closer(q)) = Len(q),
         \A i \in 1 .. Len(q) : Closer(q)[i].delay = IF q[i].delay = 0 THEN 0 ELSE q[i].delay - 1,
         NEW w, NEW w2, NEW p, NEW p2 \in BOOLEAN, Lane(q, w, p), 0 \notin w,
         \A d \in w : d - 1 \in w2
  PROVE  Lane(Closer(q), w2, p2)
<1>1. \A i \in 1 .. Len(q) : q[i].delay \in 0 .. LinkDelay /\ q[i].delay \in w
  BY ElementOfSeq DEF Lane
<1>2. LinkDelay \in Nat
  BY NetworkConstants
<1>3. \A i \in 1 .. Len(q) : q[i].delay \in 1 .. LinkDelay /\ Closer(q)[i].delay = q[i].delay - 1
  BY <1>1, <1>2
<1>4. Increasing(Closer(q))
  BY <1>2, <1>3 DEF Increasing, Lane
<1>5. Older(Closer(q))
  BY <1>2, <1>3 DEF Older
<1>6. \A i \in 1 .. Len(q) : Closer(q)[i].delay \in w2
  BY <1>1, <1>3
<1> QED
  BY <1>4, <1>5, <1>6 DEF Lane

-----------------------------------------------------------------------------
(***************************************************************************)
(* How many items of a queue belong to a VC.                               *)
(***************************************************************************)
Of(q, vc) == { i \in 1 .. Len(q) : q[i].vc = vc }

LEMMA CountType ==
  ASSUME NEW S, NEW q \in Seq(S), NEW vc
  PROVE  IsFiniteSet(Of(q, vc)) /\ CountVc(q, vc) \in Nat /\ CountVc(q, vc) = Cardinality(Of(q, vc))
<1>1. Len(q) \in Nat
  BY LenProperties
<1>2. IsFiniteSet(1 .. Len(q))
  BY <1>1, FS_Interval
<1>3. Of(q, vc) \subseteq 1 .. Len(q)
  BY DEF Of
<1> QED
  BY <1>2, <1>3, FS_Subset, FS_CardinalityType DEF CountVc, Of

LEMMA CountNone ==
  ASSUME NEW vc
  PROVE  CountVc(<<>>, vc) = 0
<1>1. { i \in 1 .. Len(<<>>) : <<>>[i].vc = vc } = {}
  OBVIOUS
<1> QED
  BY <1>1, FS_EmptySet DEF CountVc

LEMMA CountSome ==
  ASSUME NEW S, NEW q \in Seq(S), NEW i \in 1 .. Len(q)
  PROVE  CountVc(q, q[i].vc) >= 1
<1>1. i \in Of(q, q[i].vc)
  BY DEF Of
<1>2. Of(q, q[i].vc) # {}
  BY <1>1
<1>3. Cardinality(Of(q, q[i].vc)) # 0
  BY <1>2, CountType, FS_EmptySet
<1> QED
  BY <1>3, CountType

\* An item is put at the end, or the first one taken.
LEMMA CountAppend ==
  ASSUME NEW S, NEW q \in Seq(S), NEW e \in S, NEW vc
  PROVE  CountVc(Append(q, e), vc) = CountVc(q, vc) + IF e.vc = vc THEN 1 ELSE 0
<1>1. /\ Append(q, e) \in Seq(S)
      /\ Len(q) \in Nat /\ Len(Append(q, e)) = Len(q) + 1
      /\ \A i \in 1 .. Len(q) : Append(q, e)[i] = q[i]
      /\ Append(q, e)[Len(q) + 1] = e
  BY AppendProperties, LenProperties
<1>2. \A i \in 1 .. Len(q) + 1 : i \in 1 .. Len(q) \/ i = Len(q) + 1
  BY <1>1
<1>3. Len(q) + 1 \notin Of(q, vc)
  BY <1>1 DEF Of
<1>4. IsFiniteSet(Of(q, vc)) /\ Cardinality(Of(q, vc)) \in Nat
  BY CountType, FS_CardinalityType
<1>5. CASE e.vc = vc
  <2>1. Of(Append(q, e), vc) = Of(q, vc) \cup {Len(q) + 1}
    BY <1>1, <1>2, <1>5 DEF Of
  <2>2. Cardinality(Of(q, vc) \cup {Len(q) + 1}) = Cardinality(Of(q, vc)) + 1
    BY <1>3, <1>4, FS_AddElement
  <2> QED
    BY <1>1, <1>5, <2>1, <2>2, CountType
<1>6. CASE e.vc # vc
  <2>1. Of(Append(q, e), vc) = Of(q, vc)
    BY <1>1, <1>2, <1>6 DEF Of
  <2>2. CountVc(Append(q, e), vc) = CountVc(q, vc) /\ CountVc(q, vc) \in Nat
    BY <1>1, <2>1, CountType, Zenon
  <2> QED
    BY <1>6, <2>2
<1> QED
  BY <1>5, <1>6

LEMMA CountTail ==
  ASSUME NEW S, NEW q \in Seq(S), q # <<>>, NEW vc
  PROVE  CountVc(q, vc) = CountVc(Tail(q), vc) + IF Head(q).vc = vc THEN 1 ELSE 0
<1>1. /\ Tail(q) \in Seq(S) /\ Head(q) = q[1]
      /\ Len(q) \in Nat /\ Len(q) >= 1 /\ Len(Tail(q)) = Len(q) - 1
      /\ \A i \in 1 .. Len(q) - 1 : Tail(q)[i] = q[i + 1] /\ i + 1 \in 1 .. Len(q)
  BY Taken
<1> DEFINE A == Of(Tail(q), vc)
           B == Of(q, vc) \ {1}
           f == [i \in A |-> i + 1]
<1>2. A \subseteq 1 .. Len(q) - 1 /\ B \subseteq 1 .. Len(q)
  BY <1>1 DEF Of
<1>3. \A i \in A : i + 1 \in B
  BY <1>1, <1>2 DEF Of
<1>4. f \in [A -> B]
  BY <1>3
<1>5. \A i, j \in A : f[i] = f[j] => i = j
  BY <1>1, <1>2
<1>6. \A j \in B : \E i \in A : f[i] = j
  <2> TAKE j \in B
  <2>1. j \in 1 .. Len(q) /\ j # 1 /\ q[j].vc = vc
    BY DEF Of
  <2>2. j - 1 \in 1 .. Len(q) - 1 /\ (j - 1) + 1 = j
    BY <1>1, <2>1
  <2>3. j - 1 \in A
    BY <1>1, <2>1, <2>2 DEF Of
  <2> QED
    BY <2>2, <2>3
<1>7. f \in Bijection(A, B)
  BY <1>4, <1>5, <1>6 DEF Bijection, Injection, Surjection, IsInjective
<1>8. IsFiniteSet(Of(q, vc)) /\ IsFiniteSet(A) /\ Cardinality(A) \in Nat
  BY <1>1, CountType, FS_CardinalityType
<1>9. IsFiniteSet(B) /\ Cardinality(B) \in Nat
  BY <1>8, FS_Subset, FS_CardinalityType
<1>10. Cardinality(B) = Cardinality(A)
  <2>1. ExistsBijection(A, B)
    BY <1>7 DEF ExistsBijection
  <2> HIDE DEF A, B
  <2> QED
    BY <1>8, <2>1, FS_Bijection
<1>11. CASE Head(q).vc = vc
  <2>1. Of(q, vc) = B \cup {1} /\ 1 \notin B
    BY <1>1, <1>11 DEF Of
  <2>2. Cardinality(B \cup {1}) = Cardinality(B) + 1
    BY <1>9, <2>1, FS_AddElement
  <2>3. CountVc(q, vc) = Cardinality(Of(q, vc)) /\ CountVc(Tail(q), vc) = Cardinality(A)
    BY <1>1, CountType
  <2>4. Cardinality(Of(q, vc)) = Cardinality(A) + 1
    BY <1>10, <2>1, <2>2
  <2> HIDE DEF A, B
  <2> QED
    BY <1>8, <1>11, <2>3, <2>4
<1>12. CASE Head(q).vc # vc
  <2>1. Of(q, vc) = B
    BY <1>1, <1>12 DEF Of
  <2>2. CountVc(q, vc) = CountVc(Tail(q), vc) /\ CountVc(q, vc) \in Nat
    BY <1>1, <1>10, <2>1, CountType
  <2> QED
    BY <1>12, <2>2
<1> QED
  BY <1>11, <1>12

LEMMA CountCloser ==
  ASSUME NEW S, NEW q \in Seq(S), Len(Closer(q)) = Len(q),
         \A i \in 1 .. Len(q) : Closer(q)[i].vc = q[i].vc, NEW vc
  PROVE  CountVc(Closer(q), vc) = CountVc(q, vc)
<1>1. { i \in 1 .. Len(Closer(q)) : Closer(q)[i].vc = vc } = { i \in 1 .. Len(q) : q[i].vc = vc }
  OBVIOUS
<1> QED
  BY <1>1 DEF CountVc

-----------------------------------------------------------------------------
(***************************************************************************)
(* Flow control of one VC.                                                 *)
(***************************************************************************)
Waiting(c, vc)  == IF c \in LocalPorts THEN Len(nivc[c[1]][vc]) ELSE 0
Buffered(c, vc) == IF c \in InPorts THEN Len(inbuf[c][vc]) ELSE 0
OnLink(c, vc)   == CountVc(pipe[c], vc)
Back(c, vc)     == CountVc(crd[c], vc)

LEMMA QueueTypes ==
  ASSUME Typed
  PROVE  /\ \A c \in Chans : pipe[c] \in Seq(Transit) /\ crd[c] \in Seq(Credit)
         /\ \A c \in InPorts, vc \in VCs : inbuf[c][vc] \in Seq(FlitRecord)
         /\ \A n \in Routers, v \in Vnets : msgq[n][v] \in Seq(MessageRecord)
         /\ \A n \in Routers, vc \in VCs : nivc[n][vc] \in Seq(Packets)
         /\ \A c \in Chans, vc \in VCs : outvc[c][vc] \in [state: States, credits: Int]
         /\ \A x \in Consumers : wake[x] \in SUBSET Nat
  BY DEF Typed

LEMMA FlowTypes ==
  ASSUME Typed, NEW c \in Chans, NEW vc \in VCs
  PROVE  /\ Waiting(c, vc) \in Nat /\ Buffered(c, vc) \in Nat
         /\ OnLink(c, vc) \in Nat /\ Back(c, vc) \in Nat
         /\ outvc[c][vc].state \in States /\ outvc[c][vc].credits \in Int
<1>1. c[1] \in Routers
  BY ChannelTypes
<1>2. Waiting(c, vc) \in Nat
  <2>1. Len(nivc[c[1]][vc]) \in Nat
    BY <1>1, QueueTypes, LenProperties
  <2> QED
    BY <2>1 DEF Waiting
<1>3. Buffered(c, vc) \in Nat
  <2>1. c \in InPorts => Len(inbuf[c][vc]) \in Nat
    BY QueueTypes, LenProperties
  <2> QED
    BY <2>1 DEF Buffered
<1>4. OnLink(c, vc) \in Nat /\ Back(c, vc) \in Nat
  BY QueueTypes, CountType DEF OnLink, Back
<1>5. outvc[c][vc] \in [state: States, credits: Int]
  BY QueueTypes
<1> QED
  BY <1>2, <1>3, <1>4, <1>5

LEMMA FlowTypesNext ==
  ASSUME Typed', NEW c \in Chans, NEW vc \in VCs
  PROVE  OnLink(c, vc)' \in Nat /\ Back(c, vc)' \in Nat
<1>1. pipe'[c] \in Seq(Transit) /\ crd'[c] \in Seq(Credit)
  BY DEF Typed
<1>2. CountVc(pipe'[c], vc) \in Nat /\ CountVc(crd'[c], vc) \in Nat
  BY <1>1, CountType
<1> QED
  BY <1>2 DEF OnLink, Back, CountVc

FlowStep(c, vc) == [Flow(c, vc)!Next]_(Flow(c, vc)!vars)

\* What the flow control says, with the network's own names.
LEMMA FlowNames ==
  ASSUME NEW c, NEW vc
  PROVE  /\ Flow(c, vc)!CreditsExact <=>
              outvc[c][vc].credits = BufDepth - OnLink(c, vc) - Buffered(c, vc) - Back(c, vc)
         /\ Flow(c, vc)!OnePacket <=>
              Waiting(c, vc) + OnLink(c, vc) + Buffered(c, vc) + Back(c, vc)
                = IF outvc[c][vc].state = "IDLE" THEN 0 ELSE 1
  BY DEF Flow!CreditsExact, Flow!OnePacket, Waiting, Buffered, OnLink, Back

\* A step of one VC as a relation between numbers.
Moves(st, cr, w, f, b, k, st2, cr2, w2, f2, b2, k2) ==
  \/ /\ st = "IDLE" /\ st2 = "ACTIVE" /\ w2 = w + 1
     /\ cr2 = cr /\ f2 = f /\ b2 = b /\ k2 = k
  \/ /\ w > 0 /\ cr > 0 /\ w2 = w - 1 /\ cr2 = cr - 1 /\ f2 = f + 1
     /\ st2 = st /\ b2 = b /\ k2 = k
  \/ /\ st = "IDLE" /\ st2 = "ACTIVE" /\ cr2 = cr - 1 /\ f2 = f + 1
     /\ w2 = w /\ b2 = b /\ k2 = k
  \/ /\ f > 0 /\ f2 = f - 1 /\ b2 = b + 1
     /\ st2 = st /\ cr2 = cr /\ w2 = w /\ k2 = k
  \/ /\ b > 0 /\ b2 = b - 1 /\ k2 = k + 1
     /\ st2 = st /\ cr2 = cr /\ w2 = w /\ f2 = f
  \/ /\ f > 0 /\ f2 = f - 1 /\ k2 = k + 1
     /\ st2 = st /\ cr2 = cr /\ w2 = w /\ b2 = b
  \/ /\ k > 0 /\ k2 = k - 1 /\ cr2 = cr + 1 /\ st2 = "IDLE"
     /\ w2 = w /\ f2 = f /\ b2 = b
  \/ /\ w = 0 /\ f = 0 /\ k = 0 /\ b > 0
     /\ b2 = b - 1 /\ cr2 = cr + 1 /\ st2 = "IDLE" /\ w2 = w /\ f2 = f /\ k2 = k
  \/ /\ w = 0 /\ f = 0 /\ k = 0 /\ b = 0
     /\ b2 = b + 1 /\ cr2 = cr - 1 /\ st2 = "ACTIVE" /\ w2 = w /\ f2 = f /\ k2 = k
  \/ st2 = st /\ cr2 = cr /\ w2 = w /\ f2 = f /\ b2 = b /\ k2 = k

FlowMove(c, vc) ==
  Moves(outvc[c][vc].state, outvc[c][vc].credits,
        Waiting(c, vc), OnLink(c, vc), Buffered(c, vc), Back(c, vc),
        outvc'[c][vc].state, outvc'[c][vc].credits,
        Waiting(c, vc)', OnLink(c, vc)', Buffered(c, vc)', Back(c, vc)')

\* It is a step of VcFlow, or leaves its variables alone.
LEMMA FlowMoves ==
  ASSUME NEW c, NEW vc
  PROVE  FlowStep(c, vc) <=> FlowMove(c, vc)
  BY DEF FlowStep, FlowMove, Moves, Waiting, Buffered, OnLink, Back,
      Flow!Next, Flow!vars, Flow!Pick, Flow!Send,
      Flow!AllocateAndSend, Flow!Arrive, Flow!Forward, Flow!Eject, Flow!TakeCredit,
      Flow!SpinOut, Flow!SpinIn, Flow!Quiet

LEMMA FlowPreserved ==
  ASSUME Typed, NEW c \in Chans, NEW vc \in VCs, FlowInv(c, vc), FlowMove(c, vc)
  PROVE  FlowInv(c, vc)'
<1> DEFINE st == outvc[c][vc].state
           cr == outvc[c][vc].credits
           w  == Waiting(c, vc)
           f  == OnLink(c, vc)
           b  == Buffered(c, vc)
           k  == Back(c, vc)
<1>1. /\ w \in Nat /\ f \in Nat /\ b \in Nat /\ k \in Nat
      /\ st \in States /\ cr \in Int
  BY FlowTypes
<1>2. /\ cr = BufDepth - f - b - k
      /\ w + f + b + k = IF st = "IDLE" THEN 0 ELSE 1
  BY FlowNames DEF FlowInv
<1>3. FlowInv(c, vc)' <=> /\ cr' = BufDepth - f' - b' - k'
                          /\ w' + f' + b' + k' = IF st' = "IDLE" THEN 0 ELSE 1
  BY DEF FlowInv, Flow!CreditsExact, Flow!OnePacket, Waiting, Buffered, OnLink, Back
<1>4. Moves(st, cr, w, f, b, k, st', cr', w', f', b', k')
  BY DEF FlowMove
<1>5. BufDepth \in Nat
  BY NetworkConstants
<1> HIDE DEF st, cr, w, f, b, k
<1>6. /\ cr' = BufDepth - f' - b' - k'
      /\ w' + f' + b' + k' = IF st' = "IDLE" THEN 0 ELSE 1
  BY <1>1, <1>2, <1>4, <1>5 DEF Moves, States
<1> QED
  BY <1>3, <1>6

-----------------------------------------------------------------------------
(***************************************************************************)
(* The steps.  A drain finds the links empty if they are fast enough and   *)
(* the period is long enough for the halt.                                 *)
(***************************************************************************)
DrainFits == LinkLatency <= PreDrainDelay /\ SpinThreshold > DrainDelay

StepOK ==
  /\ Typed'
  /\ Routed'
  /\ RunsOnce'
  /\ Lanes'
  /\ HaltInv'
  /\ \A c \in Chans, vc \in VCs : FlowMove(c, vc)

LEMMA ScheduleAdds ==
  ASSUME NEW w \in [Consumers -> SUBSET Nat], NEW who, NEW d \in Nat
  PROVE  /\ Schedule(w, who, d) \in [Consumers -> SUBSET Nat]
         /\ \A x \in Consumers :
              /\ w[x] \subseteq Schedule(w, who, d)[x]
              /\ x \in who => d \in Schedule(w, who, d)[x]
              /\ 0 \in Schedule(w, who, d)[x] /\ d # 0 => 0 \in w[x]
  BY DEF Schedule

LEMMA RouterConsumer ==
  ASSUME NEW r \in Routers
  PROVE  /\ RouterOf(r) \in Consumers /\ NiOf(r) \in Consumers
         /\ RouterOf(r) \in RouterConsumers
         /\ \A s : RouterOf(r) = RouterOf(s) => r = s
         /\ \A s : NiOf(r) = NiOf(s) => r = s
         /\ \A s : RouterOf(r) # NiOf(s)
  BY DEF RouterOf, NiOf, Consumers, RouterConsumers

LEMMA RunningRouter ==
  ASSUME NEW r \in Routers, NEW step
  PROVE  <<r, step>> # Idle
  BY NetworkConstants DEF Idle

LEMMA PendingType == \A x : Pending(x) \in BOOLEAN /\ Pending(x)' \in BOOLEAN
  BY DEF Pending

\* Links that a step does not touch.
LEMMA FlitLaneKept ==
  ASSUME Lanes, NEW c \in Chans, pipe'[c] = pipe[c],
         wake[FlitConsumer(c)] \subseteq wake'[FlitConsumer(c)],
         Pending(CreditConsumer(c))' => Pending(CreditConsumer(c))
  PROVE  FlitLane(c)'
<1>1. Lane(pipe[c], wake[FlitConsumer(c)], Pending(CreditConsumer(c)))
  BY DEF Lanes, FlitLane
<1>2. Lane(pipe[c], wake'[FlitConsumer(c)], Pending(CreditConsumer(c))')
  BY <1>1, LaneKeeps, PendingType
<1> QED
  BY <1>2 DEF FlitLane, Lane, Increasing, Older, FlitConsumer, CreditConsumer

LEMMA CreditLaneKept ==
  ASSUME Lanes, NEW c \in Chans, crd'[c] = crd[c],
         wake[CreditConsumer(c)] \subseteq wake'[CreditConsumer(c)],
         Pending(FlitConsumer(c))' => Pending(FlitConsumer(c))
  PROVE  CreditLane(c)'
<1>1. Lane(crd[c], wake[CreditConsumer(c)], Pending(FlitConsumer(c)))
  BY DEF Lanes, CreditLane
<1>2. Lane(crd[c], wake'[CreditConsumer(c)], Pending(FlitConsumer(c))')
  BY <1>1, LaneKeeps, PendingType
<1> QED
  BY <1>2 DEF CreditLane, Lane, Increasing, Older, FlitConsumer, CreditConsumer

LEMMA ItemDelays ==
  /\ \A s \in Transit : s.delay \in 0 .. LinkDelay /\ s.delay \in Nat
  /\ \A s \in Credit : s.delay \in 0 .. LinkDelay /\ s.delay \in Nat
  BY NetworkConstants DEF Transit, Credit

\* The consumer of the flits runs.
LEMMA FlitLaneTaken ==
  ASSUME Typed, Lanes, NEW c \in Chans,
         pipe'[c] = IF Ready(pipe[c]) THEN Tail(pipe[c]) ELSE pipe[c],
         wake[FlitConsumer(c)] \ {0} \subseteq wake'[FlitConsumer(c)],
         Pending(CreditConsumer(c))' => Pending(CreditConsumer(c))
  PROVE  FlitLane(c)'
<1>1. pipe[c] \in Seq(Transit) /\ \A s \in Transit : s.delay \in Nat
  BY QueueTypes, ItemDelays
<1>2. Lane(pipe[c], wake[FlitConsumer(c)], Pending(CreditConsumer(c)))
  BY DEF Lanes, FlitLane
<1>3. Pending(CreditConsumer(c)) \in BOOLEAN /\ Pending(CreditConsumer(c))' \in BOOLEAN
  BY PendingType
<1> DEFINE q  == pipe[c]
           w  == wake[FlitConsumer(c)]
           w2 == wake'[FlitConsumer(c)]
           p  == Pending(CreditConsumer(c))
           p2 == Pending(CreditConsumer(c))'
           q2 == IF Ready(q) THEN Tail(q) ELSE q
<1>4. Lane(q2, w2, p2)
  <2>1. /\ q \in Seq(Transit) /\ (\A s \in Transit : s.delay \in Nat)
        /\ p \in BOOLEAN /\ p2 \in BOOLEAN /\ Lane(q, w, p) /\ (\A d \in w : d = 0 \/ d \in w2)
        /\ (p2 => p) /\ q2 = IF Ready(q) THEN Tail(q) ELSE q
    BY <1>1, <1>2, <1>3
  <2> HIDE DEF q, w, w2, p, p2, q2
  <2> QED
    BY <2>1, LaneTakes
<1> QED
  BY <1>4 DEF FlitLane, Lane, Increasing, Older, FlitConsumer, CreditConsumer

\* The feeder of the flits runs.
LEMMA FlitLaneSent ==
  ASSUME Typed, Lanes, NEW c \in Chans, NEW e \in Transit, e.delay = LinkDelay,
         pipe'[c] = Append(pipe[c], e),
         wake[FlitConsumer(c)] \subseteq wake'[FlitConsumer(c)],
         LinkDelay \in wake'[FlitConsumer(c)],
         Pending(CreditConsumer(c)), ~Pending(CreditConsumer(c))'
  PROVE  FlitLane(c)'
<1>1. pipe[c] \in Seq(Transit) /\ \A s \in Transit : s.delay \in Nat
  BY QueueTypes, ItemDelays
<1>2. Lane(pipe[c], wake[FlitConsumer(c)], TRUE)
  BY DEF Lanes, FlitLane, Lane
<1> DEFINE q  == pipe[c]
           w  == wake[FlitConsumer(c)]
           w2 == wake'[FlitConsumer(c)]
<1>3. Lane(Append(q, e), w2, FALSE)
  <2>1. /\ q \in Seq(Transit) /\ (\A s \in Transit : s.delay \in Nat)
        /\ Lane(q, w, TRUE) /\ w \subseteq w2 /\ e.delay \in w2
    BY <1>1, <1>2
  <2>2. \A i \in 1 .. Len(q) : q[i].delay < e.delay
    BY <1>2 DEF Lane, Older
  <2> HIDE DEF q, w, w2
  <2> QED
    BY <2>1, <2>2, LaneSends
<1> QED
  BY <1>3 DEF FlitLane, Lane, Increasing, Older, FlitConsumer, CreditConsumer

\* The consumer of the credits runs.
LEMMA CreditLaneTaken ==
  ASSUME Typed, Lanes, NEW c \in Chans,
         crd'[c] = IF Ready(crd[c]) THEN Tail(crd[c]) ELSE crd[c],
         wake[CreditConsumer(c)] \ {0} \subseteq wake'[CreditConsumer(c)],
         Pending(FlitConsumer(c))' => Pending(FlitConsumer(c))
  PROVE  CreditLane(c)'
<1>1. crd[c] \in Seq(Credit) /\ \A s \in Credit : s.delay \in Nat
  BY QueueTypes, ItemDelays
<1>2. Lane(crd[c], wake[CreditConsumer(c)], Pending(FlitConsumer(c)))
  BY DEF Lanes, CreditLane
<1>3. Pending(FlitConsumer(c)) \in BOOLEAN /\ Pending(FlitConsumer(c))' \in BOOLEAN
  BY PendingType
<1> DEFINE q  == crd[c]
           w  == wake[CreditConsumer(c)]
           w2 == wake'[CreditConsumer(c)]
           p  == Pending(FlitConsumer(c))
           p2 == Pending(FlitConsumer(c))'
           q2 == IF Ready(q) THEN Tail(q) ELSE q
<1>4. Lane(q2, w2, p2)
  <2>1. /\ q \in Seq(Credit) /\ (\A s \in Credit : s.delay \in Nat)
        /\ p \in BOOLEAN /\ p2 \in BOOLEAN /\ Lane(q, w, p) /\ (\A d \in w : d = 0 \/ d \in w2)
        /\ (p2 => p) /\ q2 = IF Ready(q) THEN Tail(q) ELSE q
    BY <1>1, <1>2, <1>3
  <2> HIDE DEF q, w, w2, p, p2, q2
  <2> QED
    BY <2>1, LaneTakes
<1> QED
  BY <1>4 DEF CreditLane, Lane, Increasing, Older, FlitConsumer, CreditConsumer

\* The feeder of the credits runs and queues one behind all the others.
LEMMA CreditLaneQueued ==
  ASSUME Typed, Lanes, NEW c \in Chans, NEW e \in Credit,
         \A i \in 1 .. Len(crd[c]) : crd[c][i].delay < e.delay,
         crd'[c] = Append(crd[c], e),
         wake[CreditConsumer(c)] \subseteq wake'[CreditConsumer(c)],
         e.delay \in wake'[CreditConsumer(c)],
         Pending(FlitConsumer(c)), ~Pending(FlitConsumer(c))'
  PROVE  CreditLane(c)'
<1>1. crd[c] \in Seq(Credit) /\ \A s \in Credit : s.delay \in Nat
  BY QueueTypes, ItemDelays
<1>2. Lane(crd[c], wake[CreditConsumer(c)], TRUE)
  BY DEF Lanes, CreditLane, Lane
<1> DEFINE q  == crd[c]
           w  == wake[CreditConsumer(c)]
           w2 == wake'[CreditConsumer(c)]
<1>3. Lane(Append(q, e), w2, FALSE)
  <2>1. /\ q \in Seq(Credit) /\ (\A s \in Credit : s.delay \in Nat)
        /\ Lane(q, w, TRUE) /\ w \subseteq w2 /\ e.delay \in w2
        /\ \A i \in 1 .. Len(q) : q[i].delay < e.delay
    BY <1>1, <1>2
  <2> HIDE DEF q, w, w2
  <2> QED
    BY <2>1, LaneSends
<1> QED
  BY <1>3 DEF CreditLane, Lane, Increasing, Older, FlitConsumer, CreditConsumer

LEMMA CreditLaneSent ==
  ASSUME Typed, Lanes, NEW c \in Chans, NEW e \in Credit, e.delay = LinkDelay,
         crd'[c] = Append(crd[c], e),
         wake[CreditConsumer(c)] \subseteq wake'[CreditConsumer(c)],
         LinkDelay \in wake'[CreditConsumer(c)],
         Pending(FlitConsumer(c)), ~Pending(FlitConsumer(c))'
  PROVE  CreditLane(c)'
<1>1. \A i \in 1 .. Len(crd[c]) : crd[c][i].delay < e.delay
  BY DEF Lanes, CreditLane, Lane, Older
<1> QED
  BY <1>1, CreditLaneQueued

LEMMA LanesKept ==
  ASSUME Lanes, UNCHANGED <<pipe, crd>>,
         \A x \in Consumers : wake[x] \subseteq wake'[x] /\ (Pending(x)' => Pending(x))
  PROVE  Lanes'
<1>1. ASSUME NEW c \in Chans PROVE FlitLane(c)' /\ CreditLane(c)'
  <2>1. FlitConsumer(c) \in Consumers /\ CreditConsumer(c) \in Consumers
    BY ConsumerTypes
  <2> QED
    BY <2>1, FlitLaneKept, CreditLaneKept
<1> QED
  BY <1>1 DEF Lanes

LEMMA FlowKept ==
  ASSUME UNCHANGED <<inbuf, outvc, pipe, crd, nivc>>, NEW c, NEW vc
  PROVE  FlowMove(c, vc)
  BY DEF FlowMove, Moves, Waiting, Buffered, OnLink, Back

\* Router::wakeup in a cycle without halt or drain.
LEMMA NoSpinStep ==
  ASSUME NetworkInv, NEW r \in Routers, RouterNoSpin(r), UNCHANGED spinMult
  PROVE  StepOK
<1> USE DEF RouterNoSpin, clockVars, lockVars, niVars
<1>1. Typed'
  BY DEF NetworkInv, Typed
<1>2. Routed'
  BY DEF NetworkInv, Routed
<1>3. running # Idle /\ running' # Idle /\ running[1] = r /\ running'[1] = r
  BY RunningRouter
<1>4. \A x : Pending(x)' => Pending(x)
  BY <1>3 DEF Pending
<1>5. RunsOnce'
  BY <1>3 DEF NetworkInv, RunsOnce
<1>6. Lanes'
  BY <1>4, LanesKept DEF NetworkInv
<1>7. HaltInv'
  <2>1. HaltedWhileLocked'
    BY DEF NetworkInv, HaltInv, HaltedWhileLocked
  <2>2. lock # NoRouter => phase # DrainDelay
    BY DEF NetworkInv, HaltInv, HaltedWhileLocked, DrainTime, DrainDelay, PreDrainDelay
  <2>3. DrainWakeups'
    BY <2>2 DEF NetworkInv, HaltInv, DrainWakeups
  <2>4. QuietInTime'
    BY DEF NetworkInv, HaltInv, QuietInTime, AllSentBefore, AtThreshold
  <2> QED
    BY <2>1, <2>3, <2>4 DEF HaltInv
<1> QED
  BY <1>1, <1>2, <1>5, <1>6, <1>7, FlowKept DEF StepOK

\* The threshold.
LEMMA HaltStep ==
  ASSUME NetworkInv, NEW r \in Routers, RouterHalt(r), UNCHANGED spinMult
  PROVE  StepOK
<1> USE DEF RouterHalt, clockVars, niVars
<1>1. running # Idle /\ running' # Idle /\ running[1] = r /\ running'[1] = r
  BY RunningRouter
<1>2. /\ wake' \in [Consumers -> SUBSET Nat]
      /\ \A x \in Consumers : wake[x] \subseteq wake'[x] /\ (0 \in wake'[x] => 0 \in wake[x])
      /\ ~halt[r] => \A x \in Routers : DrainDelay \in wake'[RouterOf(x)]
  <2>1. wake \in [Consumers -> SUBSET Nat] /\ DrainDelay \in Nat /\ DrainDelay # 0
    BY DEF NetworkInv, Typed, DrainDelay, PreDrainDelay
  <2>2. CASE halt[r]
    BY <2>1, <2>2
  <2>3. CASE ~halt[r]
    BY <2>1, <2>3, ScheduleAdds, RouterConsumer
  <2> QED
    BY <2>2, <2>3
<1>3. phase = 0 /\ started
  BY DEF AtThreshold
<1>4. /\ halt' = [x \in Routers |-> TRUE]
      /\ lock' \in Routers
      /\ lock # NoRouter => lock' = lock
      /\ halt[r] <=> lock # NoRouter
  <2>1. /\ halt \in [Routers -> BOOLEAN] /\ lock \in Routers \cup {NoRouter}
        /\ \A x \in Routers : halt[x] <=> lock # NoRouter
    BY DEF NetworkInv, Typed, HaltInv, HaltedWhileLocked
  <2> QED
    BY <2>1 DEF set_halt
<1>5. Typed'
  BY <1>2, <1>4 DEF NetworkInv, Typed
<1>6. Routed'
  BY DEF NetworkInv, Routed
<1>7. \A x \in Consumers : Pending(x)' => Pending(x)
  BY <1>1, <1>2 DEF Pending
<1>8. RunsOnce'
  BY <1>1, <1>2, RouterConsumer DEF NetworkInv, RunsOnce
<1>9. Lanes'
  BY <1>2, <1>7, LanesKept DEF NetworkInv
<1>10. HaltInv'
  <2>1. HaltedWhileLocked'
    BY <1>3, <1>4, NetworkConstants DEF HaltedWhileLocked, DrainDelay, PreDrainDelay
  <2>2. DrainWakeups'
    <3>1. DrainDelay - 0 = DrainDelay /\ DrainDelay # 0
      BY DEF DrainDelay, PreDrainDelay
    <3>2. CASE halt[r]
      BY <1>2, <1>3, <1>4, <3>1, <3>2, RouterConsumer DEF NetworkInv, HaltInv, DrainWakeups
    <3>3. CASE ~halt[r]
      BY <1>2, <1>3, <3>1, <3>3 DEF DrainWakeups
    <3> QED
      BY <3>2, <3>3
  <2>3. AllSentBefore(LinkLatency)
    <3>1. LinkLatency - 0 = LinkLatency
      BY NetworkConstants
    <3> QED
      BY <1>3, <3>1 DEF NetworkInv, HaltInv, QuietInTime, AtThreshold
  <2>4. QuietInTime'
    <3>1. LinkLatency - phase' = LinkLatency /\ lock' # NoRouter
      BY <1>3, <1>4, NetworkConstants
    <3> QED
      BY <2>3, <3>1 DEF QuietInTime, AllSentBefore
  <2> QED
    BY <2>1, <2>2, <2>4 DEF HaltInv
<1> QED
  BY <1>5, <1>6, <1>8, <1>9, <1>10, FlowKept DEF StepOK

\* A controller enqueues a message.
LEMMA SendStep ==
  ASSUME NetworkInv, NEW p \in Packets, SendMessage(p), UNCHANGED spinMult
  PROVE  StepOK
<1> USE DEF SendMessage, clockVars, lockVars
<1>1. /\ wake' \in [Consumers -> SUBSET Nat]
      /\ \A x \in Consumers : wake[x] \subseteq wake'[x] /\ (0 \in wake'[x] => 0 \in wake[x])
  <2>1. wake \in [Consumers -> SUBSET Nat]
    BY DEF NetworkInv, Typed
  <2> QED
    BY <2>1, ScheduleAdds
<1>2. msgq' \in [Routers -> [Vnets -> Seq(MessageRecord)]]
  <2>1. [pkt |-> p, delay |-> 1] \in MessageRecord
    BY DEF MessageRecord
  <2>2. Source[p] \in Routers /\ Vnet[p] \in Vnets
    BY NetworkAssumption
  <2>3. msgq \in [Routers -> [Vnets -> Seq(MessageRecord)]]
    BY DEF NetworkInv, Typed
  <2>4. Append(msgq[Source[p]][Vnet[p]], [pkt |-> p, delay |-> 1]) \in Seq(MessageRecord)
    BY <2>1, <2>2, <2>3, AppendProperties
  <2> QED
    BY <2>2, <2>3, <2>4
<1>3. Typed'
  BY <1>1, <1>2 DEF NetworkInv, Typed
<1>4. Routed'
  BY DEF NetworkInv, Routed
<1>5. running = Idle /\ running' = Idle
  BY DEF CycleDone
<1>6. \A x \in Consumers : Pending(x)' => Pending(x)
  BY <1>1, <1>5 DEF Pending
<1>7. RunsOnce'
  BY <1>5 DEF RunsOnce
<1>8. Lanes'
  BY <1>1, <1>6, LanesKept DEF NetworkInv
<1>9. HaltInv'
  <2>1. HaltedWhileLocked'
    BY DEF NetworkInv, HaltInv, HaltedWhileLocked
  <2>2. DrainWakeups'
    BY <1>1, RouterConsumer DEF NetworkInv, HaltInv, DrainWakeups
  <2>3. QuietInTime'
    BY DEF NetworkInv, HaltInv, QuietInTime, AllSentBefore, AtThreshold
  <2> QED
    BY <2>1, <2>2, <2>3 DEF HaltInv
<1> QED
  BY <1>3, <1>4, <1>7, <1>8, <1>9, FlowKept DEF StepOK

LEMMA NetworkInit == Init => NetworkInv
<1> SUFFICES ASSUME Init PROVE NetworkInv
  OBVIOUS
<1> USE DEF Init
<1>1. Typed
  <2>1. spinMult \in Nat /\ phase \in 0 .. SpinThreshold - 1
    BY NetworkAssumption
  <2>2. /\ \A c \in InPorts, vc \in VCs : inbuf[c][vc] \in Seq(FlitRecord)
        /\ \A c \in Chans : pipe[c] \in Seq(Transit) /\ crd[c] \in Seq(Credit)
        /\ \A n \in Routers, v \in Vnets : msgq[n][v] \in Seq(MessageRecord)
        /\ \A n \in Routers, vc \in VCs : nivc[n][vc] \in Seq(Packets)
    BY EmptySeq
  <2>3. /\ inbuf \in [InPorts -> [VCs -> Seq(FlitRecord)]]
        /\ pipe \in [Chans -> Seq(Transit)] /\ crd \in [Chans -> Seq(Credit)]
    BY <2>2
  <2>4. /\ msgq \in [Routers -> [Vnets -> Seq(MessageRecord)]]
        /\ nivc \in [Routers -> [VCs -> Seq(Packets)]]
    BY <2>2
  <2>5. outvc \in [Chans -> [VCs -> [state: States, credits: Int]]]
    BY NetworkConstants DEF States
  <2> QED
    BY <2>1, <2>3, <2>4, <2>5 DEF Typed
<1>2. Routed
  BY DEF Routed
<1>3. RunsOnce
  BY DEF RunsOnce
<1>4. Lanes
  <2>1. ASSUME NEW c \in Chans PROVE FlitLane(c) /\ CreditLane(c)
    BY DEF FlitLane, CreditLane, Lane, Increasing, Older
  <2> QED
    BY <2>1 DEF Lanes
<1>5. HaltInv
  BY DEF HaltInv, HaltedWhileLocked, DrainWakeups, QuietInTime, AtThreshold
<1>6. ASSUME NEW c \in Chans, NEW vc \in VCs PROVE FlowInv(c, vc)
  <2>1. OnLink(c, vc) = 0 /\ Back(c, vc) = 0
    BY CountNone DEF OnLink, Back
  <2>2. Waiting(c, vc) = 0 /\ Buffered(c, vc) = 0
    BY ChannelTypes DEF Waiting, Buffered
  <2> QED
    BY <2>1, <2>2, FlowNames, NetworkConstants DEF FlowInv
<1> QED
  BY <1>1, <1>2, <1>3, <1>4, <1>5, <1>6 DEF NetworkInv

\* The next cycle: a drain that is scheduled for this one has happened.
LEMMA TickStep ==
  ASSUME NetworkInv, DrainFits, Tick, UNCHANGED spinMult
  PROVE  StepOK
<1> USE DEF Tick, lockVars
<1>1. Typed /\ Lanes /\ running = Idle /\ running' = Idle
  BY DEF NetworkInv, CycleDone
<1>2. \A x \in Consumers : 0 \notin wake[x] /\ wake[x] \in SUBSET Nat /\ wake'[x] = { d - 1 : d \in wake[x] }
  BY <1>1, QueueTypes DEF CycleDone
<1>3. \A x \in Consumers : wake'[x] \in SUBSET Nat
  <2> TAKE x \in Consumers
  <2>1. \A d \in wake[x] : d - 1 \in Nat
    BY <1>2
  <2> QED
    BY <1>2, <2>1
<1>4. phase \in 0 .. SpinThreshold - 1 /\ phase' \in 0 .. SpinThreshold - 1
  BY <1>1, NetworkConstants DEF Typed
<1>5. /\ \A c \in Chans : pipe'[c] = Closer(pipe[c]) /\ crd'[c] = Closer(crd[c])
      /\ \A c \in InPorts, vc \in VCs : inbuf'[c][vc] = Closer(inbuf[c][vc])
  OBVIOUS
<1>6. Typed'
  <2>1. wake' \in [Consumers -> SUBSET Nat]
    BY <1>3
  <2>2. pipe' \in [Chans -> Seq(Transit)] /\ crd' \in [Chans -> Seq(Credit)]
    BY <1>1, QueueTypes, CloserItems
  <2>3. inbuf' \in [InPorts -> [VCs -> Seq(FlitRecord)]]
    BY <1>1, QueueTypes, CloserItems
  <2>4. msgq' \in [Routers -> [Vnets -> Seq(MessageRecord)]]
    BY <1>1, QueueTypes, CloserItems
  <2>5. started' \in BOOLEAN
    OBVIOUS
  <2> QED
    BY <1>1, <1>4, <2>1, <2>2, <2>3, <2>4, <2>5 DEF Typed
<1>7. Routed'
  <2> SUFFICES ASSUME NEW c \in InPorts, NEW vc \in VCs, NEW i \in 1 .. Len(inbuf'[c][vc])
               PROVE  inbuf'[c][vc][i].out \in OutSides(c[1]) \cup {"Local"}
    BY DEF Routed
  <2>1. /\ Len(inbuf'[c][vc]) = Len(inbuf[c][vc])
        /\ \A j \in 1 .. Len(inbuf[c][vc]) : inbuf'[c][vc][j].out = inbuf[c][vc][j].out
    BY <1>1, <1>5, QueueTypes, CloserItems
  <2> QED
    BY <2>1 DEF NetworkInv, Routed
<1>8. RunsOnce'
  BY <1>1 DEF RunsOnce
<1>9. Lanes'
  <2> SUFFICES ASSUME NEW c \in Chans PROVE FlitLane(c)' /\ CreditLane(c)'
    BY DEF Lanes
  <2>1. FlitConsumer(c) \in Consumers /\ CreditConsumer(c) \in Consumers
    BY ConsumerTypes
  <2>2. /\ pipe[c] \in Seq(Transit) /\ crd[c] \in Seq(Credit)
        /\ Len(Closer(pipe[c])) = Len(pipe[c]) /\ Len(Closer(crd[c])) = Len(crd[c])
        /\ \A i \in 1 .. Len(pipe[c]) :
             Closer(pipe[c])[i].delay = IF pipe[c][i].delay = 0 THEN 0 ELSE pipe[c][i].delay - 1
        /\ \A i \in 1 .. Len(crd[c]) :
             Closer(crd[c])[i].delay = IF crd[c][i].delay = 0 THEN 0 ELSE crd[c][i].delay - 1
    BY <1>1, QueueTypes, CloserItems
  <2>3. /\ Lane(pipe[c], wake[FlitConsumer(c)], Pending(CreditConsumer(c)))
        /\ Lane(crd[c], wake[CreditConsumer(c)], Pending(FlitConsumer(c)))
    BY <1>1 DEF Lanes, FlitLane, CreditLane
  <2>4. Lane(Closer(pipe[c]), wake'[FlitConsumer(c)], Pending(CreditConsumer(c))')
    <3>1. \A s \in Transit : s.delay \in 0 .. LinkDelay
      BY ItemDelays
    <3>2. /\ 0 \notin wake[FlitConsumer(c)] /\ Pending(CreditConsumer(c))' \in BOOLEAN
          /\ \A d \in wake[FlitConsumer(c)] : d - 1 \in wake'[FlitConsumer(c)]
      BY <1>2, <2>1, PendingType
    <3> QED
      BY <2>2, <2>3, <3>1, <3>2, LaneTicks
  <2>5. Lane(Closer(crd[c]), wake'[CreditConsumer(c)], Pending(FlitConsumer(c))')
    <3>1. \A s \in Credit : s.delay \in 0 .. LinkDelay
      BY ItemDelays
    <3>2. /\ 0 \notin wake[CreditConsumer(c)] /\ Pending(FlitConsumer(c))' \in BOOLEAN
          /\ \A d \in wake[CreditConsumer(c)] : d - 1 \in wake'[CreditConsumer(c)]
      BY <1>2, <2>1, PendingType
    <3> QED
      BY <2>2, <2>3, <3>1, <3>2, LaneTicks
  <2>6. /\ Lane(pipe'[c], wake'[FlitConsumer(c)], Pending(CreditConsumer(c))')
        /\ Lane(crd'[c], wake'[CreditConsumer(c)], Pending(FlitConsumer(c))')
    BY <1>5, <2>4, <2>5
  <2> QED
    BY <2>6 DEF FlitLane, CreditLane, Lane, Increasing, Older, FlitConsumer, CreditConsumer
<1>10. ASSUME NEW c \in Chans
       PROVE  /\ Len(pipe'[c]) = Len(pipe[c])
              /\ \A i \in 1 .. Len(pipe[c]) :
                   /\ pipe[c][i].delay \in 1 .. LinkDelay
                   /\ pipe'[c][i].delay = pipe[c][i].delay - 1
                   /\ pipe'[c][i].vc = pipe[c][i].vc
              /\ Len(crd'[c]) = Len(crd[c])
              /\ \A i \in 1 .. Len(crd[c]) :
                   /\ crd[c][i].delay \in 1 .. LinkDelay
                   /\ crd'[c][i].delay = crd[c][i].delay - 1
                   /\ crd'[c][i].vc = crd[c][i].vc
  <2>1. FlitConsumer(c) \in Consumers /\ CreditConsumer(c) \in Consumers
    BY ConsumerTypes
  <2>2. pipe[c] \in Seq(Transit) /\ crd[c] \in Seq(Credit)
    BY <1>1, QueueTypes
  <2>3. /\ \A i \in 1 .. Len(pipe[c]) : pipe[c][i].delay \in 0 .. LinkDelay
        /\ \A i \in 1 .. Len(crd[c]) : crd[c][i].delay \in 0 .. LinkDelay
    BY <2>2, ElementOfSeq, ItemDelays
  <2>4. /\ \A i \in 1 .. Len(pipe[c]) : pipe[c][i].delay # 0
        /\ \A i \in 1 .. Len(crd[c]) : crd[c][i].delay # 0
    BY <1>1, <1>2, <2>1 DEF Lanes, FlitLane, CreditLane, Lane
  <2>5. /\ Len(pipe'[c]) = Len(pipe[c])
        /\ \A i \in 1 .. Len(pipe[c]) :
             /\ pipe'[c][i].delay = IF pipe[c][i].delay = 0 THEN 0 ELSE pipe[c][i].delay - 1
             /\ pipe'[c][i].vc = pipe[c][i].vc
    <3>1. pipe'[c] = Closer(pipe[c])
      BY <1>5
    <3> QED
      BY <2>2, <3>1, CloserItems
  <2>6. /\ Len(crd'[c]) = Len(crd[c])
        /\ \A i \in 1 .. Len(crd[c]) :
             /\ crd'[c][i].delay = IF crd[c][i].delay = 0 THEN 0 ELSE crd[c][i].delay - 1
             /\ crd'[c][i].vc = crd[c][i].vc
    <3>1. crd'[c] = Closer(crd[c])
      BY <1>5
    <3> QED
      BY <2>2, <3>1, CloserItems
  <2> QED
    BY <2>3, <2>4, <2>5, <2>6, NetworkConstants
<1>11. HaltInv'
  <2>1. PICK r0 \in Routers : TRUE
    BY Ring
  <2>2. ASSUME lock # NoRouter
        PROVE  started /\ phase \in 0 .. 2 /\ phase' = phase + 1 /\ phase' \in 1 .. 3
    <3>1. started /\ phase <= DrainDelay
      BY <2>2 DEF NetworkInv, HaltInv, HaltedWhileLocked
    <3>2. DrainDelay - phase \in wake[RouterOf(r0)]
      BY <1>1, <2>2, RunningRouter DEF NetworkInv, HaltInv, DrainWakeups
    <3>3. DrainDelay - phase # 0
      BY <1>2, <3>2, RouterConsumer
    <3>4. SpinThreshold \in Nat /\ SpinThreshold > 3
      BY NetworkConstants DEF DrainFits, DrainDelay, PreDrainDelay
    <3>5. phase \in 0 .. 2
      <4>1. phase <= DrainDelay
        BY <3>1
      <4>2. DrainDelay = 3
        BY DEF DrainDelay, PreDrainDelay
      <4> HIDE DEF Tick
      <4> QED
        BY <1>4, <3>3, <3>4, <4>1, <4>2
    <3>6. phase # SpinThreshold - 1
      BY <3>4, <3>5
    <3>7. phase' = phase + 1
      BY <3>6
    <3> QED
      BY <3>1, <3>5, <3>7
  <2>3. HaltedWhileLocked'
    <3>1. \A r \in Routers : halt'[r] <=> lock' # NoRouter
      BY DEF NetworkInv, HaltInv, HaltedWhileLocked
    <3>2. lock # NoRouter => phase' <= 3
      BY <2>2
    <3>3. lock # NoRouter => started'
      BY <2>2, Zenon
    <3> QED
      BY <3>1, <3>2, <3>3 DEF HaltedWhileLocked, DrainDelay, PreDrainDelay
  <2>4. DrainWakeups'
    <3> SUFFICES ASSUME lock # NoRouter, NEW r \in Routers
                 PROVE  DrainDelay - phase' \in wake'[RouterOf(r)]
      BY DEF DrainWakeups
    <3>1. DrainDelay - phase \in wake[RouterOf(r)]
      BY <1>1, RunningRouter DEF NetworkInv, HaltInv, DrainWakeups
    <3>2. DrainDelay - phase' = (DrainDelay - phase) - 1
      BY <2>2 DEF DrainDelay, PreDrainDelay
    <3> QED
      BY <1>2, <3>1, <3>2, RouterConsumer
  <2>5. ASSUME NEW d \in Int, AllSentBefore(d) PROVE AllSentBefore(d - 1)'
    <3>1. ASSUME NEW c \in Chans \ LocalPorts PROVE SentBefore(pipe'[c], d - 1)
      <4>1. SentBefore(pipe[c], d)
        BY <2>5 DEF AllSentBefore
      <4> QED
        BY <1>10, <4>1, NetworkConstants, SMTT(30) DEF SentBefore
    <3>2. ASSUME NEW c \in RingPorts PROVE SentBefore(crd'[c], d - 1)
      <4>1. SentBefore(crd[c], d) /\ c \in Chans
        BY <2>5 DEF AllSentBefore, Chans, InPorts
      <4> QED
        BY <1>10, <4>1, NetworkConstants, SMTT(30) DEF SentBefore
    <3> QED
      BY <3>1, <3>2 DEF AllSentBefore, SentBefore
  <2>6. AllSentBefore(LinkLatency + 1)
    <3>1. \A c \in RingPorts : c \in Chans
      BY DEF Chans, InPorts
    <3> QED
      BY <1>10, <3>1, NetworkConstants, SMTT(30) DEF AllSentBefore, SentBefore
  <2>7. AllSentBefore(LinkLatency)'
    <3>1. LinkLatency + 1 \in Int /\ (LinkLatency + 1) - 1 = LinkLatency
      BY NetworkConstants
    <3>2. AllSentBefore((LinkLatency + 1) - 1)'
      BY <2>5, <2>6, <3>1
    <3> QED
      BY <3>1, <3>2 DEF AllSentBefore, SentBefore
  <2>8. ASSUME lock # NoRouter PROVE AllSentBefore(LinkLatency - phase)'
    <3>1. AllSentBefore(LinkLatency - phase) /\ LinkLatency - phase \in Int
      BY <1>4, <2>8, NetworkConstants DEF NetworkInv, HaltInv, QuietInTime
    <3>2. LinkLatency - phase' = (LinkLatency - phase) - 1
      BY <1>4, <2>2, <2>8, NetworkConstants
    <3> DEFINE d == LinkLatency - phase
    <3>3. \A c \in Chans \ LocalPorts : SentBefore(pipe'[c], d - 1)
      BY <1>10, <3>1, NetworkConstants, SMTT(30) DEF AllSentBefore, SentBefore
    <3>4. \A c \in RingPorts : SentBefore(crd'[c], d - 1)
      <4>1. \A c \in RingPorts : c \in Chans
        BY DEF Chans, InPorts
      <4> QED
        BY <1>10, <3>1, <4>1, NetworkConstants, SMTT(30) DEF AllSentBefore, SentBefore
    <3> QED
      BY <3>2, <3>3, <3>4 DEF AllSentBefore, SentBefore
  <2>9. QuietInTime'
    BY <1>1, <2>7, <2>8 DEF QuietInTime, Idle
  <2> QED
    BY <2>3, <2>4, <2>9 DEF HaltInv
<1>12. ASSUME NEW c \in Chans, NEW vc \in VCs PROVE FlowMove(c, vc)
  <2>1. OnLink(c, vc)' = OnLink(c, vc) /\ Back(c, vc)' = Back(c, vc)
    <3>1. pipe[c] \in Seq(Transit) /\ crd[c] \in Seq(Credit)
      BY <1>1, QueueTypes
    <3>2. /\ Len(Closer(pipe[c])) = Len(pipe[c])
          /\ \A i \in 1 .. Len(pipe[c]) : Closer(pipe[c])[i].vc = pipe[c][i].vc
          /\ Len(Closer(crd[c])) = Len(crd[c])
          /\ \A i \in 1 .. Len(crd[c]) : Closer(crd[c])[i].vc = crd[c][i].vc
      BY <3>1, CloserItems
    <3>3. CountVc(Closer(pipe[c]), vc) = CountVc(pipe[c], vc)
      BY <3>1, <3>2, CountCloser
    <3>4. CountVc(Closer(crd[c]), vc) = CountVc(crd[c], vc)
      BY <3>1, <3>2, CountCloser
    <3> QED
      BY <1>5, <3>3, <3>4 DEF OnLink, Back, CountVc
  <2>2. Buffered(c, vc)' = Buffered(c, vc)
    <3>1. c \in InPorts => Len(inbuf'[c][vc]) = Len(inbuf[c][vc])
      BY <1>1, <1>5, QueueTypes, CloserItems
    <3> QED
      BY <3>1 DEF Buffered
  <2>3. Waiting(c, vc)' = Waiting(c, vc)
    BY DEF Waiting
  <2> QED
    BY <2>1, <2>2, <2>3 DEF FlowMove, Moves
<1> QED
  BY <1>6, <1>7, <1>8, <1>9, <1>11, <1>12 DEF StepOK

\* Routing asks for an output port the router has.
LEMMA RouteSides ==
  ASSUME NEW r \in Routers, NEW d \in Routers
  PROVE  route_compute(r, d) \subseteq OutSides(r) \cup {"Local"}
  BY DEF route_compute, lookupRoutingTable

\* A link does not end where it begins.
LEMMA NoLoop ==
  ASSUME NEW c \in Chans
  PROVE  FlitConsumer(c) # CreditConsumer(c)
<1>1. c[1] \in Routers /\ c[1] \in Int
  BY ChannelTypes, NetworkConstants
<1>2. CASE c \in RingPorts
  <2>1. c[2] \in Sides /\ c[2] # "Local" /\ c[2] # "Eject"
    BY <1>2, ChannelTypes DEF Sides
  <2>2. get_upstreamId(c[2], c[1]) # c[1]
    BY <1>1, <2>1, NetworkConstants DEF get_upstreamId, Sides
  <2> QED
    BY <2>1, <2>2 DEF FlitConsumer, CreditConsumer, RouterOf
<1>3. CASE c \in LocalPorts \cup EjectPorts
  BY <1>3, ChannelTypes DEF FlitConsumer, CreditConsumer, RouterOf, NiOf, LocalPorts, EjectPorts
<1> QED
  BY <1>2, <1>3 DEF Chans, InPorts

\* What happens to the state and the credits of an output VC.
LEMMA OutVcOps ==
  ASSUME NEW ov \in [state: States, credits: Int]
  PROVE  /\ TakeCredit(ov) \in [state: States, credits: Int]
         /\ TakeCredit(ov).state = "IDLE" /\ TakeCredit(ov).credits = ov.credits + 1
         /\ decrement_credit(ov) \in [state: States, credits: Int]
         /\ decrement_credit(ov).state = ov.state
         /\ decrement_credit(ov).credits = ov.credits - 1
         /\ set_vc_state(ov, "ACTIVE") \in [state: States, credits: Int]
         /\ set_vc_state(ov, "ACTIVE").state = "ACTIVE"
         /\ set_vc_state(ov, "ACTIVE").credits = ov.credits
<1>1. ov.state \in States /\ ov.credits \in Int /\ ov = [state |-> ov.state, credits |-> ov.credits]
  OBVIOUS
<1>2. increment_credit(ov) = [state |-> ov.state, credits |-> ov.credits + 1]
  BY <1>1 DEF increment_credit
<1>3. TakeCredit(ov) = [state |-> "IDLE", credits |-> ov.credits + 1]
  BY <1>2 DEF TakeCredit, set_vc_state
<1>4. decrement_credit(ov) = [state |-> ov.state, credits |-> ov.credits - 1]
  BY <1>1 DEF decrement_credit
<1>5. set_vc_state(ov, "ACTIVE") = [state |-> "ACTIVE", credits |-> ov.credits]
  BY <1>1 DEF set_vc_state
<1>6. ov.credits + 1 \in Int /\ ov.credits - 1 \in Int
  BY <1>1
<1> QED
  BY <1>1, <1>3, <1>4, <1>5, <1>6 DEF States

\* Router::wakeup takes flits and credits.
LEMMA ReceiveStep ==
  ASSUME NetworkInv, NEW r \in Routers, RouterReceive(r), UNCHANGED spinMult
  PROVE  StepOK
<1> DEFINE arrived  == { c \in InPortsOf(r) : Ready(pipe[c]) }
           credited == { c \in OutChansOf(r) : Ready(crd[c]) }
           later    == IF arrived # {} /\ PipeStages > 1 THEN {PipeStages - 1} ELSE {}
<1>1. /\ running = Idle /\ 0 \in wake[RouterOf(r)] /\ running' = <<r, "spin">>
      /\ OutputUnitWakeup(credited)
      /\ wake' = [wake EXCEPT ![RouterOf(r)] = (@ \ {0}) \cup later]
      /\ UNCHANGED <<phase, started, halt, lock, msgq, nivc, fresh, delivered>>
  BY DEF RouterReceive, Due, clockVars, lockVars, niVars
<1>2. PICK route \in [arrived -> Sides \cup {"Local"}] :
        /\ \A c \in arrived : route[c] \in route_compute(r, Dest[Head(pipe[c]).pkt])
        /\ InputUnitWakeup(r, arrived, route)
  BY DEF RouterReceive
<1>3. Typed /\ Lanes
  BY DEF NetworkInv
<1>4. running' # Idle /\ running'[1] = r
  BY <1>1, RunningRouter
<1>5. /\ wake' \in [Consumers -> SUBSET Nat]
      /\ \A x \in Consumers : wake[x] \ {0} \subseteq wake'[x]
      /\ \A x \in Consumers : x # RouterOf(r) => wake'[x] = wake[x]
      /\ 0 \notin wake'[RouterOf(r)]
  <2>1. later \in SUBSET Nat /\ 0 \notin later
    BY NetworkConstants
  <2>2. wake \in [Consumers -> SUBSET Nat]
    BY <1>3 DEF Typed
  <2> HIDE DEF later
  <2> QED
    BY <1>1, <2>1, <2>2, RouterConsumer
<1>6. \A x \in Consumers : Pending(x)' => Pending(x)
  BY <1>1, <1>4, <1>5 DEF Pending
<1> HIDE DEF later
<1>7. arrived \subseteq InPortsOf(r) /\ InPortsOf(r) \subseteq InPorts /\ InPorts \subseteq Chans
  BY DEF InPortsOf, Chans
<1>8. credited \subseteq OutChansOf(r) /\ OutChansOf(r) \subseteq Chans
  BY OutChannel DEF OutChansOf
<1>9. ASSUME NEW c \in Chans
      PROVE  /\ pipe[c] \in Seq(Transit) /\ crd[c] \in Seq(Credit)
             /\ c \in arrived =>
                  /\ pipe[c] # <<>> /\ Tail(pipe[c]) \in Seq(Transit) /\ Head(pipe[c]) \in Transit
                  /\ Head(pipe[c]).vc \in VCs /\ Head(pipe[c]).pkt \in Packets
             /\ c \in credited =>
                  /\ crd[c] # <<>> /\ Tail(crd[c]) \in Seq(Credit) /\ Head(crd[c]) \in Credit
                  /\ Head(crd[c]).vc \in VCs
  <2>1. pipe[c] \in Seq(Transit) /\ crd[c] \in Seq(Credit)
    BY <1>3, QueueTypes
  <2>2. c \in arrived => pipe[c] # <<>> /\ Tail(pipe[c]) \in Seq(Transit) /\ Head(pipe[c]) \in Transit
    BY <2>1, Taken DEF Ready
  <2>3. c \in credited => crd[c] # <<>> /\ Tail(crd[c]) \in Seq(Credit) /\ Head(crd[c]) \in Credit
    BY <2>1, Taken DEF Ready
  <2> QED
    BY <2>1, <2>2, <2>3 DEF Transit, Credit
<1>10. ASSUME NEW c \in Chans
       PROVE  /\ pipe'[c] = IF c \in arrived THEN Tail(pipe[c]) ELSE pipe[c]
              /\ crd'[c] = IF c \in credited THEN Tail(crd[c]) ELSE crd[c]
  BY <1>1, <1>2 DEF InputUnitWakeup, OutputUnitWakeup
<1> DEFINE New(c) == [pkt |-> Head(pipe[c]).pkt, out |-> route[c], delay |-> PipeStages - 1]
<1>11. ASSUME NEW c \in arrived PROVE New(c) \in FlitRecord /\ route[c] \in OutSides(c[1]) \cup {"Local"}
  <2>1. Head(pipe[c]).pkt \in Packets /\ c \in Chans /\ c[1] = r
    BY <1>7, <1>9 DEF InPortsOf
  <2>2. Dest[Head(pipe[c]).pkt] \in Routers
    BY <2>1, NetworkAssumption
  <2>3. route[c] \in OutSides(r) \cup {"Local"}
    BY <1>2, <2>2, RouteSides
  <2>4. PipeStages - 1 \in Nat
    BY NetworkConstants
  <2> QED
    BY <1>2, <2>1, <2>3, <2>4 DEF FlitRecord
<1>12. ASSUME NEW c \in InPorts, NEW vc \in VCs
       PROVE  inbuf'[c][vc] = IF c \in arrived /\ vc = Head(pipe[c]).vc
                              THEN Append(inbuf[c][vc], New(c)) ELSE inbuf[c][vc]
  <2>1. inbuf'[c] = IF c \in arrived
                    THEN [inbuf[c] EXCEPT ![Head(pipe[c]).vc] = Append(@, New(c))] ELSE inbuf[c]
    BY <1>2 DEF InputUnitWakeup
  <2>2. inbuf[c] \in [VCs -> Seq(FlitRecord)]
    BY <1>3 DEF Typed
  <2> HIDE DEF New, arrived
  <2> QED
    BY <2>1, <2>2
<1>13. ASSUME NEW c \in Chans, NEW vc \in VCs
       PROVE  outvc'[c][vc] = IF c \in credited /\ vc = Head(crd[c]).vc
                              THEN TakeCredit(outvc[c][vc]) ELSE outvc[c][vc]
  <2>1. outvc'[c] = IF c \in credited
                    THEN [outvc[c] EXCEPT ![Head(crd[c]).vc] = TakeCredit(@)] ELSE outvc[c]
    BY <1>1 DEF OutputUnitWakeup
  <2>2. outvc[c] \in [VCs -> [state: States, credits: Int]]
    BY <1>3 DEF Typed
  <2> HIDE DEF credited
  <2> QED
    BY <2>1, <2>2
<1> HIDE DEF New, arrived, credited
<1>14. Typed'
  <2>1. pipe' \in [Chans -> Seq(Transit)]
    <3>1. \A c \in Chans : pipe'[c] \in Seq(Transit)
      BY <1>9, <1>10
    <3> QED
      BY <1>2, <3>1 DEF InputUnitWakeup
  <2>2. crd' \in [Chans -> Seq(Credit)]
    <3>1. \A c \in Chans : crd'[c] \in Seq(Credit)
      BY <1>9, <1>10
    <3> QED
      BY <1>1, <3>1 DEF OutputUnitWakeup
  <2>3. inbuf' \in [InPorts -> [VCs -> Seq(FlitRecord)]]
    <3>1. ASSUME NEW c \in InPorts, NEW vc \in VCs PROVE inbuf'[c][vc] \in Seq(FlitRecord)
      <4>1. inbuf[c][vc] \in Seq(FlitRecord)
        BY <1>3, QueueTypes
      <4>2. c \in arrived => Append(inbuf[c][vc], New(c)) \in Seq(FlitRecord)
        BY <1>11, <4>1, AppendProperties
      <4> QED
        BY <1>12, <4>1, <4>2
    <3>2. ASSUME NEW c \in InPorts PROVE inbuf'[c] \in [VCs -> Seq(FlitRecord)]
      <4>1. inbuf[c] \in [VCs -> Seq(FlitRecord)]
        BY <1>3 DEF Typed
      <4>2. inbuf'[c] = IF c \in arrived
                        THEN [inbuf[c] EXCEPT ![Head(pipe[c]).vc] = Append(@, New(c))] ELSE inbuf[c]
        BY <1>2 DEF InputUnitWakeup, New
      <4>3. inbuf'[c] = [vc \in VCs |-> inbuf'[c][vc]]
        BY <4>1, <4>2
      <4> QED
        BY <3>1, <4>3
    <3> QED
      BY <1>2, <3>2 DEF InputUnitWakeup
  <2>4. outvc' \in [Chans -> [VCs -> [state: States, credits: Int]]]
    <3>1. ASSUME NEW c \in Chans, NEW vc \in VCs PROVE outvc'[c][vc] \in [state: States, credits: Int]
      <4>1. outvc[c][vc] \in [state: States, credits: Int]
        BY <1>3, QueueTypes
      <4>2. TakeCredit(outvc[c][vc]) \in [state: States, credits: Int]
        BY <4>1, OutVcOps
      <4> QED
        BY <1>13, <4>1, <4>2
    <3>2. ASSUME NEW c \in Chans PROVE outvc'[c] \in [VCs -> [state: States, credits: Int]]
      <4>1. outvc[c] \in [VCs -> [state: States, credits: Int]]
        BY <1>3 DEF Typed
      <4>2. outvc'[c] = IF c \in credited
                        THEN [outvc[c] EXCEPT ![Head(crd[c]).vc] = TakeCredit(@)] ELSE outvc[c]
        BY <1>1 DEF OutputUnitWakeup
      <4>3. outvc'[c] = [vc \in VCs |-> outvc'[c][vc]]
        BY <4>1, <4>2
      <4> QED
        BY <3>1, <4>3
    <3> QED
      BY <1>1, <3>2 DEF OutputUnitWakeup
  <2>5. running' \in Routers \X {"spin", "sa"}
    BY <1>1
  <2> QED
    BY <1>1, <1>3, <1>5, <2>1, <2>2, <2>3, <2>4, <2>5 DEF Typed
<1>15. Routed'
  <2> SUFFICES ASSUME NEW c \in InPorts, NEW vc \in VCs, NEW i \in 1 .. Len(inbuf'[c][vc])
               PROVE  inbuf'[c][vc][i].out \in OutSides(c[1]) \cup {"Local"}
    BY DEF Routed
  <2>1. \A j \in 1 .. Len(inbuf[c][vc]) : inbuf[c][vc][j].out \in OutSides(c[1]) \cup {"Local"}
    BY DEF NetworkInv, Routed
  <2>2. inbuf[c][vc] \in Seq(FlitRecord)
    BY <1>3, QueueTypes
  <2>3. CASE c \in arrived /\ vc = Head(pipe[c]).vc
    <3>1. inbuf'[c][vc] = Append(inbuf[c][vc], New(c)) /\ New(c) \in FlitRecord
      BY <1>11, <1>12, <2>3
    <3>2. New(c).out \in OutSides(c[1]) \cup {"Local"}
      BY <1>11, <2>3 DEF New
    <3>3. /\ Len(inbuf[c][vc]) \in Nat /\ Len(inbuf'[c][vc]) = Len(inbuf[c][vc]) + 1
          /\ \A j \in 1 .. Len(inbuf[c][vc]) : inbuf'[c][vc][j] = inbuf[c][vc][j]
          /\ inbuf'[c][vc][Len(inbuf[c][vc]) + 1] = New(c)
      BY <2>2, <3>1, AppendProperties, LenProperties
    <3>4. i \in 1 .. Len(inbuf[c][vc]) \/ i = Len(inbuf[c][vc]) + 1
      BY <3>3
    <3> QED
      BY <2>1, <3>2, <3>3, <3>4
  <2>4. CASE ~(c \in arrived /\ vc = Head(pipe[c]).vc)
    BY <1>12, <2>1, <2>4
  <2> QED
    BY <2>3, <2>4
<1>16. RunsOnce'
  BY <1>4, <1>5 DEF RunsOnce
<1>17. Lanes'
  <2> SUFFICES ASSUME NEW c \in Chans PROVE FlitLane(c)' /\ CreditLane(c)'
    BY DEF Lanes
  <2>1. FlitConsumer(c) \in Consumers /\ CreditConsumer(c) \in Consumers
    BY ConsumerTypes
  <2>3. FlitLane(c)'
    <3>1. CASE c \in InPortsOf(r)
      <4>1. pipe'[c] = IF Ready(pipe[c]) THEN Tail(pipe[c]) ELSE pipe[c]
        BY <1>10, <3>1 DEF arrived
      <4> QED
        BY <1>3, <1>5, <1>6, <2>1, <4>1, FlitLaneTaken
    <3>2. CASE c \notin InPortsOf(r)
      <4>1. FlitConsumer(c) # RouterOf(r)
        BY <3>2, FlitConsumers
      <4>2. pipe'[c] = pipe[c] /\ wake'[FlitConsumer(c)] = wake[FlitConsumer(c)]
        BY <1>5, <1>7, <1>10, <2>1, <3>2, <4>1
      <4> QED
        BY <1>3, <1>6, <2>1, <4>2, FlitLaneKept
    <3> QED
      BY <3>1, <3>2
  <2>4. CreditLane(c)'
    <3>1. CASE c \in OutChansOf(r)
      <4>1. crd'[c] = IF Ready(crd[c]) THEN Tail(crd[c]) ELSE crd[c]
        BY <1>10, <3>1 DEF credited
      <4> QED
        BY <1>3, <1>5, <1>6, <2>1, <4>1, CreditLaneTaken
    <3>2. CASE c \notin OutChansOf(r)
      <4>1. CreditConsumer(c) # RouterOf(r)
        BY <3>2, CreditConsumers
      <4>2. crd'[c] = crd[c] /\ wake'[CreditConsumer(c)] = wake[CreditConsumer(c)]
        BY <1>5, <1>8, <1>10, <2>1, <3>2, <4>1
      <4> QED
        BY <1>3, <1>6, <2>1, <4>2, CreditLaneKept
    <3> QED
      BY <3>1, <3>2
  <2> QED
    BY <2>3, <2>4
<1>18. HaltInv'
  <2>1. HaltedWhileLocked'
    BY <1>1 DEF NetworkInv, HaltInv, HaltedWhileLocked
  <2>2. DrainWakeups'
    <3> SUFFICES ASSUME lock # NoRouter, NEW x \in Routers
                 PROVE  \/ DrainDelay - phase \in wake'[RouterOf(x)]
                        \/ phase = DrainDelay /\ running' = <<x, "spin">>
      BY <1>1 DEF DrainWakeups
    <3>1. DrainDelay - phase \in wake[RouterOf(x)]
      BY <1>1, RunningRouter DEF NetworkInv, HaltInv, DrainWakeups
    <3>2. CASE x # r
      BY <1>5, <3>1, <3>2, RouterConsumer
    <3>3. CASE x = r /\ DrainDelay - phase # 0
      BY <1>5, <3>1, <3>3, RouterConsumer
    <3>4. CASE x = r /\ DrainDelay - phase = 0
      <4>1. phase = DrainDelay
        BY <1>3, <3>4, NetworkConstants DEF Typed, DrainDelay, PreDrainDelay
      <4> QED
        BY <1>1, <3>4, <4>1
    <3> QED
      BY <3>2, <3>3, <3>4
  <2>3. ASSUME NEW d, AllSentBefore(d) PROVE AllSentBefore(d)'
    <3>1. ASSUME NEW c \in Chans \ LocalPorts PROVE SentBefore(pipe'[c], d)
      <4>1. SentBefore(pipe[c], d)
        BY <2>3 DEF AllSentBefore
      <4>2. CASE c \notin arrived
        BY <1>10, <4>1, <4>2
      <4>3. CASE c \in arrived
        <5>1. /\ pipe'[c] = Tail(pipe[c]) /\ Len(pipe[c]) \in Nat
              /\ Len(Tail(pipe[c])) = Len(pipe[c]) - 1
              /\ \A i \in 1 .. Len(pipe[c]) - 1 :
                   Tail(pipe[c])[i] = pipe[c][i + 1] /\ i + 1 \in 1 .. Len(pipe[c])
          BY <1>9, <1>10, <4>3, Taken
        <5> QED
          BY <4>1, <5>1 DEF SentBefore
      <4> QED
        BY <4>2, <4>3
    <3>2. ASSUME NEW c \in RingPorts PROVE SentBefore(crd'[c], d)
      <4>1. SentBefore(crd[c], d) /\ c \in Chans
        BY <2>3 DEF AllSentBefore, Chans, InPorts
      <4>2. CASE c \notin credited
        BY <1>10, <4>1, <4>2
      <4>3. CASE c \in credited
        <5>1. /\ crd'[c] = Tail(crd[c]) /\ Len(crd[c]) \in Nat
              /\ Len(Tail(crd[c])) = Len(crd[c]) - 1
              /\ \A i \in 1 .. Len(crd[c]) - 1 :
                   Tail(crd[c])[i] = crd[c][i + 1] /\ i + 1 \in 1 .. Len(crd[c])
          BY <1>9, <1>10, <4>1, <4>3, Taken
        <5> QED
          BY <4>1, <5>1 DEF SentBefore
      <4> QED
        BY <4>2, <4>3
    <3> QED
      BY <3>1, <3>2 DEF AllSentBefore, SentBefore
  <2>4. QuietInTime'
    <3>1. running'[2] = "spin"
      BY <1>1
    <3>2. /\ lock # NoRouter => AllSentBefore(LinkLatency - phase)
          /\ AtThreshold /\ lock = NoRouter => AllSentBefore(LinkLatency)
      BY DEF NetworkInv, HaltInv, QuietInTime
    <3>3. /\ lock # NoRouter => AllSentBefore(LinkLatency - phase)'
          /\ AtThreshold /\ lock = NoRouter => AllSentBefore(LinkLatency)'
      <4>1. ASSUME lock # NoRouter PROVE AllSentBefore(LinkLatency - phase)'
        <5> DEFINE d == LinkLatency - phase
        <5>1. AllSentBefore(d)
          BY <3>2, <4>1
        <5>2. d' = d
          BY <1>1
        <5> QED
          BY <1>1, <2>3, <5>1 DEF AllSentBefore, SentBefore
      <4> QED
        BY <2>3, <3>2, <4>1
    <3> QED
      BY <1>1, <3>1, <3>3 DEF QuietInTime, AtThreshold
  <2> QED
    BY <2>1, <2>2, <2>4 DEF HaltInv
<1>19. ASSUME NEW c \in Chans, NEW vc \in VCs PROVE FlowMove(c, vc)
  <2>1. ~(c \in arrived /\ c \in credited)
    BY <1>7, <1>8, FlitConsumers, CreditConsumers, NoLoop
  <2>2. Waiting(c, vc)' = Waiting(c, vc)
    BY <1>1 DEF Waiting
  <2>3. OnLink(c, vc) = OnLink(c, vc)'
                          + IF c \in arrived /\ vc = Head(pipe[c]).vc THEN 1 ELSE 0
    <3>1. CASE c \in arrived
      <4>1. CountVc(pipe[c], vc)
              = CountVc(Tail(pipe[c]), vc) + IF Head(pipe[c]).vc = vc THEN 1 ELSE 0
        BY <1>9, <3>1, CountTail
      <4> QED
        BY <1>10, <3>1, <4>1 DEF OnLink, CountVc
    <3>2. CASE c \notin arrived
      <4>1. OnLink(c, vc)' = OnLink(c, vc) /\ OnLink(c, vc) \in Nat
        BY <1>3, <1>10, <3>2, FlowTypes DEF OnLink, CountVc
      <4> QED
        BY <3>2, <4>1
    <3> QED
      BY <3>1, <3>2
  <2>4. Back(c, vc) = Back(c, vc)' + IF c \in credited /\ vc = Head(crd[c]).vc THEN 1 ELSE 0
    <3>1. CASE c \in credited
      <4>1. CountVc(crd[c], vc)
              = CountVc(Tail(crd[c]), vc) + IF Head(crd[c]).vc = vc THEN 1 ELSE 0
        BY <1>9, <3>1, CountTail
      <4> QED
        BY <1>10, <3>1, <4>1 DEF Back, CountVc
    <3>2. CASE c \notin credited
      <4>1. Back(c, vc)' = Back(c, vc) /\ Back(c, vc) \in Nat
        BY <1>3, <1>10, <3>2, FlowTypes DEF Back, CountVc
      <4> QED
        BY <3>2, <4>1
    <3> QED
      BY <3>1, <3>2
  <2>5. Buffered(c, vc)' = Buffered(c, vc)
                             + IF c \in arrived /\ vc = Head(pipe[c]).vc THEN 1 ELSE 0
    <3>1. CASE c \in arrived /\ vc = Head(pipe[c]).vc
      <4>1. c \in InPorts /\ inbuf'[c][vc] = Append(inbuf[c][vc], New(c))
        BY <1>7, <1>12, <3>1
      <4>2. Len(inbuf'[c][vc]) = Len(inbuf[c][vc]) + 1
        BY <1>3, <1>11, <3>1, <4>1, QueueTypes, AppendProperties
      <4> QED
        BY <3>1, <4>1, <4>2 DEF Buffered
    <3>2. CASE ~(c \in arrived /\ vc = Head(pipe[c]).vc)
      <4>1. Buffered(c, vc)' = Buffered(c, vc) /\ Buffered(c, vc) \in Nat
        BY <1>3, <1>12, <3>2, FlowTypes DEF Buffered
      <4> QED
        BY <3>2, <4>1
    <3> QED
      BY <3>1, <3>2
  <2>6. /\ OnLink(c, vc) \in Nat /\ OnLink(c, vc)' \in Nat
        /\ Back(c, vc) \in Nat /\ Back(c, vc)' \in Nat
    BY <1>3, <1>14, FlowTypes, FlowTypesNext
  <2>7. outvc[c][vc] \in [state: States, credits: Int]
    BY <1>3, QueueTypes
  <2>8. CASE c \in arrived /\ vc = Head(pipe[c]).vc
    <3>1. outvc'[c][vc] = outvc[c][vc]
      BY <1>13, <2>1, <2>8
    <3> QED
      BY <2>1, <2>2, <2>3, <2>4, <2>5, <2>6, <2>8, <3>1 DEF FlowMove, Moves
  <2>9. CASE c \in credited /\ vc = Head(crd[c]).vc
    <3>1. outvc'[c][vc].state = "IDLE" /\ outvc'[c][vc].credits = outvc[c][vc].credits + 1
      <4>1. outvc'[c][vc] = TakeCredit(outvc[c][vc])
        BY <1>13, <2>9
      <4> QED
        BY <2>7, <4>1, OutVcOps
    <3>2. Buffered(c, vc)' = Buffered(c, vc)
      BY <1>3, <2>1, <2>5, <2>9, FlowTypes
    <3> QED
      BY <2>1, <2>2, <2>3, <2>4, <2>6, <2>9, <3>1, <3>2 DEF FlowMove, Moves
  <2>10. CASE ~(c \in arrived /\ vc = Head(pipe[c]).vc) /\ ~(c \in credited /\ vc = Head(crd[c]).vc)
    <3>1. outvc'[c][vc] = outvc[c][vc]
      BY <1>13, <2>10
    <3>2. Buffered(c, vc)' = Buffered(c, vc)
      BY <1>3, <2>5, <2>10, FlowTypes
    <3> QED
      BY <2>2, <2>3, <2>4, <2>6, <2>10, <3>1, <3>2 DEF FlowMove, Moves
  <2> QED
    BY <2>8, <2>9, <2>10
<1> QED
  BY <1>14, <1>15, <1>16, <1>17, <1>18, <1>19 DEF StepOK

\* Positions of the drain path.
LEMMA RingPositions ==
  /\ \A c \in RingPorts : RingIndex(c) \in 1 .. RingSize /\ SpinRing[RingIndex(c)] = c
  /\ \A i \in 1 .. RingSize, n \in Nat : SpunFrom(i, n) \in 1 .. RingSize
  /\ \A i \in 1 .. RingSize : SpunFrom(i, 0) = i
<1>1. RingSize \in Nat \ {0}
  BY Ring
<1>2. ASSUME NEW c \in RingPorts PROVE RingIndex(c) \in 1 .. RingSize /\ SpinRing[RingIndex(c)] = c
  <2>1. \E i \in 1 .. RingSize : SpinRing[i] = c
    BY DEF RingPorts
  <2> QED
    BY <2>1 DEF RingIndex
<1>3. ASSUME NEW i \in 1 .. RingSize, NEW n \in Nat PROVE SpunFrom(i, n) \in 1 .. RingSize
  <2>1. i - 1 - n \in Int
    BY <1>1
  <2>2. (i - 1 - n) % RingSize \in 0 .. RingSize - 1
    BY <1>1, <2>1
  <2> QED
    BY <1>1, <2>2 DEF SpunFrom
<1>4. ASSUME NEW i \in 1 .. RingSize PROVE SpunFrom(i, 0) = i
  <2>1. i - 1 - 0 = i - 1 /\ i - 1 \in 0 .. RingSize - 1
    BY <1>1
  <2>2. (i - 1) % RingSize = i - 1
    BY <1>1, <2>1
  <2> QED
    BY <1>1, <2>1, <2>2 DEF SpunFrom
<1> QED
  BY <1>2, <1>3, <1>4

\* Where a spin looks for the flit of a port.
LEMMA SpunQueue ==
  ASSUME Typed, NEW c \in RingPorts, NEW vc \in VCs, NEW n \in Nat
  PROVE  /\ FlitsAt(RingIndex(c), n, vc) \in Seq(FlitRecord)
         /\ FlitsAt(RingIndex(c), 0, vc) = inbuf[c][vc]
<1>1. SpinRing[SpunFrom(RingIndex(c), n)] \in InPorts
  BY RingPositions, Ring DEF InPorts
<1>2. SpinRing[SpunFrom(RingIndex(c), 0)] = c
  BY RingPositions
<1> QED
  BY <1>1, <1>2, QueueTypes DEF FlitsAt

\* The flit a spin brings to a port.
LEMMA SpunIn ==
  ASSUME Typed, Routed, NEW spins \in SpinCounts, NEW route \in SpinRoutes(spins),
         NEW c \in RingPorts, NEW vc \in VCs, vc \in TimedVcs
  PROVE  LET i == RingIndex(c)
             q == FlitsAt(i, SpinsOf(vc, spins), vc)
             s == SpinInputVc(i, SpinsOf(vc, spins), vc, route)
         IN  /\ s \in Seq(FlitRecord)
             /\ Len(s) = IF q = <<>> THEN 0 ELSE 1
             /\ \A j \in 1 .. Len(s) : s[j].out \in OutSides(c[1]) \cup {"Local"}
<1> DEFINE i == RingIndex(c)
           n == SpinsOf(vc, spins)
           q == FlitsAt(i, n, vc)
           s == SpinInputVc(i, n, vc, route)
<1>1. i \in 1 .. RingSize /\ SpinRing[i] = c
  BY RingPositions
<1>2. n \in Nat /\ spinMult \in Nat
  BY DEF SpinsOf, SpinCounts, Typed
<1>3. q \in Seq(FlitRecord) /\ (n = 0 => q = inbuf[c][vc])
  BY <1>2, SpunQueue
<1>4. c \in Chans /\ c \in InPorts /\ c[1] \in Routers
  BY ChannelTypes DEF Chans, InPorts
<1>5. CASE q = <<>>
  <2>1. s = <<>>
    BY <1>5 DEF SpinInputVc
  <2> QED
    BY <1>5, <2>1, EmptySeq
<1>6. CASE q # <<>>
  <2>1. Head(q) = q[1] /\ Head(q) \in FlitRecord /\ 1 \in 1 .. Len(q)
    BY <1>3, <1>6, Taken
  <2> DEFINE x == <<i, vc>>
             moved == { y \in (1 .. RingSize) \X TimedVcs :
                          FlitsAt(y[1], SpinsOf(y[2], spins), y[2]) # <<>> }
  <2>2. x \in moved
    BY <1>1, <1>6
  <2>3. /\ route[x] \in Sides \cup {"Local"}
        /\ n = 0 => route[x] = Head(q).out
        /\ n # 0 => route[x] \in route_compute(SpinRing[i][1], Dest[Head(q).pkt])
    BY <2>2 DEF SpinRoutes
  <2>4. route[x] \in OutSides(c[1]) \cup {"Local"}
    <3>1. CASE n = 0
      BY <1>3, <1>4, <2>1, <2>3, <3>1 DEF Routed
    <3>2. CASE n # 0
      <4>1. Dest[Head(q).pkt] \in Routers
        BY <2>1, NetworkAssumption DEF FlitRecord
      <4> QED
        BY <1>1, <1>4, <2>3, <3>2, <4>1, RouteSides
    <3> QED
      BY <3>1, <3>2
  <2>5. s = <<SpunFlit(Head(q), route[x])>>
    BY <1>6 DEF SpinInputVc
  <2>6. ResumeDelay \in Nat
    BY <1>2 DEF ResumeDelay
  <2>7. SpunFlit(Head(q), route[x]) \in FlitRecord /\ SpunFlit(Head(q), route[x]).out = route[x]
    BY <2>1, <2>3, <2>6 DEF SpunFlit, FlitRecord
  <2> HIDE DEF s
  <2>8. s \in Seq(FlitRecord) /\ Len(s) = 1 /\ s[1] = SpunFlit(Head(q), route[x])
    BY <2>5, <2>7
  <2> QED
    BY <1>6, <2>4, <2>7, <2>8 DEF s
<1> QED
  BY <1>5, <1>6

\* What a spin does to the output VC that feeds a port: it follows the flits.
LEMMA SpunOut ==
  ASSUME Typed, NEW c \in RingPorts, NEW vc \in VCs, NEW spins \in Nat,
         NEW ov \in [state: States, credits: Int]
  PROVE  LET i  == RingIndex(c)
             nv == SpinOutVc(i, spins, vc, ov)
         IN  /\ nv \in [state: States, credits: Int]
             /\ spins = 0 => nv = ov
             /\ spins # 0 /\ inbuf[c][vc] # <<>> /\ FlitsAt(i, spins, vc) # <<>> =>
                  nv.state = "ACTIVE" /\ nv.credits = ov.credits
             /\ spins # 0 /\ inbuf[c][vc] # <<>> /\ FlitsAt(i, spins, vc) = <<>> =>
                  nv.state = "IDLE" /\ nv.credits = ov.credits + 1
             /\ spins # 0 /\ inbuf[c][vc] = <<>> /\ FlitsAt(i, spins, vc) # <<>> =>
                  nv.state = "ACTIVE" /\ nv.credits = ov.credits - 1
             /\ spins # 0 /\ inbuf[c][vc] = <<>> /\ FlitsAt(i, spins, vc) = <<>> =>
                  nv.state \in {ov.state, "IDLE"} /\ nv.credits = ov.credits
<1> DEFINE i     == RingIndex(c)
           nv    == SpinOutVc(i, spins, vc, ov)
           left  == \E k \in 0 .. spins - 1 : FlitsAt(i, k, vc) # <<>>
           had   == IF FlitsAt(i, 0, vc) # <<>> THEN 1 ELSE 0
           has   == IF FlitsAt(i, spins, vc) # <<>> THEN 1 ELSE 0
           idled == IF left THEN set_vc_state(ov, "IDLE") ELSE ov
<1>1. nv = IF spins = 0 THEN ov
           ELSE [state   |-> IF has = 1 THEN "ACTIVE" ELSE idled.state,
                 credits |-> ov.credits + had - has]
  BY DEF SpinOutVc
<1>2. FlitsAt(i, 0, vc) = inbuf[c][vc]
  BY SpunQueue
<1>3. spins # 0 /\ inbuf[c][vc] # <<>> => left
  <2>1. spins # 0 => 0 \in 0 .. spins - 1
    OBVIOUS
  <2> QED
    BY <1>2, <2>1
<1>4. /\ idled.state \in {ov.state, "IDLE"}
      /\ left => idled.state = "IDLE"
  BY DEF set_vc_state
<1>5. ov.state \in States /\ ov.credits \in Int /\ "IDLE" \in States /\ "ACTIVE" \in States
  BY DEF States
<1> HIDE DEF left, idled, nv
<1> QED
  BY <1>1, <1>2, <1>3, <1>4, <1>5 DEF nv

\* The drain.
LEMMA DrainStep ==
  ASSUME NetworkInv, DrainFits, NEW r \in Routers, RouterDrain(r), UNCHANGED spinMult
  PROVE  StepOK
<1>1. /\ running = <<r, "spin">> /\ running' = <<r, "sa">>
      /\ started /\ phase > PreDrainDelay /\ lock # NoRouter
      /\ halt' = [x \in Routers |-> FALSE] /\ lock' = NoRouter
      /\ wake' = IF ResumeDelay = 0 THEN wake ELSE Schedule(wake, RouterConsumers, ResumeDelay)
      /\ UNCHANGED <<phase, started, pipe, crd, msgq, nivc, fresh, delivered>>
  BY DEF RouterDrain, DrainTime, set_halt, clockVars, niVars
<1>2. PICK spins \in SpinCounts : \E route \in SpinRoutes(spins) : doSpin(spins, route)
  BY DEF RouterDrain
<1>3. PICK route \in SpinRoutes(spins) : doSpin(spins, route)
  BY <1>2
<1>4. Typed /\ Routed /\ Lanes /\ spinMult \in Nat /\ spins \in Nat
  BY DEF NetworkInv, Typed, SpinCounts
<1>5. /\ wake' \in [Consumers -> SUBSET Nat]
      /\ \A x \in Consumers : wake[x] \subseteq wake'[x] /\ (0 \in wake'[x] => 0 \in wake[x])
  <2>1. wake \in [Consumers -> SUBSET Nat] /\ ResumeDelay \in Nat
    BY <1>4 DEF Typed, ResumeDelay
  <2>2. CASE ResumeDelay = 0
    BY <1>1, <2>1, <2>2
  <2>3. CASE ResumeDelay # 0
    BY <1>1, <2>1, <2>3, ScheduleAdds
  <2> QED
    BY <2>2, <2>3
<1>6. running # Idle /\ running' # Idle /\ running[1] = r /\ running'[1] = r
  BY <1>1, RunningRouter
<1>7. \A x \in Consumers : Pending(x)' => Pending(x)
  BY <1>5, <1>6 DEF Pending
<1>8. phase = DrainDelay
  <2>1. phase <= DrainDelay /\ phase \in Int
    BY <1>1, <1>4 DEF NetworkInv, HaltInv, HaltedWhileLocked, Typed
  <2> QED
    BY <1>1, <2>1 DEF DrainDelay, PreDrainDelay
<1>9. \A c \in RingPorts : pipe[c] = <<>> /\ crd[c] = <<>>
  <2> TAKE c \in RingPorts
  <2>1. c \in Chans /\ c \notin LocalPorts
    BY ChannelTypes DEF Chans, InPorts, Sides
  <2>2. LinkLatency - phase < 0 /\ LinkLatency - phase \in Int
    BY <1>8, NetworkConstants DEF DrainFits, DrainDelay, PreDrainDelay
  <2>3. /\ \A i \in 1 .. Len(pipe[c]) : pipe[c][i].delay <= LinkLatency - phase
        /\ \A i \in 1 .. Len(crd[c]) : crd[c][i].delay <= LinkLatency - phase
    BY <1>1, <2>1 DEF NetworkInv, HaltInv, QuietInTime, AllSentBefore, SentBefore
  <2>4. pipe[c] \in Seq(Transit) /\ crd[c] \in Seq(Credit)
    BY <1>4, <2>1, QueueTypes
  <2>5. /\ \A i \in 1 .. Len(pipe[c]) : pipe[c][i].delay \in Nat
        /\ \A i \in 1 .. Len(crd[c]) : crd[c][i].delay \in Nat
    BY <2>4, ElementOfSeq, ItemDelays
  <2>6. 1 \notin 1 .. Len(pipe[c]) /\ 1 \notin 1 .. Len(crd[c])
    BY <2>2, <2>3, <2>5
  <2>7. Len(pipe[c]) \in Nat /\ Len(crd[c]) \in Nat
    BY <2>4, LenProperties
  <2>8. Len(pipe[c]) = 0 /\ Len(crd[c]) = 0
    BY <2>6, <2>7
  <2> QED
    BY <2>4, <2>8, EmptySeq
<1>10. ASSUME NEW c \in InPorts, NEW vc \in VCs
       PROVE  inbuf'[c][vc] = IF c \in RingPorts /\ vc \in TimedVcs
                              THEN SpinInputVc(RingIndex(c), SpinsOf(vc, spins), vc, route)
                              ELSE inbuf[c][vc]
  BY <1>3 DEF doSpin
<1>11. ASSUME NEW c \in Chans, NEW vc \in VCs
       PROVE  outvc'[c][vc] = IF c \in RingPorts /\ vc \in SpunVcs
                              THEN SpinOutVc(RingIndex(c), spins, vc, outvc[c][vc])
                              ELSE outvc[c][vc]
  BY <1>3 DEF doSpin
<1>12. ASSUME NEW c \in RingPorts, NEW vc \in VCs, vc \in TimedVcs
       PROVE  /\ inbuf'[c][vc] \in Seq(FlitRecord)
              /\ Len(inbuf'[c][vc])
                   = IF FlitsAt(RingIndex(c), SpinsOf(vc, spins), vc) = <<>> THEN 0 ELSE 1
              /\ \A j \in 1 .. Len(inbuf'[c][vc]) :
                   inbuf'[c][vc][j].out \in OutSides(c[1]) \cup {"Local"}
  <2>1. c \in InPorts
    BY DEF InPorts
  <2>2. inbuf'[c][vc] = SpinInputVc(RingIndex(c), SpinsOf(vc, spins), vc, route)
    BY <1>10, <1>12, <2>1
  <2> QED
    BY <1>4, <1>12, <2>2, SpunIn
<1>13. ASSUME NEW c \in Chans, NEW vc \in VCs
       PROVE  outvc'[c][vc] \in [state: States, credits: Int]
  BY <1>4, <1>11, QueueTypes, SpunOut
<1>14. Typed'
  <2>1. inbuf' \in [InPorts -> [VCs -> Seq(FlitRecord)]]
    <3>1. \A c \in InPorts, vc \in VCs : inbuf'[c][vc] \in Seq(FlitRecord)
      BY <1>4, <1>10, <1>12, QueueTypes
    <3>2. inbuf' = [c \in InPorts |-> [vc \in VCs |-> inbuf'[c][vc]]]
      BY <1>3 DEF doSpin
    <3> QED
      BY <3>1, <3>2
  <2>2. outvc' \in [Chans -> [VCs -> [state: States, credits: Int]]]
    <3>1. outvc' = [c \in Chans |-> [vc \in VCs |-> outvc'[c][vc]]]
      BY <1>3 DEF doSpin
    <3> QED
      BY <1>13, <3>1
  <2> QED
    BY <1>1, <1>4, <1>5, <2>1, <2>2 DEF Typed
<1>15. Routed'
  <2> SUFFICES ASSUME NEW c \in InPorts, NEW vc \in VCs, NEW i \in 1 .. Len(inbuf'[c][vc])
               PROVE  inbuf'[c][vc][i].out \in OutSides(c[1]) \cup {"Local"}
    BY DEF Routed
  <2>1. CASE c \in RingPorts /\ vc \in TimedVcs
    BY <1>12, <2>1
  <2>2. CASE ~(c \in RingPorts /\ vc \in TimedVcs)
    BY <1>4, <1>10, <2>2 DEF Routed
  <2> QED
    BY <2>1, <2>2
<1>16. RunsOnce'
  BY <1>5, <1>6, RouterConsumer DEF NetworkInv, RunsOnce
<1>17. Lanes'
  BY <1>1, <1>4, <1>5, <1>7, LanesKept
<1>18. HaltInv'
  <2>1. HaltedWhileLocked' /\ DrainWakeups'
    BY <1>1 DEF HaltedWhileLocked, DrainWakeups
  <2>2. QuietInTime'
    BY <1>1, <1>8 DEF QuietInTime, AtThreshold, DrainDelay, PreDrainDelay
  <2> QED
    BY <2>1, <2>2 DEF HaltInv
<1>19. ASSUME NEW c \in Chans, NEW vc \in VCs PROVE FlowMove(c, vc)
  <2>1. /\ Waiting(c, vc)' = Waiting(c, vc)
        /\ OnLink(c, vc)' = OnLink(c, vc) /\ Back(c, vc)' = Back(c, vc)
    BY <1>1 DEF Waiting, OnLink, Back
  <2>2. CASE c \notin RingPorts \/ vc \notin TimedVcs
    <3>1. vc \in SpunVcs => vc \in TimedVcs
      BY DEF SpunVcs, TimedVcs
    <3>2. outvc'[c][vc] = outvc[c][vc]
      BY <1>11, <2>2, <3>1
    <3>3. Buffered(c, vc)' = Buffered(c, vc)
      BY <1>10, <2>2 DEF Buffered
    <3> QED
      BY <2>1, <3>2, <3>3 DEF FlowMove, Moves
  <2>3. CASE c \in RingPorts /\ vc \in TimedVcs
    <3> DEFINE i == RingIndex(c)
               n == SpinsOf(vc, spins)
    <3>1. c \in InPorts /\ c \notin LocalPorts
      BY <2>3, ChannelTypes DEF InPorts, Sides
    <3>2. Waiting(c, vc) = 0 /\ OnLink(c, vc) = 0 /\ Back(c, vc) = 0
      BY <1>9, <2>3, <3>1, CountNone DEF Waiting, OnLink, Back
    <3>3. inbuf[c][vc] \in Seq(FlitRecord) /\ outvc[c][vc] \in [state: States, credits: Int]
      BY <1>4, <3>1, QueueTypes
    <3>4. /\ Len(inbuf[c][vc]) = IF outvc[c][vc].state = "IDLE" THEN 0 ELSE 1
          /\ Buffered(c, vc) = Len(inbuf[c][vc])
      <4>1. Buffered(c, vc) = Len(inbuf[c][vc]) /\ Len(inbuf[c][vc]) \in Nat
        BY <3>1, <3>3, LenProperties DEF Buffered
      <4>2. Waiting(c, vc) + OnLink(c, vc) + Buffered(c, vc) + Back(c, vc)
              = IF outvc[c][vc].state = "IDLE" THEN 0 ELSE 1
        BY FlowNames DEF NetworkInv, FlowInv
      <4> QED
        BY <3>2, <4>1, <4>2
    <3>5. Buffered(c, vc)' = IF FlitsAt(i, n, vc) = <<>> THEN 0 ELSE 1
      BY <1>12, <2>3, <3>1 DEF Buffered
    <3>6. FlitsAt(i, 0, vc) = inbuf[c][vc]
      BY <1>4, <2>3, SpunQueue
    <3>7. inbuf[c][vc] = <<>> <=> Len(inbuf[c][vc]) = 0
      BY <3>3, EmptySeq
    <3>8. CASE vc \notin SpunVcs \/ spins = 0
      <4>1. n = 0
        BY <3>8 DEF SpinsOf
      <4>2. Buffered(c, vc)' = Buffered(c, vc)
        BY <3>4, <3>5, <3>6, <3>7, <4>1
      <4>3. outvc'[c][vc] = outvc[c][vc]
        BY <1>4, <1>11, <2>3, <3>3, <3>8, SpunOut
      <4> QED
        BY <2>1, <4>2, <4>3 DEF FlowMove, Moves
    <3>9. CASE vc \in SpunVcs /\ spins # 0
      <4> DEFINE ov == outvc[c][vc]
                 nv == outvc'[c][vc]
      <4>1. n = spins /\ nv = SpinOutVc(i, spins, vc, ov)
        BY <1>11, <2>3, <3>9 DEF SpinsOf
      <4>2. /\ inbuf[c][vc] # <<>> /\ FlitsAt(i, spins, vc) # <<>> =>
                 nv.state = "ACTIVE" /\ nv.credits = ov.credits
            /\ inbuf[c][vc] # <<>> /\ FlitsAt(i, spins, vc) = <<>> =>
                 nv.state = "IDLE" /\ nv.credits = ov.credits + 1
            /\ inbuf[c][vc] = <<>> /\ FlitsAt(i, spins, vc) # <<>> =>
                 nv.state = "ACTIVE" /\ nv.credits = ov.credits - 1
            /\ inbuf[c][vc] = <<>> /\ FlitsAt(i, spins, vc) = <<>> =>
                 nv.state \in {ov.state, "IDLE"} /\ nv.credits = ov.credits
        BY <1>4, <2>3, <3>3, <3>9, <4>1, SpunOut
      <4>3. ov.state \in {"IDLE", "ACTIVE"}
        BY <3>3 DEF States
      <4> HIDE DEF ov, nv, i
      <4>4. Moves(ov.state, ov.credits, 0, 0, Buffered(c, vc), 0,
                  nv.state, nv.credits, 0, 0, Buffered(c, vc)', 0)
        BY <3>4, <3>5, <3>7, <4>1, <4>2, <4>3 DEF Moves, ov
      <4> QED
        BY <2>1, <3>2, <4>4 DEF FlowMove, ov, nv
    <3> QED
      BY <3>8, <3>9
  <2> QED
    BY <2>2, <2>3
<1> QED
  BY <1>14, <1>15, <1>16, <1>17, <1>18, <1>19 DEF StepOK

\* The least of some natural numbers.
LEMMA MinIsLeast ==
  ASSUME NEW S \in SUBSET Nat, S # {}
  PROVE  Min(S) \in S /\ \A y \in S : Min(S) <= y
<1> DEFINE R == OpToRel(<, Nat)
<1>1. \E x \in S : \A y \in S : ~(<<y, x>> \in R)
  BY NatLessThanWellFounded, WFMin
<1>2. R = { ss \in Nat \X Nat : ss[1] < ss[2] }
  BY Zenon DEF OpToRel
<1> HIDE DEF R
<1>3. \A x, y \in S : ~(<<y, x>> \in R) => x <= y
  BY <1>2
<1>4. \E x \in S : \A y \in S : x <= y
  BY <1>1, <1>3
<1> QED
  BY <1>4 DEF Min

\* The VCs of a vnet.
LEMMA VnetOfVc ==
  /\ \A vc \in VCs : get_vnet(vc) \in Vnets
  /\ \A v \in Vnets : VcsOf(v) \subseteq VCs
  /\ VCs \subseteq Nat
<1>1. NumVnets \in Nat \ {0} /\ VcPerVnet \in Nat \ {0}
  BY NetworkConstants
<1>2. ASSUME NEW a \in Nat, NEW b \in Nat, a <= b PROVE a * VcPerVnet <= b * VcPerVnet
  BY <1>1, <1>2
<1>3. NumVnets * VcPerVnet \in Nat
  BY <1>1
<1>4. ASSUME NEW vc \in VCs PROVE get_vnet(vc) \in Vnets
  <2> DEFINE q == vc \div VcPerVnet
  <2>1. vc \in Nat /\ vc < NumVnets * VcPerVnet
    BY <1>3 DEF VCs
  <2>2. q \in Nat /\ q * VcPerVnet <= vc
    BY <1>1, <2>1
  <2>3. q < NumVnets
    <3>1. CASE q >= NumVnets
      <4> HIDE DEF q
      <4>1. NumVnets * VcPerVnet <= q * VcPerVnet
        BY <1>1, <1>2, <2>2, <3>1
      <4>2. q * VcPerVnet \in Nat
        BY <1>1, <2>2
      <4> QED
        BY <1>3, <2>1, <2>2, <4>1, <4>2
    <3> QED
      BY <1>1, <2>2, <3>1
  <2> HIDE DEF q
  <2>4. q \in 0 .. NumVnets - 1
    BY <1>1, <2>2, <2>3
  <2> QED
    BY <2>4 DEF q, get_vnet, Vnets
<1>5. ASSUME NEW v \in Vnets PROVE VcsOf(v) \subseteq VCs
  <2>1. v \in Nat /\ v + 1 \in Nat /\ v + 1 <= NumVnets
    BY <1>1 DEF Vnets
  <2>2. (v + 1) * VcPerVnet <= NumVnets * VcPerVnet
    BY <1>1, <1>2, <2>1
  <2>3. v * VcPerVnet \in Nat /\ (v + 1) * VcPerVnet \in Nat
    BY <1>1, <2>1
  <2> DEFINE a == v * VcPerVnet
             b == (v + 1) * VcPerVnet
             m == NumVnets * VcPerVnet
  <2>4. a \in Nat /\ b \in Nat /\ m \in Nat /\ b <= m
    BY <1>3, <2>2, <2>3
  <2>5. VcsOf(v) = a .. b - 1 /\ VCs = 0 .. m - 1
    BY DEF VcsOf, VCs
  <2> HIDE DEF a, b, m
  <2> QED
    BY <2>4, <2>5
<1>6. VCs \subseteq Nat
  BY <1>3 DEF VCs
<1> QED
  BY <1>4, <1>5, <1>6

\* vc_allocate finds an idle VC.
LEMMA SelectFree ==
  ASSUME NEW c, NEW vnet \in Vnets, FreeVcs(c, vnet) # {}
  PROVE  /\ select_free_vc(c, vnet) \in VCs
         /\ outvc[c][select_free_vc(c, vnet)].state = "IDLE"
<1>1. FreeVcs(c, vnet) \subseteq VCs /\ VCs \subseteq Nat
  BY VnetOfVc DEF FreeVcs
<1>2. select_free_vc(c, vnet) \in FreeVcs(c, vnet)
  BY <1>1, MinIsLeast DEF select_free_vc
<1> QED
  BY <1>1, <1>2 DEF FreeVcs, IsIdle

\* What SA-I and SA-II grant.
LEMMA AllocationFacts ==
  ASSUME Typed, Routed, NEW r \in Routers, NEW alloc \in Allocations(r)
  PROVE  LET req == alloc[1]
             win == alloc[2]
             chan(c) == RequestedChan(r, req, c)
         IN  /\ halt[r] => win = {}
             /\ win \subseteq InPortsOf(r)
             /\ \A c \in win :
                  /\ req[c] \in VCs
                  /\ inbuf[c][req[c]] # <<>>
                  /\ chan(c) \in Chans \ LocalPorts
                  /\ CreditConsumer(chan(c)) = RouterOf(r)
                  /\ select_free_vc(chan(c), get_vnet(req[c])) \in VCs
                  /\ outvc[chan(c)][select_free_vc(chan(c), get_vnet(req[c]))].state = "IDLE"
             /\ \A c, d \in win : chan(c) = chan(d) => c = d
<1>1. CASE halt[r]
  BY <1>1 DEF Allocations
<1>2. CASE ~halt[r]
  <2>1. PICK req \in Requests(r) : \E win \in Grants(r, req) : alloc = <<req, win>>
    BY <1>2 DEF Allocations
  <2>2. PICK win \in Grants(r, req) : alloc = <<req, win>>
    BY <2>1
  <2>3. /\ DOMAIN req \subseteq InPortsOf(r)
        /\ \A c \in DOMAIN req : req[c] \in ReadyVcs(r, c)
    BY DEF Requests
  <2>4. /\ win \subseteq DOMAIN req
        /\ \A c, d \in win : RequestedChan(r, req, c) = RequestedChan(r, req, d) => c = d
    BY DEF Grants
  <2>5. ASSUME NEW c \in win
        PROVE  /\ req[c] \in VCs
               /\ inbuf[c][req[c]] # <<>>
               /\ RequestedChan(r, req, c) \in Chans \ LocalPorts
               /\ CreditConsumer(RequestedChan(r, req, c)) = RouterOf(r)
               /\ select_free_vc(RequestedChan(r, req, c), get_vnet(req[c])) \in VCs
               /\ outvc[RequestedChan(r, req, c)]
                    [select_free_vc(RequestedChan(r, req, c), get_vnet(req[c]))].state = "IDLE"
    <3>1. /\ c \in InPorts /\ c[1] = r /\ req[c] \in VCs /\ inbuf[c][req[c]] # <<>>
          /\ FreeVcs(RequestedChan(r, req, c), get_vnet(req[c])) # {}
      BY <2>3, <2>4 DEF ReadyVcs, InPortsOf, Ready, RequestedChan
    <3>2. Head(inbuf[c][req[c]]).out \in OutSides(r) \cup {"Local"}
      <4>1. inbuf[c][req[c]] \in Seq(FlitRecord)
        BY <3>1, QueueTypes
      <4>2. Head(inbuf[c][req[c]]) = inbuf[c][req[c]][1] /\ 1 \in 1 .. Len(inbuf[c][req[c]])
        BY <3>1, <4>1, Taken
      <4> QED
        BY <3>1, <4>2 DEF Routed
    <3>3. /\ RequestedChan(r, req, c) \in Chans \ LocalPorts
          /\ CreditConsumer(RequestedChan(r, req, c)) = RouterOf(r)
      BY <3>2, OutChannel DEF RequestedChan
    <3>4. get_vnet(req[c]) \in Vnets
      BY <3>1, VnetOfVc
    <3> QED
      BY <3>1, <3>3, <3>4, SelectFree
  <2> QED
    BY <1>2, <2>2, <2>3, <2>4, <2>5
<1> QED
  BY <1>1, <1>2

\* Switch allocation and traversal.
LEMMA AllocateStep ==
  ASSUME NetworkInv, NEW r \in Routers, RouterAllocate(r), UNCHANGED spinMult
  PROVE  StepOK
<1>1. /\ running = <<r, "sa">> /\ running' = Idle
      /\ UNCHANGED <<phase, started, halt, lock, msgq, nivc, fresh, delivered>>
  BY DEF RouterAllocate, clockVars, lockVars, niVars
<1>2. PICK alloc \in Allocations(r) : SwitchTraversal(r, alloc[1], alloc[2])
  BY DEF RouterAllocate
<1>3. Typed /\ Routed /\ Lanes /\ RunsOnce
  BY DEF NetworkInv
<1> DEFINE req       == alloc[1]
           win       == alloc[2]
           chan(c)   == RequestedChan(r, req, c)
           newvc(c)  == select_free_vc(chan(c), get_vnet(req[c]))
           winner(o) == CHOOSE c \in win : chan(c) = o
           taken     == { chan(c) : c \in win }
           flit(o)   == [pkt   |-> Head(inbuf[winner(o)][req[winner(o)]]).pkt,
                         vc    |-> newvc(winner(o)),
                         delay |-> LinkDelay]
           credit(c) == [vc |-> req[c], delay |-> LinkDelay]
           sent      == Schedule(wake, { FlitConsumer(o) : o \in taken }
                                       \cup { CreditConsumer(c) : c \in win }, LinkDelay)
<1>4. /\ halt[r] => win = {}
      /\ win \subseteq InPortsOf(r)
      /\ \A c \in win : /\ req[c] \in VCs
                        /\ inbuf[c][req[c]] # <<>>
                        /\ chan(c) \in Chans \ LocalPorts
                        /\ CreditConsumer(chan(c)) = RouterOf(r)
                        /\ newvc(c) \in VCs
                        /\ outvc[chan(c)][newvc(c)].state = "IDLE"
      /\ \A c, d \in win : chan(c) = chan(d) => c = d
  BY <1>3, AllocationFacts
<1>5. /\ inbuf' = [c \in InPorts |->
           IF c \in win THEN [inbuf[c] EXCEPT ![req[c]] = Tail(@)] ELSE inbuf[c]]
      /\ outvc' = [o \in Chans |->
           IF o \in taken
           THEN [outvc[o] EXCEPT ![newvc(winner(o))] = decrement_credit(set_vc_state(@, "ACTIVE"))]
           ELSE outvc[o]]
      /\ pipe' = [o \in Chans |-> IF o \in taken THEN Append(pipe[o], flit(o)) ELSE pipe[o]]
      /\ crd' = [c \in Chans |-> IF c \in win THEN Append(crd[c], credit(c)) ELSE crd[c]]
      /\ wake' = sent \/ wake' = Schedule(sent, {RouterOf(r)}, 1)
  BY <1>2 DEF SwitchTraversal
<1>6. win \subseteq InPorts /\ InPorts \subseteq Chans /\ \A c \in win : FlitConsumer(c) = RouterOf(r)
  BY <1>4, FlitConsumers DEF InPortsOf, Chans
<1>7. \A o \in taken : /\ winner(o) \in win /\ chan(winner(o)) = o
                       /\ o \in Chans \ LocalPorts /\ CreditConsumer(o) = RouterOf(r)
                       /\ newvc(winner(o)) \in VCs
                       /\ outvc[o][newvc(winner(o))].state = "IDLE"
  <2> TAKE o \in taken
  <2>1. \E c \in win : chan(c) = o
    OBVIOUS
  <2>2. winner(o) \in win /\ chan(winner(o)) = o
    BY <2>1
  <2> QED
    BY <1>4, <2>2
<1>8. /\ wake' \in [Consumers -> SUBSET Nat]
      /\ \A x \in Consumers : wake[x] \subseteq wake'[x] /\ (0 \in wake'[x] => 0 \in wake[x])
      /\ \A o \in taken : LinkDelay \in wake'[FlitConsumer(o)]
      /\ \A c \in win : LinkDelay \in wake'[CreditConsumer(c)]
  <2> DEFINE who == { FlitConsumer(o) : o \in taken } \cup { CreditConsumer(c) : c \in win }
  <2>1. wake \in [Consumers -> SUBSET Nat] /\ LinkDelay \in Nat /\ LinkDelay # 0
    BY <1>3, NetworkConstants DEF Typed
  <2>2. /\ \A o \in taken : FlitConsumer(o) \in who /\ FlitConsumer(o) \in Consumers
        /\ \A c \in win : CreditConsumer(c) \in who /\ CreditConsumer(c) \in Consumers
    BY <1>6, <1>7, ConsumerTypes
  <2> HIDE DEF who, taken
  <2>3. sent = Schedule(wake, who, LinkDelay)
    BY DEF who
  <2> HIDE DEF sent
  <2>4. /\ sent \in [Consumers -> SUBSET Nat]
        /\ \A x \in Consumers : /\ wake[x] \subseteq sent[x] /\ (0 \in sent[x] => 0 \in wake[x])
                                /\ x \in who => LinkDelay \in sent[x]
    BY <2>1, <2>3, ScheduleAdds
  <2>5. CASE wake' = sent
    BY <2>2, <2>4, <2>5
  <2>6. CASE wake' = Schedule(sent, {RouterOf(r)}, 1)
    <3>1. /\ wake' \in [Consumers -> SUBSET Nat]
          /\ \A x \in Consumers : sent[x] \subseteq wake'[x] /\ (0 \in wake'[x] => 0 \in sent[x])
      BY <2>4, <2>6, ScheduleAdds
    <3> QED
      BY <2>2, <2>4, <3>1
  <2> QED
    BY <1>5, <2>5, <2>6
<1> HIDE DEF sent
<1>9. /\ running # Idle /\ running[1] = r /\ 0 \notin wake[RouterOf(r)]
      /\ Pending(RouterOf(r)) /\ ~Pending(RouterOf(r))'
      /\ \A x \in Consumers : Pending(x)' => Pending(x)
  <2>1. running # Idle /\ running[1] = r
    BY <1>1, RunningRouter
  <2>2. 0 \notin wake[RouterOf(r)] /\ 0 \notin wake'[RouterOf(r)]
    BY <1>3, <1>8, <2>1, RouterConsumer DEF RunsOnce
  <2> QED
    BY <1>1, <1>8, <2>1, <2>2 DEF Pending
<1>10. ASSUME NEW c \in win
       PROVE  /\ inbuf[c][req[c]] \in Seq(FlitRecord) /\ Tail(inbuf[c][req[c]]) \in Seq(FlitRecord)
              /\ Head(inbuf[c][req[c]]).pkt \in Packets
              /\ credit(c) \in Credit
              /\ Len(inbuf[c][req[c]]) \in Nat /\ Len(inbuf[c][req[c]]) >= 1
              /\ Len(Tail(inbuf[c][req[c]])) = Len(inbuf[c][req[c]]) - 1
              /\ \A i \in 1 .. Len(inbuf[c][req[c]]) - 1 :
                   /\ Tail(inbuf[c][req[c]])[i] = inbuf[c][req[c]][i + 1]
                   /\ i + 1 \in 1 .. Len(inbuf[c][req[c]])
  <2>1. inbuf[c][req[c]] \in Seq(FlitRecord) /\ inbuf[c][req[c]] # <<>>
    BY <1>3, <1>4, <1>6, QueueTypes
  <2>2. Head(inbuf[c][req[c]]) \in FlitRecord
    BY <2>1, Taken
  <2>3. credit(c) \in Credit
    BY <1>4, NetworkConstants DEF Credit
  <2> QED
    BY <2>1, <2>2, <2>3, Taken DEF FlitRecord
<1>11. ASSUME NEW o \in taken PROVE flit(o) \in Transit /\ flit(o).delay = LinkDelay
  <2>1. winner(o) \in win /\ newvc(winner(o)) \in VCs
    BY <1>7
  <2>2. Head(inbuf[winner(o)][req[winner(o)]]).pkt \in Packets
    BY <1>10, <2>1
  <2>3. LinkDelay \in 0 .. LinkDelay
    BY NetworkConstants
  <2> HIDE DEF winner, newvc, req, win, taken
  <2> QED
    BY <2>1, <2>2, <2>3 DEF Transit
<1> HIDE DEF chan, newvc, winner, taken, flit, credit, req, win
<1>12. ASSUME NEW c \in Chans
       PROVE  /\ pipe'[c] = IF c \in taken THEN Append(pipe[c], flit(c)) ELSE pipe[c]
              /\ crd'[c] = IF c \in win THEN Append(crd[c], credit(c)) ELSE crd[c]
              /\ pipe[c] \in Seq(Transit) /\ crd[c] \in Seq(Credit)
  BY <1>3, <1>5, QueueTypes
<1>13. ASSUME NEW c \in InPorts, NEW vc \in VCs
       PROVE  /\ inbuf'[c][vc] = IF c \in win /\ vc = req[c] THEN Tail(inbuf[c][vc]) ELSE inbuf[c][vc]
              /\ inbuf'[c][vc] \in Seq(FlitRecord)
  <2>1. inbuf'[c] = IF c \in win THEN [inbuf[c] EXCEPT ![req[c]] = Tail(@)] ELSE inbuf[c]
    BY <1>5
  <2>2. inbuf[c] \in [VCs -> Seq(FlitRecord)]
    BY <1>3 DEF Typed
  <2>3. inbuf'[c][vc] = IF c \in win /\ vc = req[c] THEN Tail(inbuf[c][vc]) ELSE inbuf[c][vc]
    BY <2>1, <2>2
  <2> QED
    BY <1>10, <2>2, <2>3
<1>14. ASSUME NEW c \in Chans, NEW vc \in VCs
       PROVE  /\ outvc'[c][vc] = IF c \in taken /\ vc = newvc(winner(c))
                                 THEN decrement_credit(set_vc_state(outvc[c][vc], "ACTIVE"))
                                 ELSE outvc[c][vc]
              /\ outvc'[c][vc] \in [state: States, credits: Int]
              /\ decrement_credit(set_vc_state(outvc[c][vc], "ACTIVE")).state = "ACTIVE"
              /\ decrement_credit(set_vc_state(outvc[c][vc], "ACTIVE")).credits
                   = outvc[c][vc].credits - 1
  <2>1. outvc'[c] = IF c \in taken
                    THEN [outvc[c] EXCEPT ![newvc(winner(c))] =
                            decrement_credit(set_vc_state(@, "ACTIVE"))]
                    ELSE outvc[c]
    BY <1>5
  <2>2. outvc[c] \in [VCs -> [state: States, credits: Int]]
    BY <1>3 DEF Typed
  <2>3. outvc'[c][vc] = IF c \in taken /\ vc = newvc(winner(c))
                        THEN decrement_credit(set_vc_state(outvc[c][vc], "ACTIVE"))
                        ELSE outvc[c][vc]
    BY <2>1, <2>2
  <2>4. /\ outvc[c][vc] \in [state: States, credits: Int]
        /\ set_vc_state(outvc[c][vc], "ACTIVE") \in [state: States, credits: Int]
        /\ set_vc_state(outvc[c][vc], "ACTIVE").state = "ACTIVE"
        /\ set_vc_state(outvc[c][vc], "ACTIVE").credits = outvc[c][vc].credits
    BY <2>2, OutVcOps
  <2>5. /\ decrement_credit(set_vc_state(outvc[c][vc], "ACTIVE")) \in [state: States, credits: Int]
        /\ decrement_credit(set_vc_state(outvc[c][vc], "ACTIVE")).state = "ACTIVE"
        /\ decrement_credit(set_vc_state(outvc[c][vc], "ACTIVE")).credits
             = outvc[c][vc].credits - 1
    BY <2>4, OutVcOps
  <2> QED
    BY <2>3, <2>4, <2>5
<1>15. Typed'
  <2>1. pipe' \in [Chans -> Seq(Transit)]
    <3>1. ASSUME NEW c \in Chans PROVE pipe'[c] \in Seq(Transit)
      <4>1. c \in taken => Append(pipe[c], flit(c)) \in Seq(Transit)
        BY <1>11, <1>12, AppendProperties
      <4> QED
        BY <1>12, <4>1
    <3> QED
      BY <1>5, <3>1
  <2>2. crd' \in [Chans -> Seq(Credit)]
    <3>1. ASSUME NEW c \in Chans PROVE crd'[c] \in Seq(Credit)
      <4>1. c \in win => Append(crd[c], credit(c)) \in Seq(Credit)
        BY <1>10, <1>12, AppendProperties
      <4> QED
        BY <1>12, <4>1
    <3> QED
      BY <1>5, <3>1
  <2>3. inbuf' \in [InPorts -> [VCs -> Seq(FlitRecord)]]
    <3>1. ASSUME NEW c \in InPorts PROVE inbuf'[c] \in [VCs -> Seq(FlitRecord)]
      <4>1. inbuf[c] \in [VCs -> Seq(FlitRecord)]
        BY <1>3 DEF Typed
      <4>2. inbuf'[c] = IF c \in win THEN [inbuf[c] EXCEPT ![req[c]] = Tail(@)] ELSE inbuf[c]
        BY <1>5
      <4>3. inbuf'[c] = [vc \in VCs |-> inbuf'[c][vc]]
        BY <4>1, <4>2
      <4> QED
        BY <1>13, <4>3
    <3> QED
      BY <1>5, <3>1
  <2>4. outvc' \in [Chans -> [VCs -> [state: States, credits: Int]]]
    <3>1. ASSUME NEW c \in Chans PROVE outvc'[c] \in [VCs -> [state: States, credits: Int]]
      <4>1. outvc[c] \in [VCs -> [state: States, credits: Int]]
        BY <1>3 DEF Typed
      <4>2. outvc'[c] = IF c \in taken
                        THEN [outvc[c] EXCEPT ![newvc(winner(c))] =
                                decrement_credit(set_vc_state(@, "ACTIVE"))]
                        ELSE outvc[c]
        BY <1>5
      <4>3. outvc'[c] = [vc \in VCs |-> outvc'[c][vc]]
        BY <4>1, <4>2
      <4> QED
        BY <1>14, <4>3
    <3> QED
      BY <1>5, <3>1
  <2> QED
    BY <1>1, <1>3, <1>8, <2>1, <2>2, <2>3, <2>4 DEF Typed
<1>16. Routed'
  <2> SUFFICES ASSUME NEW c \in InPorts, NEW vc \in VCs, NEW i \in 1 .. Len(inbuf'[c][vc])
               PROVE  inbuf'[c][vc][i].out \in OutSides(c[1]) \cup {"Local"}
    BY DEF Routed
  <2>1. CASE c \in win /\ vc = req[c]
    <3>1. inbuf'[c][vc] = Tail(inbuf[c][req[c]])
      BY <1>13, <2>1
    <3>2. \A j \in 1 .. Len(inbuf[c][vc]) : inbuf[c][vc][j].out \in OutSides(c[1]) \cup {"Local"}
      BY <1>3 DEF Routed
    <3>3. inbuf'[c][vc][i] = inbuf[c][vc][i + 1] /\ i + 1 \in 1 .. Len(inbuf[c][vc])
      BY <1>10, <2>1, <3>1
    <3> QED
      BY <3>2, <3>3
  <2>2. CASE ~(c \in win /\ vc = req[c])
    BY <1>3, <1>13, <2>2 DEF Routed
  <2> QED
    BY <2>1, <2>2
<1>17. RunsOnce'
  BY <1>1 DEF RunsOnce
<1>18. Lanes'
  <2> SUFFICES ASSUME NEW c \in Chans PROVE FlitLane(c)' /\ CreditLane(c)'
    BY DEF Lanes
  <2>1. FlitConsumer(c) \in Consumers /\ CreditConsumer(c) \in Consumers
    BY ConsumerTypes
  <2>2. FlitLane(c)'
    <3>1. CASE c \in taken
      <4>1. /\ flit(c) \in Transit /\ flit(c).delay = LinkDelay
            /\ pipe'[c] = Append(pipe[c], flit(c))
            /\ CreditConsumer(c) = RouterOf(r)
            /\ LinkDelay \in wake'[FlitConsumer(c)]
        BY <1>7, <1>8, <1>11, <1>12, <3>1
      <4> QED
        BY <1>3, <1>8, <1>9, <2>1, <4>1, FlitLaneSent
    <3>2. CASE c \notin taken
      BY <1>3, <1>8, <1>9, <1>12, <2>1, <3>2, FlitLaneKept
    <3> QED
      BY <3>1, <3>2
  <2>3. CreditLane(c)'
    <3>1. CASE c \in win
      <4>1. /\ credit(c) \in Credit /\ credit(c).delay = LinkDelay
            /\ crd'[c] = Append(crd[c], credit(c))
            /\ FlitConsumer(c) = RouterOf(r)
            /\ LinkDelay \in wake'[CreditConsumer(c)]
        BY <1>6, <1>8, <1>10, <1>12, <3>1 DEF credit
      <4> QED
        BY <1>3, <1>8, <1>9, <2>1, <4>1, CreditLaneSent
    <3>2. CASE c \notin win
      BY <1>3, <1>8, <1>9, <1>12, <2>1, <3>2, CreditLaneKept
    <3> QED
      BY <3>1, <3>2
  <2> QED
    BY <2>2, <2>3
<1>19. HaltInv'
  <2>1. HaltedWhileLocked'
    BY <1>1 DEF NetworkInv, HaltInv, HaltedWhileLocked
  <2>2. DrainWakeups'
    BY <1>1, <1>8, RouterConsumer DEF NetworkInv, HaltInv, DrainWakeups
  <2>3. QuietInTime'
    <3>1. CASE lock # NoRouter
      <4>1. win = {}
        BY <1>4, <3>1 DEF NetworkInv, HaltInv, HaltedWhileLocked
      <4>2. taken = {}
        BY <4>1 DEF taken
      <4>3. \A c \in Chans : pipe'[c] = pipe[c] /\ crd'[c] = crd[c]
        BY <1>12, <4>1, <4>2
      <4>4. \A c \in RingPorts : c \in Chans
        BY DEF Chans, InPorts
      <4>5. AllSentBefore(LinkLatency - phase)
        BY <3>1 DEF NetworkInv, HaltInv, QuietInTime
      <4>6. AllSentBefore(LinkLatency - phase)'
        BY <1>1, <4>3, <4>4, <4>5 DEF AllSentBefore, SentBefore
      <4> QED
        BY <1>1, <3>1, <4>6 DEF QuietInTime
    <3>2. CASE lock = NoRouter
      <4>1. ~AtThreshold
        BY <1>1, <3>2 DEF NetworkInv, HaltInv, QuietInTime
      <4> QED
        BY <1>1, <3>2, <4>1 DEF QuietInTime, AtThreshold
    <3> QED
      BY <3>1, <3>2
  <2> QED
    BY <2>1, <2>2, <2>3 DEF HaltInv
<1>20. ASSUME NEW c \in Chans, NEW vc \in VCs PROVE FlowMove(c, vc)
  <2> DEFINE in  == c \in win /\ vc = req[c]
             out == c \in taken /\ vc = newvc(winner(c))
  <2>1. ~(c \in win /\ c \in taken)
    BY <1>6, <1>7, NoLoop
  <2>2. Waiting(c, vc)' = Waiting(c, vc)
    BY <1>1 DEF Waiting
  <2>3. /\ OnLink(c, vc) \in Nat /\ Back(c, vc) \in Nat /\ Buffered(c, vc) \in Nat
    BY <1>3, FlowTypes
  <2>4. OnLink(c, vc)' = OnLink(c, vc) + IF out THEN 1 ELSE 0
    <3>1. CASE c \in taken
      <4>1. CountVc(Append(pipe[c], flit(c)), vc)
              = CountVc(pipe[c], vc) + IF flit(c).vc = vc THEN 1 ELSE 0
        BY <1>11, <1>12, <3>1, CountAppend
      <4>2. flit(c).vc = newvc(winner(c))
        BY DEF flit
      <4> QED
        BY <1>12, <3>1, <4>1, <4>2 DEF OnLink, CountVc
    <3>2. CASE c \notin taken
      <4>1. OnLink(c, vc)' = OnLink(c, vc)
        BY <1>12, <3>2 DEF OnLink, CountVc
      <4> QED
        BY <2>3, <3>2, <4>1
    <3> QED
      BY <3>1, <3>2
  <2>5. Back(c, vc)' = Back(c, vc) + IF in THEN 1 ELSE 0
    <3>1. CASE c \in win
      <4>1. CountVc(Append(crd[c], credit(c)), vc)
              = CountVc(crd[c], vc) + IF credit(c).vc = vc THEN 1 ELSE 0
        BY <1>10, <1>12, <3>1, CountAppend
      <4>2. credit(c).vc = req[c]
        BY DEF credit
      <4> QED
        BY <1>12, <3>1, <4>1, <4>2 DEF Back, CountVc
    <3>2. CASE c \notin win
      <4>1. Back(c, vc)' = Back(c, vc)
        BY <1>12, <3>2 DEF Back, CountVc
      <4> QED
        BY <2>3, <3>2, <4>1
    <3> QED
      BY <3>1, <3>2
  <2>6. CASE in
    <3>1. c \in InPorts /\ inbuf'[c][vc] = Tail(inbuf[c][req[c]])
      BY <1>6, <1>13, <2>6
    <3>2. Buffered(c, vc)' = Buffered(c, vc) - 1 /\ Buffered(c, vc) > 0
      BY <1>10, <2>6, <3>1 DEF Buffered
    <3>3. outvc'[c][vc] = outvc[c][vc] /\ ~out
      BY <1>14, <2>1, <2>6
    <3> HIDE DEF in, out
    <3> QED
      BY <2>2, <2>3, <2>4, <2>5, <2>6, <3>2, <3>3 DEF FlowMove, Moves
  <2>7. CASE out
    <3>1. /\ outvc[c][vc].state = "IDLE" /\ outvc'[c][vc].state = "ACTIVE"
          /\ outvc'[c][vc].credits = outvc[c][vc].credits - 1
      BY <1>7, <1>14, <2>7
    <3>2. ~in
      BY <2>1, <2>7
    <3>3. Buffered(c, vc)' = Buffered(c, vc)
      BY <1>13, <3>2 DEF Buffered
    <3> HIDE DEF in, out
    <3> QED
      BY <2>2, <2>3, <2>4, <2>5, <2>7, <3>1, <3>2, <3>3 DEF FlowMove, Moves
  <2>8. CASE ~in /\ ~out
    <3>1. outvc'[c][vc] = outvc[c][vc]
      BY <1>14, <2>8
    <3>2. Buffered(c, vc)' = Buffered(c, vc)
      BY <1>13, <2>8 DEF Buffered
    <3> HIDE DEF in, out
    <3> QED
      BY <2>2, <2>3, <2>4, <2>5, <2>8, <3>1, <3>2 DEF FlowMove, Moves
  <2> QED
    BY <2>6, <2>7, <2>8
<1> QED
  BY <1>15, <1>16, <1>17, <1>18, <1>19, <1>20 DEF StepOK

\* What flitisizeMessage and scheduleOutputLink may do.
LEMMA PickFacts ==
  ASSUME Typed, NEW n \in Routers, NEW pick \in PickVcs(n),
         NEW send \in SendVcs(n, FlitsAfterPick(n, pick))
  PROVE  LET queued == FlitsAfterPick(n, pick)
             inj == <<n, "Local">>
         IN  /\ DOMAIN pick \subseteq Vnets
             /\ \A v \in DOMAIN pick : Tail(msgq[n][v]) \in Seq(MessageRecord)
             /\ \A vc \in VCs :
                  /\ queued[vc] \in Seq(Packets)
                  /\ vc \in Picked(pick) => /\ outvc[inj][vc].state = "IDLE"
                                            /\ Len(queued[vc]) = Len(nivc[n][vc]) + 1
                  /\ vc \notin Picked(pick) => queued[vc] = nivc[n][vc]
                  /\ vc \in send => queued[vc] # <<>> /\ outvc[inj][vc].credits > 0
             /\ send = {} \/ \E vc \in VCs : send = {vc}
<1> DEFINE queued == FlitsAfterPick(n, pick)
           inj == <<n, "Local">>
<1>1. /\ DOMAIN pick = Pickable(n) /\ Pickable(n) \subseteq Vnets
      /\ \A v \in Pickable(n) : pick[v] \in FreeVcs(inj, v)
  BY DEF PickVcs, Pickable
<1>2. ASSUME NEW v \in Pickable(n)
      PROVE  /\ msgq[n][v] \in Seq(MessageRecord) /\ Tail(msgq[n][v]) \in Seq(MessageRecord)
             /\ Head(msgq[n][v]).pkt \in Packets
  <2>1. msgq[n][v] \in Seq(MessageRecord) /\ msgq[n][v] # <<>>
    BY <1>1, QueueTypes DEF Pickable, Ready
  <2>2. Tail(msgq[n][v]) \in Seq(MessageRecord) /\ Head(msgq[n][v]) \in MessageRecord
    BY <2>1, Taken
  <2> QED
    BY <2>1, <2>2 DEF MessageRecord
<1>3. ASSUME NEW vc \in VCs
      PROVE  /\ queued[vc] \in Seq(Packets)
             /\ vc \in Picked(pick) => /\ outvc[inj][vc].state = "IDLE"
                                       /\ Len(queued[vc]) = Len(nivc[n][vc]) + 1
             /\ vc \notin Picked(pick) => queued[vc] = nivc[n][vc]
  <2>1. nivc[n][vc] \in Seq(Packets)
    BY QueueTypes
  <2> DEFINE v == CHOOSE u \in DOMAIN pick : pick[u] = vc
  <2>2. queued[vc] = IF vc \in Picked(pick)
                     THEN Append(nivc[n][vc], Head(msgq[n][v]).pkt) ELSE nivc[n][vc]
    BY DEF FlitsAfterPick
  <2>3. CASE vc \in Picked(pick)
    <3>1. \E u \in DOMAIN pick : pick[u] = vc
      BY <2>3 DEF Picked
    <3>2. v \in DOMAIN pick /\ pick[v] = vc
      BY <3>1
    <3> HIDE DEF v
    <3>3. v \in Pickable(n) /\ vc \in FreeVcs(inj, v)
      BY <1>1, <3>2
    <3>4. outvc[inj][vc].state = "IDLE"
      BY <3>3 DEF FreeVcs, IsIdle
    <3>5. Head(msgq[n][v]).pkt \in Packets
      BY <1>2, <3>3
    <3> HIDE DEF queued
    <3> QED
      BY <2>1, <2>2, <2>3, <3>4, <3>5, AppendProperties
  <2>4. CASE vc \notin Picked(pick)
    BY <2>1, <2>2, <2>4
  <2> QED
    BY <2>3, <2>4
<1>4. /\ send = {} \/ \E vc \in VCs : send = {vc}
      /\ \A vc \in send : queued[vc] # <<>> /\ outvc[inj][vc].credits > 0
  <2> DEFINE ready == { vc \in VCs : queued[vc] # <<>> /\ outvc[inj][vc].credits > 0 }
  <2>1. send \in IF ready = {} THEN {{}} ELSE { {vc} : vc \in ready }
    BY DEF SendVcs
  <2> HIDE DEF queued
  <2>2. send = {} \/ \E vc \in ready : send = {vc}
    BY <2>1
  <2> QED
    BY <2>2
<1> QED
  BY <1>1, <1>2, <1>3, <1>4

\* What a wakeup of an interface changes, with the old values written out.
InterfaceEffect(n, pick, send, after) ==
  LET inj == <<n, "Local">>
      ej  == <<n, "Eject">>
      ejected  == Ready(pipe[ej])
      credited == Ready(crd[inj])
      queued   == FlitsAfterPick(n, pick)
  IN
  /\ msgq' = [msgq EXCEPT ![n] = [v \in Vnets |->
       IF v \in DOMAIN pick THEN Tail(msgq[n][v]) ELSE msgq[n][v]]]
  /\ nivc' = [nivc EXCEPT ![n] = [vc \in VCs |->
       IF vc \in send THEN Tail(queued[vc]) ELSE queued[vc]]]
  /\ outvc' = [outvc EXCEPT ![inj] = [vc \in VCs |->
       LET picked == IF vc \in Picked(pick)
                     THEN set_vc_state(outvc[inj][vc], "ACTIVE") ELSE outvc[inj][vc]
           sent   == IF vc \in send THEN decrement_credit(picked) ELSE picked
       IN  IF credited /\ Head(crd[inj]).vc = vc THEN TakeCredit(sent) ELSE sent]]
  /\ pipe' = [pipe EXCEPT
       ![inj] = IF send = {} THEN pipe[inj]
                ELSE LET vc == CHOOSE x \in send : TRUE
                     IN  Append(pipe[inj], [pkt |-> Head(queued[vc]), vc |-> vc,
                                            delay |-> LinkDelay]),
       ![ej]  = IF ejected THEN Tail(pipe[ej]) ELSE pipe[ej]]
  /\ crd' = [crd EXCEPT
       ![inj] = IF credited THEN Tail(crd[inj]) ELSE crd[inj],
       ![ej]  = IF ejected
                THEN Append(crd[ej], [vc |-> Head(pipe[ej]).vc, delay |-> after])
                ELSE crd[ej]]
  /\ delivered' = delivered \cup (IF ejected THEN {Head(pipe[ej]).pkt} ELSE {})
  /\ wake' =
       LET ran   == [wake EXCEPT ![NiOf(n)] = @ \ {0}]
           flit  == IF send = {} THEN ran ELSE Schedule(ran, {RouterOf(n)}, LinkDelay)
           sent  == IF ejected THEN Schedule(flit, {RouterOf(n)}, after) ELSE flit
       IN  IF checkReschedule(n) THEN Schedule(sent, {NiOf(n)}, 1) ELSE sent

LEMMA EffectOfMoves ==
  ASSUME Typed, NEW n \in Routers, NEW pick, NEW send, NEW after,
         InterfaceMoves(n, pick, send, after)
  PROVE  InterfaceEffect(n, pick, send, after)
<1> DEFINE inj == <<n, "Local">>
           ej  == <<n, "Eject">>
           ejected  == Ready(pipe[ej])
           credited == Ready(crd[inj])
           queued   == FlitsAfterPick(n, pick)
<1>1. inj \in Chans /\ ej \in Chans /\ inj # ej
  BY DEF Chans, InPorts, LocalPorts, EjectPorts
<1>2. pipe \in [Chans -> Seq(Transit)] /\ crd \in [Chans -> Seq(Credit)]
  BY DEF Typed
<1>3. pipe' = [pipe EXCEPT
       ![inj] = IF send = {} THEN pipe[inj]
                ELSE LET vc == CHOOSE x \in send : TRUE
                     IN  Append(pipe[inj], [pkt |-> Head(queued[vc]), vc |-> vc,
                                            delay |-> LinkDelay]),
       ![ej]  = IF ejected THEN Tail(pipe[ej]) ELSE pipe[ej]]
  <2> DEFINE a == IF send = {} THEN pipe[inj]
                  ELSE LET vc == CHOOSE x \in send : TRUE
                       IN  Append(pipe[inj], [pkt |-> Head(queued[vc]), vc |-> vc,
                                              delay |-> LinkDelay])
  <2>1. pipe' = [pipe EXCEPT ![inj] = a, ![ej] = IF ejected THEN Tail(@) ELSE @]
    BY Zenon DEF InterfaceMoves
  <2> HIDE DEF a, inj, ej, ejected
  <2>2. pipe' = [pipe EXCEPT ![inj] = a, ![ej] = IF ejected THEN Tail(pipe[ej]) ELSE pipe[ej]]
    BY <1>1, <1>2, <2>1
  <2> QED
    BY <2>2 DEF a
<1>4. crd' = [crd EXCEPT
       ![inj] = IF credited THEN Tail(crd[inj]) ELSE crd[inj],
       ![ej]  = IF ejected
                THEN Append(crd[ej], [vc |-> Head(pipe[ej]).vc, delay |-> after])
                ELSE crd[ej]]
  <2> DEFINE e == [vc |-> Head(pipe[ej]).vc, delay |-> after]
  <2>1. crd' = [crd EXCEPT ![inj] = IF credited THEN Tail(@) ELSE @,
                           ![ej] = IF ejected THEN Append(@, e) ELSE @]
    BY Zenon DEF InterfaceMoves
  <2> HIDE DEF e, inj, ej, ejected, credited
  <2>2. crd' = [crd EXCEPT ![inj] = IF credited THEN Tail(crd[inj]) ELSE crd[inj],
                           ![ej] = IF ejected THEN Append(crd[ej], e) ELSE crd[ej]]
    BY <1>1, <1>2, <2>1
  <2> QED
    BY <2>2 DEF e
<1>5. /\ msgq' = [msgq EXCEPT ![n] = [v \in Vnets |->
            IF v \in DOMAIN pick THEN Tail(msgq[n][v]) ELSE msgq[n][v]]]
      /\ nivc' = [nivc EXCEPT ![n] = [vc \in VCs |->
            IF vc \in send THEN Tail(queued[vc]) ELSE queued[vc]]]
      /\ outvc' = [outvc EXCEPT ![inj] = [vc \in VCs |->
            LET picked == IF vc \in Picked(pick)
                          THEN set_vc_state(outvc[inj][vc], "ACTIVE") ELSE outvc[inj][vc]
                sent   == IF vc \in send THEN decrement_credit(picked) ELSE picked
            IN  IF credited /\ Head(crd[inj]).vc = vc THEN TakeCredit(sent) ELSE sent]]
      /\ delivered' = delivered \cup (IF ejected THEN {Head(pipe[ej]).pkt} ELSE {})
      /\ wake' =
            LET ran   == [wake EXCEPT ![NiOf(n)] = @ \ {0}]
                flit  == IF send = {} THEN ran ELSE Schedule(ran, {RouterOf(n)}, LinkDelay)
                sent  == IF ejected THEN Schedule(flit, {RouterOf(n)}, after) ELSE flit
            IN  IF checkReschedule(n) THEN Schedule(sent, {NiOf(n)}, 1) ELSE sent
  BY Zenon DEF InterfaceMoves
<1> QED
  BY <1>3, <1>4, <1>5, Zenon DEF InterfaceEffect

LEMMA InterfaceEffects ==
  ASSUME Typed, NEW n \in Routers, InterfaceWakeup(n)
  PROVE  \E pick \in PickVcs(n) : \E send \in SendVcs(n, FlitsAfterPick(n, pick)) :
           \E after \in CreditDelays(n) : InterfaceEffect(n, pick, send, after)
  BY EffectOfMoves DEF InterfaceWakeup

\* NetworkInterface::wakeup.
LEMMA InterfaceStep ==
  ASSUME NetworkInv, NEW n \in Routers, InterfaceWakeup(n), UNCHANGED spinMult
  PROVE  StepOK
<1> DEFINE inj == <<n, "Local">>
           ej  == <<n, "Eject">>
           ejected  == Ready(pipe[ej])
           credited == Ready(crd[inj])
<1>1. /\ running = Idle /\ 0 \in wake[NiOf(n)]
      /\ UNCHANGED <<phase, started, running, halt, lock, inbuf, fresh>>
  BY DEF InterfaceWakeup, Due, clockVars, lockVars
<1>2. Typed /\ Routed /\ Lanes
  BY DEF NetworkInv
<1>3. PICK pick \in PickVcs(n) : \E send \in SendVcs(n, FlitsAfterPick(n, pick)) :
        \E after \in CreditDelays(n) : InterfaceEffect(n, pick, send, after)
  BY <1>2, InterfaceEffects
<1>4. PICK send \in SendVcs(n, FlitsAfterPick(n, pick)), after \in CreditDelays(n) :
        InterfaceEffect(n, pick, send, after)
  BY <1>3
<1> DEFINE queued == FlitsAfterPick(n, pick)
           chosen == CHOOSE x \in send : TRUE
           flit   == [pkt |-> Head(queued[chosen]), vc |-> chosen, delay |-> LinkDelay]
           credit == [vc |-> Head(pipe[ej]).vc, delay |-> after]
           picked(vc) == IF vc \in Picked(pick)
                         THEN set_vc_state(outvc[inj][vc], "ACTIVE") ELSE outvc[inj][vc]
           sentvc(vc) == IF vc \in send THEN decrement_credit(picked(vc)) ELSE picked(vc)
           back(vc)   == credited /\ Head(crd[inj]).vc = vc
           ran    == [wake EXCEPT ![NiOf(n)] = @ \ {0}]
           forth  == IF send = {} THEN ran ELSE Schedule(ran, {RouterOf(n)}, LinkDelay)
           sent   == IF ejected THEN Schedule(forth, {RouterOf(n)}, after) ELSE forth
<1>5. /\ msgq' = [msgq EXCEPT ![n] = [v \in Vnets |->
            IF v \in DOMAIN pick THEN Tail(msgq[n][v]) ELSE msgq[n][v]]]
      /\ nivc' = [nivc EXCEPT ![n] = [vc \in VCs |->
            IF vc \in send THEN Tail(queued[vc]) ELSE queued[vc]]]
      /\ outvc' = [outvc EXCEPT ![inj] = [vc \in VCs |->
            IF back(vc) THEN TakeCredit(sentvc(vc)) ELSE sentvc(vc)]]
      /\ pipe' = [pipe EXCEPT ![inj] = IF send = {} THEN pipe[inj] ELSE Append(pipe[inj], flit),
                              ![ej]  = IF ejected THEN Tail(pipe[ej]) ELSE pipe[ej]]
      /\ crd' = [crd EXCEPT ![inj] = IF credited THEN Tail(crd[inj]) ELSE crd[inj],
                            ![ej]  = IF ejected THEN Append(crd[ej], credit) ELSE crd[ej]]
      /\ wake' = sent \/ wake' = Schedule(sent, {NiOf(n)}, 1)
  BY <1>4 DEF InterfaceEffect
<1>6. /\ DOMAIN pick \subseteq Vnets
      /\ \A v \in DOMAIN pick : Tail(msgq[n][v]) \in Seq(MessageRecord)
      /\ \A vc \in VCs :
           /\ queued[vc] \in Seq(Packets)
           /\ vc \in Picked(pick) => /\ outvc[inj][vc].state = "IDLE"
                                     /\ Len(queued[vc]) = Len(nivc[n][vc]) + 1
           /\ vc \notin Picked(pick) => queued[vc] = nivc[n][vc]
           /\ vc \in send => queued[vc] # <<>> /\ outvc[inj][vc].credits > 0
      /\ send = {} \/ \E vc \in VCs : send = {vc}
  BY <1>2, PickFacts
<1>7. /\ inj \in Chans /\ ej \in Chans /\ inj # ej /\ inj \in LocalPorts /\ ej \notin LocalPorts
      /\ inj \in InPorts /\ ej \notin InPorts /\ inj \notin RingPorts /\ ej \notin RingPorts
      /\ FlitConsumer(inj) = RouterOf(n) /\ CreditConsumer(inj) = NiOf(n)
      /\ FlitConsumer(ej) = NiOf(n) /\ CreditConsumer(ej) = RouterOf(n)
  <2>1. inj \in Chans /\ ej \in Chans /\ inj[1] = n /\ inj[2] = "Local" /\ ej[1] = n /\ ej[2] = "Eject"
    BY DEF Chans, InPorts, LocalPorts, EjectPorts
  <2>2. "Local" # "Eject" /\ "Local" \notin Sides /\ "Eject" \notin Sides
    BY DEF Sides
  <2> QED
    BY <2>1, <2>2, ChannelTypes DEF FlitConsumer, CreditConsumer
<1>8. /\ send # {} => chosen \in VCs /\ send = {chosen}
      /\ send # {} => flit \in Transit /\ flit.delay = LinkDelay /\ flit.vc = chosen
      /\ ejected => credit \in Credit /\ credit.delay = after /\ credit.vc = Head(pipe[ej]).vc
      /\ after \in Nat /\ after # 0
      /\ \A i \in 1 .. Len(crd[ej]) : crd[ej][i].delay < after
  <2>1. LinkDelay \in 0 .. LinkDelay /\ after \in 0 .. LinkDelay /\ after \in Nat /\ after # 0
    BY NetworkConstants DEF CreditDelays
  <2>5. \A i \in 1 .. Len(crd[ej]) : crd[ej][i].delay < after
    BY DEF CreditDelays
  <2>2. ASSUME send # {} PROVE chosen \in VCs /\ send = {chosen}
    BY <1>6, <2>2
  <2>3. ASSUME send # {} PROVE flit \in Transit
    <3>1. queued[chosen] \in Seq(Packets) /\ queued[chosen] # <<>> /\ chosen \in VCs
      BY <1>6, <2>2, <2>3
    <3>2. Head(queued[chosen]) \in Packets
      BY <3>1, Taken
    <3> HIDE DEF chosen, queued
    <3> QED
      BY <2>1, <3>1, <3>2 DEF Transit
  <2>4. ASSUME ejected PROVE credit \in Credit
    <3>1. pipe[ej] \in Seq(Transit) /\ pipe[ej] # <<>>
      BY <1>2, <1>7, <2>4, QueueTypes DEF Ready
    <3>2. Head(pipe[ej]) \in Transit
      BY <3>1, Taken
    <3>3. Head(pipe[ej]).vc \in VCs
      BY <3>2 DEF Transit
    <3> QED
      BY <2>1, <3>3 DEF Credit
  <2> QED
    BY <2>1, <2>2, <2>3, <2>4, <2>5
<1>9. /\ wake' \in [Consumers -> SUBSET Nat]
      /\ \A x \in Consumers : /\ x # NiOf(n) => wake[x] \subseteq wake'[x]
                              /\ wake[x] \ {0} \subseteq wake'[x]
                              /\ 0 \in wake'[x] => 0 \in wake[x]
      /\ 0 \notin wake'[NiOf(n)]
      /\ send # {} => LinkDelay \in wake'[RouterOf(n)]
      /\ ejected => after \in wake'[RouterOf(n)]
  <2>1. /\ wake \in [Consumers -> SUBSET Nat] /\ LinkDelay \in Nat /\ LinkDelay # 0
        /\ NiOf(n) \in Consumers /\ RouterOf(n) \in Consumers /\ NiOf(n) # RouterOf(n)
    BY <1>2, NetworkConstants, RouterConsumer DEF Typed
  <2>2. /\ ran \in [Consumers -> SUBSET Nat]
        /\ \A x \in Consumers : /\ x # NiOf(n) => wake[x] \subseteq ran[x]
                                /\ wake[x] \ {0} \subseteq ran[x]
                                /\ 0 \in ran[x] => 0 \in wake[x] /\ x # NiOf(n)
    BY <2>1
  <2> DEFINE woken == Schedule(ran, {RouterOf(n)}, LinkDelay)
  <2> HIDE DEF ran
  <2>3. /\ woken \in [Consumers -> SUBSET Nat]
        /\ \A x \in Consumers : ran[x] \subseteq woken[x] /\ (0 \in woken[x] => 0 \in ran[x])
        /\ LinkDelay \in woken[RouterOf(n)]
    BY <2>1, <2>2, ScheduleAdds
  <2>4. forth = woken \/ (forth = ran /\ send = {})
    OBVIOUS
  <2> DEFINE late == Schedule(forth, {RouterOf(n)}, after)
  <2>7. sent = late \/ (sent = forth /\ ~ejected)
    OBVIOUS
  <2> HIDE DEF woken, ejected, forth, sent
  <2>8. /\ forth \in [Consumers -> SUBSET Nat]
        /\ \A x \in Consumers : ran[x] \subseteq forth[x] /\ (0 \in forth[x] => 0 \in ran[x])
        /\ send # {} => LinkDelay \in forth[RouterOf(n)]
    BY <2>2, <2>3, <2>4
  <2>9. /\ late \in [Consumers -> SUBSET Nat]
        /\ \A x \in Consumers : forth[x] \subseteq late[x] /\ (0 \in late[x] => 0 \in forth[x])
        /\ after \in late[RouterOf(n)]
    BY <1>8, <2>1, <2>8, ScheduleAdds
  <2> HIDE DEF late
  <2>5. /\ sent \in [Consumers -> SUBSET Nat]
        /\ \A x \in Consumers : ran[x] \subseteq sent[x] /\ (0 \in sent[x] => 0 \in ran[x])
        /\ send # {} => LinkDelay \in sent[RouterOf(n)]
        /\ ejected => after \in sent[RouterOf(n)]
    <3>1. CASE sent = late
      BY <2>1, <2>8, <2>9, <3>1
    <3>2. CASE sent = forth /\ ~ejected
      BY <2>8, <3>2
    <3> QED
      BY <2>7, <3>1, <3>2
  <2> HIDE DEF sent
  <2>6. /\ wake' \in [Consumers -> SUBSET Nat]
        /\ \A x \in Consumers : sent[x] \subseteq wake'[x] /\ (0 \in wake'[x] => 0 \in sent[x])
    <3>1. CASE wake' = sent
      BY <2>5, <3>1
    <3>2. CASE wake' = Schedule(sent, {NiOf(n)}, 1)
      BY <2>5, <3>2, ScheduleAdds
    <3> QED
      BY <1>5, <3>1, <3>2
  <2> QED
    BY <2>1, <2>2, <2>5, <2>6
<1> HIDE DEF sent, forth, ran, flit, credit, chosen, queued
<1>10. /\ Pending(NiOf(n)) /\ ~Pending(NiOf(n))'
       /\ \A x \in Consumers : Pending(x)' => Pending(x)
  BY <1>1, <1>9 DEF Pending
<1>11. /\ pipe'[inj] = IF send = {} THEN pipe[inj] ELSE Append(pipe[inj], flit)
       /\ pipe'[ej]  = IF ejected THEN Tail(pipe[ej]) ELSE pipe[ej]
       /\ crd'[inj]  = IF credited THEN Tail(crd[inj]) ELSE crd[inj]
       /\ crd'[ej]   = IF ejected THEN Append(crd[ej], credit) ELSE crd[ej]
       /\ \A c \in Chans : c # inj /\ c # ej => pipe'[c] = pipe[c] /\ crd'[c] = crd[c]
       /\ \A c \in Chans : c # inj => outvc'[c] = outvc[c]
       /\ \A vc \in VCs : outvc'[inj][vc] = IF back(vc) THEN TakeCredit(sentvc(vc)) ELSE sentvc(vc)
       /\ \A m \in Routers : m # n => nivc'[m] = nivc[m]
       /\ \A vc \in VCs : nivc'[n][vc] = IF vc \in send THEN Tail(queued[vc]) ELSE queued[vc]
  <2> HIDE DEF ejected, credited, back, sentvc
  <2>1. /\ pipe \in [Chans -> Seq(Transit)] /\ crd \in [Chans -> Seq(Credit)]
        /\ DOMAIN outvc = Chans /\ DOMAIN nivc = Routers
    BY <1>2 DEF Typed
  <2> HIDE DEF inj, ej
  <2> QED
    BY <1>5, <1>7, <2>1
<1>12. ASSUME NEW vc \in VCs
       PROVE  /\ outvc[inj][vc] \in [state: States, credits: Int]
              /\ outvc'[inj][vc] \in [state: States, credits: Int]
              /\ outvc'[inj][vc].credits = outvc[inj][vc].credits - (IF vc \in send THEN 1 ELSE 0)
                                                                   + (IF back(vc) THEN 1 ELSE 0)
              /\ outvc'[inj][vc].state = IF back(vc) THEN "IDLE"
                                         ELSE IF vc \in Picked(pick) THEN "ACTIVE"
                                         ELSE outvc[inj][vc].state
  <2>1. outvc[inj][vc] \in [state: States, credits: Int]
    BY <1>2, <1>7, QueueTypes
  <2>2. /\ picked(vc) \in [state: States, credits: Int]
        /\ picked(vc).credits = outvc[inj][vc].credits
        /\ picked(vc).state = IF vc \in Picked(pick) THEN "ACTIVE" ELSE outvc[inj][vc].state
    BY <2>1, OutVcOps
  <2> HIDE DEF picked
  <2>3. /\ sentvc(vc) \in [state: States, credits: Int]
        /\ sentvc(vc).credits = outvc[inj][vc].credits - (IF vc \in send THEN 1 ELSE 0)
        /\ sentvc(vc).state = picked(vc).state
    <3>1. CASE vc \in send
      <4>1. sentvc(vc) = decrement_credit(picked(vc))
        BY <3>1
      <4>2. /\ decrement_credit(picked(vc)) \in [state: States, credits: Int]
            /\ decrement_credit(picked(vc)).state = picked(vc).state
            /\ decrement_credit(picked(vc)).credits = picked(vc).credits - 1
        BY <2>2, OutVcOps
      <4> HIDE DEF sentvc
      <4> QED
        BY <2>2, <3>1, <4>1, <4>2
    <3>2. CASE vc \notin send
      <4>1. outvc[inj][vc].credits \in Int
        BY <2>1
      <4> QED
        BY <2>2, <3>2, <4>1
    <3> QED
      BY <3>1, <3>2
  <2> HIDE DEF sentvc, back
  <2>4. CASE back(vc)
    <3>1. outvc'[inj][vc] = TakeCredit(sentvc(vc))
      BY <1>11, <2>4
    <3>2. /\ TakeCredit(sentvc(vc)) \in [state: States, credits: Int]
          /\ TakeCredit(sentvc(vc)).state = "IDLE"
          /\ TakeCredit(sentvc(vc)).credits = sentvc(vc).credits + 1
      BY <2>3, OutVcOps
    <3> QED
      BY <2>1, <2>3, <2>4, <3>1, <3>2
  <2>5. CASE ~back(vc)
    <3>1. outvc'[inj][vc] = sentvc(vc)
      BY <1>11, <2>5
    <3>2. sentvc(vc).credits \in Int
      BY <2>3
    <3> QED
      BY <2>1, <2>2, <2>3, <2>5, <3>1, <3>2
  <2> QED
    BY <2>4, <2>5
<1>13. ASSUME NEW vc \in VCs
       PROVE  /\ nivc[n][vc] \in Seq(Packets) /\ nivc'[n][vc] \in Seq(Packets)
              /\ Len(nivc[n][vc]) \in Nat
              /\ Len(nivc'[n][vc]) = Len(nivc[n][vc]) + (IF vc \in Picked(pick) THEN 1 ELSE 0)
                                                      - (IF vc \in send THEN 1 ELSE 0)
              /\ vc \in send => Len(nivc[n][vc]) + (IF vc \in Picked(pick) THEN 1 ELSE 0) > 0
  <2>1. nivc[n][vc] \in Seq(Packets) /\ queued[vc] \in Seq(Packets)
    BY <1>2, <1>6, QueueTypes
  <2>2. Len(nivc[n][vc]) \in Nat /\ Len(queued[vc]) \in Nat
    BY <2>1, LenProperties
  <2> DEFINE more == IF vc \in Picked(pick) THEN 1 ELSE 0
             less == IF vc \in send THEN 1 ELSE 0
  <2>3. Len(queued[vc]) = Len(nivc[n][vc]) + more /\ more \in Nat
    <3>1. CASE vc \in Picked(pick)
      BY <1>6, <2>2, <3>1
    <3>2. CASE vc \notin Picked(pick)
      <4>1. queued[vc] = nivc[n][vc] /\ more = 0
        BY <1>6, <3>2
      <4> HIDE DEF more
      <4> QED
        BY <2>2, <4>1
    <3> QED
      BY <3>1, <3>2
  <2> HIDE DEF more
  <2> SUFFICES /\ nivc'[n][vc] \in Seq(Packets)
               /\ Len(nivc'[n][vc]) = Len(nivc[n][vc]) + more - less
               /\ vc \in send => Len(nivc[n][vc]) + more > 0
    BY <2>1, <2>2 DEF more
  <2>4. CASE vc \in send
    <3>1. queued[vc] # <<>> /\ nivc'[n][vc] = Tail(queued[vc])
      BY <1>6, <1>11, <2>4
    <3>2. Tail(queued[vc]) \in Seq(Packets) /\ Len(queued[vc]) >= 1
          /\ Len(Tail(queued[vc])) = Len(queued[vc]) - 1
      BY <2>1, <3>1, Taken
    <3> QED
      BY <2>1, <2>2, <2>3, <2>4, <3>1, <3>2
  <2>5. CASE vc \notin send
    <3>1. nivc'[n][vc] = queued[vc] /\ less = 0
      BY <1>11, <2>5
    <3> HIDE DEF less
    <3> QED
      BY <2>1, <2>2, <2>3, <2>5, <3>1
  <2> QED
    BY <2>4, <2>5
<1> HIDE DEF picked, sentvc
<1>14. Typed'
  <2>1. pipe' \in [Chans -> Seq(Transit)]
    <3>1. ASSUME NEW c \in Chans PROVE pipe'[c] \in Seq(Transit)
      <4>1. pipe[c] \in Seq(Transit)
        BY <1>2, QueueTypes
      <4>2. CASE c = inj
        <5>1. send # {} => Append(pipe[c], flit) \in Seq(Transit)
          BY <1>8, <4>1, AppendProperties
        <5> QED
          BY <1>11, <4>1, <4>2, <5>1
      <4>3. CASE c = ej
        <5>1. ejected => Tail(pipe[c]) \in Seq(Transit)
          BY <4>1, <4>3, Taken DEF Ready
        <5> QED
          BY <1>11, <4>1, <4>3, <5>1
      <4> QED
        BY <1>11, <4>1, <4>2, <4>3
    <3> QED
      BY <1>2, <1>5, <3>1 DEF Typed
  <2>2. crd' \in [Chans -> Seq(Credit)]
    <3>1. ASSUME NEW c \in Chans PROVE crd'[c] \in Seq(Credit)
      <4>1. crd[c] \in Seq(Credit)
        BY <1>2, QueueTypes
      <4>2. CASE c = ej
        <5>1. ejected => Append(crd[c], credit) \in Seq(Credit)
          BY <1>8, <4>1, AppendProperties
        <5> QED
          BY <1>11, <4>1, <4>2, <5>1
      <4>3. CASE c = inj
        <5>1. credited => Tail(crd[c]) \in Seq(Credit)
          BY <4>1, <4>3, Taken DEF Ready
        <5> QED
          BY <1>11, <4>1, <4>3, <5>1
      <4> QED
        BY <1>11, <4>1, <4>2, <4>3
    <3> QED
      BY <1>2, <1>5, <3>1 DEF Typed
  <2>3. outvc' \in [Chans -> [VCs -> [state: States, credits: Int]]]
    <3>1. ASSUME NEW c \in Chans PROVE outvc'[c] \in [VCs -> [state: States, credits: Int]]
      <4>1. outvc[c] \in [VCs -> [state: States, credits: Int]]
        BY <1>2 DEF Typed
      <4>2. CASE c = inj
        <5>1. outvc'[inj] = [vc \in VCs |-> IF back(vc) THEN TakeCredit(sentvc(vc)) ELSE sentvc(vc)]
          BY <1>2, <1>5, <1>7 DEF Typed
        <5>2. outvc'[inj] = [vc \in VCs |-> outvc'[inj][vc]]
          BY <5>1
        <5> QED
          BY <1>12, <4>2, <5>2
      <4> QED
        BY <1>11, <4>1, <4>2
    <3> QED
      BY <1>2, <1>5, <3>1 DEF Typed
  <2>4. nivc' \in [Routers -> [VCs -> Seq(Packets)]]
    <3>1. ASSUME NEW m \in Routers PROVE nivc'[m] \in [VCs -> Seq(Packets)]
      <4>1. nivc[m] \in [VCs -> Seq(Packets)]
        BY <1>2 DEF Typed
      <4>2. CASE m = n
        <5>1. nivc'[n] = [vc \in VCs |-> IF vc \in send THEN Tail(queued[vc]) ELSE queued[vc]]
          BY <1>2, <1>5 DEF Typed
        <5>2. nivc'[n] = [vc \in VCs |-> nivc'[n][vc]]
          BY <5>1
        <5> QED
          BY <1>13, <4>2, <5>2
      <4> QED
        BY <1>11, <4>1, <4>2
    <3> QED
      BY <1>2, <1>5, <3>1 DEF Typed
  <2>5. msgq' \in [Routers -> [Vnets -> Seq(MessageRecord)]]
    <3>1. msgq \in [Routers -> [Vnets -> Seq(MessageRecord)]]
      BY <1>2 DEF Typed
    <3> DEFINE rest == [v \in Vnets |-> IF v \in DOMAIN pick THEN Tail(msgq[n][v]) ELSE msgq[n][v]]
    <3>2. rest \in [Vnets -> Seq(MessageRecord)]
      BY <1>6, <3>1
    <3>3. msgq' = [msgq EXCEPT ![n] = rest]
      BY <1>5
    <3> HIDE DEF rest
    <3> QED
      BY <3>1, <3>2, <3>3
  <2> QED
    BY <1>1, <1>2, <1>9, <2>1, <2>2, <2>3, <2>4, <2>5 DEF Typed
<1>15. Routed'
  BY <1>1, <1>2 DEF Routed
<1>16. RunsOnce'
  BY <1>1 DEF RunsOnce
<1>17. Lanes'
  <2> SUFFICES ASSUME NEW c \in Chans PROVE FlitLane(c)' /\ CreditLane(c)'
    BY DEF Lanes
  <2>1. /\ FlitConsumer(c) \in Consumers /\ CreditConsumer(c) \in Consumers
        /\ Pending(FlitConsumer(c))' => Pending(FlitConsumer(c))
        /\ Pending(CreditConsumer(c))' => Pending(CreditConsumer(c))
    BY <1>10, ConsumerTypes
  <2>2. CASE c = inj
    <3>1. wake[FlitConsumer(c)] \subseteq wake'[FlitConsumer(c)]
      BY <1>7, <1>9, <2>1, <2>2, RouterConsumer
    <3>2. FlitLane(c)'
      <4>1. CASE send = {}
        BY <1>2, <1>11, <2>1, <2>2, <3>1, <4>1, FlitLaneKept
      <4>2. CASE send # {}
        <5>1. /\ flit \in Transit /\ flit.delay = LinkDelay /\ pipe'[c] = Append(pipe[c], flit)
              /\ LinkDelay \in wake'[FlitConsumer(c)]
              /\ Pending(CreditConsumer(c)) /\ ~Pending(CreditConsumer(c))'
          BY <1>7, <1>8, <1>9, <1>10, <1>11, <2>2, <4>2
        <5> QED
          BY <1>2, <3>1, <5>1, FlitLaneSent
      <4> QED
        BY <4>1, <4>2
    <3>3. CreditLane(c)'
      <4>1. /\ crd'[c] = IF Ready(crd[c]) THEN Tail(crd[c]) ELSE crd[c]
            /\ wake[CreditConsumer(c)] \ {0} \subseteq wake'[CreditConsumer(c)]
        BY <1>9, <1>11, <2>1, <2>2
      <4> QED
        BY <1>2, <2>1, <4>1, CreditLaneTaken
    <3> QED
      BY <3>2, <3>3
  <2>3. CASE c = ej
    <3>1. wake[CreditConsumer(c)] \subseteq wake'[CreditConsumer(c)]
      BY <1>7, <1>9, <2>1, <2>3, RouterConsumer
    <3>2. FlitLane(c)'
      <4>1. /\ pipe'[c] = IF Ready(pipe[c]) THEN Tail(pipe[c]) ELSE pipe[c]
            /\ wake[FlitConsumer(c)] \ {0} \subseteq wake'[FlitConsumer(c)]
        BY <1>9, <1>11, <2>1, <2>3
      <4> QED
        BY <1>2, <2>1, <4>1, FlitLaneTaken
    <3>3. CreditLane(c)'
      <4>1. CASE ~ejected
        BY <1>2, <1>11, <2>1, <2>3, <3>1, <4>1, CreditLaneKept
      <4>2. CASE ejected
        <5>1. credit \in Credit /\ crd'[c] = Append(crd[c], credit)
          BY <1>8, <1>11, <2>3, <4>2
        <5>2. \A i \in 1 .. Len(crd[c]) : crd[c][i].delay < credit.delay
          BY <1>8, <2>3, <4>2
        <5>3. credit.delay \in wake'[CreditConsumer(c)]
          BY <1>7, <1>8, <1>9, <2>3, <4>2
        <5>4. Pending(FlitConsumer(c)) /\ ~Pending(FlitConsumer(c))'
          BY <1>7, <1>10, <2>3
        <5> QED
          BY <1>2, <3>1, <5>1, <5>2, <5>3, <5>4, CreditLaneQueued
      <4> QED
        BY <4>1, <4>2
    <3> QED
      BY <3>2, <3>3
  <2>4. CASE c # inj /\ c # ej
    <3>1. FlitConsumer(c) # NiOf(n) /\ CreditConsumer(c) # NiOf(n)
      BY <2>4, FlitConsumers, CreditConsumers
    <3>2. /\ wake[FlitConsumer(c)] \subseteq wake'[FlitConsumer(c)]
          /\ wake[CreditConsumer(c)] \subseteq wake'[CreditConsumer(c)]
          /\ pipe'[c] = pipe[c] /\ crd'[c] = crd[c]
      BY <1>9, <1>11, <2>1, <2>4, <3>1
    <3> QED
      BY <1>2, <2>1, <3>2, FlitLaneKept, CreditLaneKept
  <2> QED
    BY <2>2, <2>3, <2>4
<1>18. HaltInv'
  <2>1. HaltedWhileLocked'
    BY <1>1 DEF NetworkInv, HaltInv, HaltedWhileLocked
  <2>2. DrainWakeups'
    <3>1. \A r \in Routers : wake[RouterOf(r)] \subseteq wake'[RouterOf(r)]
      BY <1>9, RouterConsumer
    <3> QED
      BY <1>1, <3>1 DEF NetworkInv, HaltInv, DrainWakeups
  <2>3. ASSUME NEW d, AllSentBefore(d) PROVE AllSentBefore(d)'
    <3>1. ASSUME NEW c \in Chans \ LocalPorts PROVE SentBefore(pipe'[c], d)
      <4>1. SentBefore(pipe[c], d)
        BY <2>3 DEF AllSentBefore
      <4>2. CASE c = ej /\ ejected
        <5>1. pipe[ej] \in Seq(Transit) /\ pipe[ej] # <<>>
          BY <1>2, <1>7, <4>2, QueueTypes DEF Ready
        <5>2. /\ Len(pipe[ej]) \in Nat /\ Len(Tail(pipe[ej])) = Len(pipe[ej]) - 1
              /\ \A i \in 1 .. Len(pipe[ej]) - 1 :
                   Tail(pipe[ej])[i] = pipe[ej][i + 1] /\ i + 1 \in 1 .. Len(pipe[ej])
          BY <5>1, Taken
        <5>3. pipe'[c] = Tail(pipe[ej])
          BY <1>11, <4>2
        <5> QED
          BY <4>1, <4>2, <5>2, <5>3 DEF SentBefore
      <4>3. CASE ~(c = ej /\ ejected)
        <5>1. pipe'[c] = pipe[c]
          BY <1>7, <1>11, <4>3
        <5> QED
          BY <4>1, <5>1
      <4> QED
        BY <4>2, <4>3
    <3>2. ASSUME NEW c \in RingPorts PROVE SentBefore(crd'[c], d)
      <4>1. c \in Chans /\ c # inj /\ c # ej
        BY <1>7 DEF Chans, InPorts
      <4>2. crd'[c] = crd[c]
        BY <1>11, <4>1
      <4> QED
        BY <2>3, <4>2 DEF AllSentBefore
    <3> QED
      BY <3>1, <3>2 DEF AllSentBefore, SentBefore
  <2>4. QuietInTime'
    <3>1. CASE lock # NoRouter
      <4>1. AllSentBefore(LinkLatency - phase)
        BY <3>1 DEF NetworkInv, HaltInv, QuietInTime
      <4>2. AllSentBefore(LinkLatency - phase)'
        BY <1>1, <2>3, <4>1 DEF AllSentBefore, SentBefore
      <4> QED
        BY <1>1, <3>1, <4>2 DEF QuietInTime
    <3>2. CASE lock = NoRouter
      <4>1. AtThreshold => AllSentBefore(LinkLatency) /\ running[2] # "sa"
        BY <3>2 DEF NetworkInv, HaltInv, QuietInTime
      <4>2. AtThreshold => AllSentBefore(LinkLatency)'
        BY <2>3, <4>1 DEF AllSentBefore, SentBefore
      <4> QED
        BY <1>1, <3>2, <4>1, <4>2 DEF QuietInTime, AtThreshold
    <3> QED
      BY <3>1, <3>2
  <2> QED
    BY <2>1, <2>2, <2>4 DEF HaltInv
<1>19. ASSUME NEW vc \in VCs PROVE FlowMove(inj, vc)
  <2>1. /\ Waiting(inj, vc) \in Nat /\ OnLink(inj, vc) \in Nat
        /\ Buffered(inj, vc) \in Nat /\ Back(inj, vc) \in Nat
        /\ outvc[inj][vc].state \in States /\ outvc[inj][vc].credits \in Int
    BY <1>2, <1>7, FlowTypes
  <2>2. Waiting(inj, vc) + OnLink(inj, vc) + Buffered(inj, vc) + Back(inj, vc)
          = IF outvc[inj][vc].state = "IDLE" THEN 0 ELSE 1
    BY <1>7, FlowNames DEF NetworkInv, FlowInv
  <2>3. /\ Waiting(inj, vc) = Len(nivc[n][vc]) /\ Waiting(inj, vc)' = Len(nivc'[n][vc])
        /\ Buffered(inj, vc)' = Buffered(inj, vc)
    BY <1>1, <1>7 DEF Waiting, Buffered
  <2>4. OnLink(inj, vc)' = OnLink(inj, vc) + IF vc \in send THEN 1 ELSE 0
    <3>1. CASE send = {}
      <4>1. OnLink(inj, vc)' = OnLink(inj, vc) /\ vc \notin send
        BY <1>11, <3>1 DEF OnLink, CountVc
      <4> QED
        BY <2>1, <4>1
    <3>2. CASE send # {}
      <4>1. flit \in Transit /\ flit.vc = chosen /\ send = {chosen} /\ pipe[inj] \in Seq(Transit)
        BY <1>2, <1>7, <1>8, <3>2, QueueTypes
      <4>2. CountVc(Append(pipe[inj], flit), vc)
              = CountVc(pipe[inj], vc) + IF flit.vc = vc THEN 1 ELSE 0
        BY <4>1, CountAppend
      <4>3. pipe'[inj] = Append(pipe[inj], flit)
        BY <1>11, <3>2
      <4> QED
        BY <4>1, <4>2, <4>3 DEF OnLink, CountVc
    <3> QED
      BY <3>1, <3>2
  <2>5. Back(inj, vc) = Back(inj, vc)' + IF back(vc) THEN 1 ELSE 0
    <3>1. CASE ~credited
      <4>1. Back(inj, vc)' = Back(inj, vc)
        BY <1>11, <3>1 DEF Back, CountVc
      <4> QED
        BY <2>1, <3>1, <4>1
    <3>2. CASE credited
      <4>1. crd[inj] \in Seq(Credit) /\ crd[inj] # <<>>
        BY <1>2, <1>7, <3>2, QueueTypes DEF Ready
      <4>2. CountVc(crd[inj], vc) = CountVc(Tail(crd[inj]), vc) + IF Head(crd[inj]).vc = vc THEN 1 ELSE 0
        BY <4>1, CountTail
      <4>3. crd'[inj] = Tail(crd[inj])
        BY <1>11, <3>2
      <4> QED
        BY <3>2, <4>2, <4>3 DEF Back, CountVc
    <3> QED
      BY <3>1, <3>2
  <2>6. Back(inj, vc)' \in Nat
    BY <1>7, <1>14, FlowTypesNext
  <2>7. /\ vc \in Picked(pick) => outvc[inj][vc].state = "IDLE"
        /\ vc \in send => outvc[inj][vc].credits > 0
    BY <1>6
  <2> DEFINE isBack == back(vc)
             isPicked == vc \in Picked(pick)
             isSent == vc \in send
  <2>8. /\ outvc'[inj][vc].credits = outvc[inj][vc].credits - (IF isSent THEN 1 ELSE 0)
                                                              + (IF isBack THEN 1 ELSE 0)
        /\ outvc'[inj][vc].state = IF isBack THEN "IDLE" ELSE IF isPicked THEN "ACTIVE"
                                   ELSE outvc[inj][vc].state
        /\ Waiting(inj, vc)' = Waiting(inj, vc) + (IF isPicked THEN 1 ELSE 0) - (IF isSent THEN 1 ELSE 0)
        /\ isSent => Waiting(inj, vc) + (IF isPicked THEN 1 ELSE 0) > 0
        /\ OnLink(inj, vc)' = OnLink(inj, vc) + IF isSent THEN 1 ELSE 0
        /\ Back(inj, vc) = Back(inj, vc)' + IF isBack THEN 1 ELSE 0
        /\ isPicked => outvc[inj][vc].state = "IDLE"
        /\ isSent => outvc[inj][vc].credits > 0
    <3> HIDE DEF back
    <3> QED
      BY <1>12, <1>13, <2>3, <2>4, <2>5, <2>7
  <2> HIDE DEF isBack, isPicked, isSent
  <2>9. CASE isBack
    <3>1. Back(inj, vc) >= 1 /\ outvc[inj][vc].state # "IDLE" /\ Waiting(inj, vc) = 0
      BY <2>1, <2>2, <2>6, <2>8, <2>9
    <3>2. ~isPicked /\ ~isSent
      BY <2>8, <3>1
    <3> QED
      BY <2>1, <2>3, <2>6, <2>8, <2>9, <3>1, <3>2 DEF FlowMove, Moves
  <2>10. CASE ~isBack
    <3>1. Back(inj, vc)' = Back(inj, vc)
      BY <2>6, <2>8, <2>10
    <3>2. CASE isPicked /\ isSent
      BY <2>1, <2>3, <2>8, <2>10, <3>1, <3>2 DEF FlowMove, Moves
    <3>3. CASE isPicked /\ ~isSent
      BY <2>1, <2>3, <2>8, <2>10, <3>1, <3>3 DEF FlowMove, Moves
    <3>4. CASE ~isPicked /\ isSent
      BY <2>1, <2>3, <2>8, <2>10, <3>1, <3>4 DEF FlowMove, Moves
    <3>5. CASE ~isPicked /\ ~isSent
      BY <2>1, <2>3, <2>8, <2>10, <3>1, <3>5 DEF FlowMove, Moves
    <3> QED
      BY <3>2, <3>3, <3>4, <3>5
  <2> QED
    BY <2>9, <2>10
<1>20. ASSUME NEW vc \in VCs PROVE FlowMove(ej, vc)
  <2>1. /\ OnLink(ej, vc) \in Nat /\ Back(ej, vc) \in Nat /\ OnLink(ej, vc)' \in Nat
    BY <1>2, <1>7, <1>14, FlowTypes, FlowTypesNext
  <2>2. /\ Waiting(ej, vc)' = Waiting(ej, vc) /\ Buffered(ej, vc)' = Buffered(ej, vc)
        /\ outvc'[ej][vc] = outvc[ej][vc]
    BY <1>7, <1>11 DEF Waiting, Buffered
  <2>3. CASE ~ejected
    <3>1. OnLink(ej, vc)' = OnLink(ej, vc) /\ Back(ej, vc)' = Back(ej, vc)
      BY <1>11, <2>3 DEF OnLink, Back, CountVc
    <3> QED
      BY <2>2, <3>1 DEF FlowMove, Moves
  <2>4. CASE ejected
    <3>1. /\ pipe[ej] \in Seq(Transit) /\ pipe[ej] # <<>> /\ crd[ej] \in Seq(Credit)
          /\ credit \in Credit /\ credit.vc = Head(pipe[ej]).vc
      BY <1>2, <1>7, <1>8, <2>4, QueueTypes DEF Ready
    <3>2. CountVc(pipe[ej], vc) = CountVc(Tail(pipe[ej]), vc) + IF Head(pipe[ej]).vc = vc THEN 1 ELSE 0
      BY <3>1, CountTail
    <3>3. CountVc(Append(crd[ej], credit), vc) = CountVc(crd[ej], vc) + IF credit.vc = vc THEN 1 ELSE 0
      BY <3>1, CountAppend
    <3>4. pipe'[ej] = Tail(pipe[ej]) /\ crd'[ej] = Append(crd[ej], credit)
      BY <1>11, <2>4
    <3> DEFINE one == IF Head(pipe[ej]).vc = vc THEN 1 ELSE 0
    <3>5. OnLink(ej, vc) = OnLink(ej, vc)' + one
      BY <3>2, <3>4 DEF OnLink, CountVc
    <3>6. Back(ej, vc)' = Back(ej, vc) + one
      BY <3>1, <3>3, <3>4 DEF Back, CountVc
    <3>7. one = 0 \/ one = 1
      OBVIOUS
    <3> HIDE DEF one
    <3> QED
      BY <2>1, <2>2, <3>5, <3>6, <3>7 DEF FlowMove, Moves
  <2> QED
    BY <2>3, <2>4
<1>21. ASSUME NEW c \in Chans, NEW vc \in VCs, c # inj, c # ej PROVE FlowMove(c, vc)
  <2> HIDE DEF inj, ej
  <2>0. pipe'[c] = pipe[c] /\ crd'[c] = crd[c] /\ outvc'[c][vc] = outvc[c][vc]
    BY <1>11, <1>21
  <2>1. OnLink(c, vc)' = OnLink(c, vc) /\ Back(c, vc)' = Back(c, vc)
    BY <2>0 DEF OnLink, Back, CountVc
  <2>2. c \in LocalPorts => c[1] # n /\ c[1] \in Routers
    BY <1>21, ChannelTypes DEF inj
  <2>3. Waiting(c, vc)' = Waiting(c, vc) /\ Buffered(c, vc)' = Buffered(c, vc)
    BY <1>1, <1>11, <2>2 DEF Waiting, Buffered
  <2> QED
    BY <2>0, <2>1, <2>3 DEF FlowMove, Moves
<1>22. \A c \in Chans, vc \in VCs : FlowMove(c, vc)
  <2> HIDE DEF inj, ej
  <2> QED
    BY <1>19, <1>20, <1>21
<1> QED
  BY <1>14, <1>15, <1>16, <1>17, <1>18, <1>22 DEF StepOK

-----------------------------------------------------------------------------
(***************************************************************************)
(* The theorems.                                                           *)
(***************************************************************************)
LEMMA NetworkStep ==
  ASSUME DrainFits, NetworkInv, [Next]_<<vars, spinMult>>
  PROVE  StepOK
<1>1. CASE UNCHANGED <<vars, spinMult>>
  <2> USE <1>1 DEF vars
  <2>1. Typed' /\ Routed' /\ RunsOnce' /\ HaltInv'
    BY DEF NetworkInv, Typed, Routed, RunsOnce, HaltInv, HaltedWhileLocked, DrainWakeups,
       QuietInTime, AllSentBefore, SentBefore, AtThreshold
  <2>2. Lanes'
    BY LanesKept DEF NetworkInv, Pending
  <2>3. \A c \in Chans, vc \in VCs : FlowMove(c, vc)
    BY FlowKept
  <2> QED
    BY <2>1, <2>2, <2>3 DEF StepOK
<1>2. CASE Next
  <2>1. UNCHANGED spinMult /\ (System \/ \E p \in Packets : SendMessage(p))
    BY <1>2 DEF Next
  <2>2. CASE \E p \in Packets : SendMessage(p)
    BY <2>1, <2>2, SendStep
  <2>3. CASE Tick
    BY <2>1, <2>3, TickStep
  <2>4. CASE \E r \in Routers : InterfaceWakeup(r)
    BY <2>1, <2>4, InterfaceStep
  <2>5. ASSUME NEW r \in Routers, RouterStep(r) PROVE StepOK
    <3>1. CASE RouterReceive(r)
      BY <2>1, <3>1, ReceiveStep
    <3>2. CASE RouterHalt(r)
      BY <2>1, <3>2, HaltStep
    <3>3. CASE RouterDrain(r)
      BY <2>1, <3>3, DrainStep
    <3>4. CASE RouterNoSpin(r)
      BY <2>1, <3>4, NoSpinStep
    <3>5. CASE RouterAllocate(r)
      BY <2>1, <3>5, AllocateStep
    <3> QED
      BY <2>5, <3>1, <3>2, <3>3, <3>4, <3>5 DEF RouterStep
  <2> QED
    BY <2>1, <2>2, <2>3, <2>4, <2>5 DEF System
<1> QED
  BY <1>1, <1>2

LEMMA NetworkInvNext ==
  ASSUME DrainFits, NetworkInv, [Next]_<<vars, spinMult>>
  PROVE  NetworkInv'
<1>1. StepOK
  BY NetworkStep
<1>2. ASSUME NEW c \in Chans, NEW vc \in VCs PROVE FlowInv(c, vc)'
  BY <1>1, FlowPreserved DEF StepOK, NetworkInv
<1> QED
  BY <1>1, <1>2 DEF StepOK, NetworkInv

LEMMA NetworkInvariant == DrainFits => (Spec => []NetworkInv)
<1> SUFFICES ASSUME DrainFits PROVE Spec => []NetworkInv
  OBVIOUS
<1>1. NetworkInv /\ [Next]_<<vars, spinMult>> => NetworkInv'
  BY NetworkInvNext
<1> QED
  BY <1>1, NetworkInit, PTL DEF Spec

(***************************************************************************)
(* Credits are exact and every VC carries one packet at most, through      *)
(* allocation, traversal, credit return and drain.                         *)
(***************************************************************************)
THEOREM CreditsConserved == DrainFits => (Spec => []CreditConservation)
<1> SUFFICES ASSUME DrainFits PROVE Spec => []CreditConservation
  OBVIOUS
<1>1. NetworkInv => CreditConservation
  BY DEF NetworkInv, FlowInv, CreditConservation
<1> QED
  BY <1>1, NetworkInvariant, PTL

(***************************************************************************)
(* Every VC of every link follows VcFlow, in every step of the network.    *)
(***************************************************************************)
THEOREM NetworkImplementsFlow == DrainFits => (Spec => ImplementsFlow)
<1> SUFFICES ASSUME DrainFits PROVE Spec => ImplementsFlow
  OBVIOUS
<1>1. Init => \A c \in Chans, vc \in VCs : Flow(c, vc)!Init
  <2> SUFFICES ASSUME Init, NEW c \in Chans, NEW vc \in VCs PROVE Flow(c, vc)!Init
    OBVIOUS
  <2>1. /\ CountVc(pipe[c], vc) = 0 /\ CountVc(crd[c], vc) = 0
        /\ outvc[c][vc].state = "IDLE" /\ outvc[c][vc].credits = BufDepth
    BY CountNone DEF Init
  <2>2. /\ c \in LocalPorts => Len(nivc[c[1]][vc]) = 0
        /\ c \in InPorts => Len(inbuf[c][vc]) = 0
    <3>1. c[1] \in Routers
      BY ChannelTypes
    <3> QED
      BY <3>1 DEF Init
  <2> QED
    BY <2>1, <2>2 DEF Flow!Init
<1>2. NetworkInv /\ [Next]_<<vars, spinMult>> =>
        [\A c \in Chans, vc \in VCs : [Flow(c, vc)!Next]_(Flow(c, vc)!vars)]_vars
  <2> SUFFICES ASSUME NetworkInv, [Next]_<<vars, spinMult>>, NEW c \in Chans, NEW vc \in VCs
               PROVE  [Flow(c, vc)!Next]_(Flow(c, vc)!vars)
    OBVIOUS
  <2>1. FlowStep(c, vc)
    BY NetworkStep, FlowMoves DEF StepOK
  <2> QED
    BY <2>1 DEF FlowStep
<1> QED
  BY <1>1, <1>2, NetworkInvariant, PTL DEF Spec, ImplementsFlow

-----------------------------------------------------------------------------
(***************************************************************************)
(* No consumer sleeps on work.  Arrivals are covered by the lanes; what is *)
(* buffered needs an invariant of its own.                                 *)
(***************************************************************************)
\* A flit that may leave in d cycles, in a router with wakeups w: a wakeup for
\* that cycle or the one before it, or the router runs and will look at it.
FlitAwake(d, w, runs) ==
  d \in w \/ (d > 0 /\ d - 1 \in w) \/ (d = 0 /\ 1 \in w) \/ (d <= 1 /\ runs)

BuffersAwake ==
  \A c \in InPorts, vc \in VCs : \A i \in 1 .. Len(inbuf[c][vc]) :
    FlitAwake(inbuf[c][vc][i].delay, wake[RouterOf(c[1])], running[1] = c[1])

\* Controllers send after the consumers of a cycle have run: as long as one of
\* them has still to run, every message is ready.
MessagesReady ==
  \A n \in Routers, v \in Vnets : \A i \in 1 .. Len(msgq[n][v]) :
    msgq[n][v][i].delay = 0 \/ (msgq[n][v][i].delay = 1 /\ CycleDone)

InterfacesAwake ==
  \A n \in Routers :
    (\E v \in Vnets : msgq[n][v] # <<>>) \/ (\E vc \in VCs : nivc[n][vc] # <<>>)
      => wake[NiOf(n)] \cap {0, 1} # {}

WakeInv == BuffersAwake /\ MessagesReady /\ InterfacesAwake

\* Wakeups are added.
LEMMA AwakeMore ==
  ASSUME NEW d, NEW w, NEW w2, NEW p \in BOOLEAN, NEW p2 \in BOOLEAN,
         FlitAwake(d, w, p), w \subseteq w2, p => p2
  PROVE  FlitAwake(d, w2, p2)
  BY DEF FlitAwake

\* The router starts to run.
LEMMA AwakeRuns ==
  ASSUME NEW d \in Nat, NEW w, NEW w2, FlitAwake(d, w, FALSE), w \ {0} \subseteq w2
  PROVE  FlitAwake(d, w2, TRUE)
  BY DEF FlitAwake

\* The router has run, and check_for_wakeup has seen the flit.
LEMMA AwakeSleeps ==
  ASSUME NEW d \in Nat, NEW w, NEW w2, NEW p \in BOOLEAN, FlitAwake(d, w, p), w \subseteq w2,
         d <= 1 => 1 \in w2
  PROVE  FlitAwake(d, w2, FALSE)
  BY DEF FlitAwake

\* The next cycle.
LEMMA AwakeTicks ==
  ASSUME NEW d \in Nat, NEW w, NEW w2, FlitAwake(d, w, FALSE), 0 \notin w,
         \A e \in w : e - 1 \in w2
  PROVE  FlitAwake(IF d = 0 THEN 0 ELSE d - 1, w2, FALSE)
<1>1. CASE d \in w
  BY <1>1 DEF FlitAwake
<1>2. CASE d > 0 /\ d - 1 \in w
  <2>1. d - 1 # 0 /\ (d - 1) - 1 \in w2
    BY <1>2
  <2> QED
    BY <1>2, <2>1 DEF FlitAwake
<1>3. CASE d = 0 /\ 1 \in w
  <2>1. 1 - 1 \in w2
    BY <1>3
  <2> QED
    BY <1>3, <2>1 DEF FlitAwake
<1> QED
  BY <1>1, <1>2, <1>3 DEF FlitAwake

LEMMA WakeInit == Init => WakeInv
<1> SUFFICES ASSUME Init PROVE WakeInv
  OBVIOUS
<1>1. \A c \in InPorts, vc \in VCs : Len(inbuf[c][vc]) = 0
  BY DEF Init
<1>2. \A n \in Routers, v \in Vnets : msgq[n][v] = <<>> /\ Len(msgq[n][v]) = 0
  BY DEF Init
<1>3. \A n \in Routers, vc \in VCs : nivc[n][vc] = <<>>
  BY DEF Init
<1> QED
  BY <1>1, <1>2, <1>3 DEF WakeInv, BuffersAwake, MessagesReady, InterfacesAwake

\* A consumer ran, and left the messages alone.
LEMMA MessagesKept ==
  ASSUME MessagesReady, ~CycleDone, UNCHANGED msgq
  PROVE  MessagesReady'
<1>1. \A n \in Routers, v \in Vnets : \A i \in 1 .. Len(msgq[n][v]) : msgq[n][v][i].delay = 0
  BY DEF MessagesReady
<1> QED
  BY <1>1 DEF MessagesReady

LEMMA InterfacesKept ==
  ASSUME InterfacesAwake, UNCHANGED <<msgq, nivc>>,
         \A n \in Routers : wake[NiOf(n)] \subseteq wake'[NiOf(n)]
  PROVE  InterfacesAwake'
<1> SUFFICES ASSUME NEW n \in Routers,
                    (\E v \in Vnets : msgq[n][v] # <<>>) \/ (\E vc \in VCs : nivc[n][vc] # <<>>)
             PROVE  wake'[NiOf(n)] \cap {0, 1} # {}
  BY DEF InterfacesAwake
<1>1. wake[NiOf(n)] \cap {0, 1} # {}
  BY DEF InterfacesAwake
<1> QED
  BY <1>1

LEMMA BuffersKept ==
  ASSUME BuffersAwake, UNCHANGED inbuf, running'[1] = running[1],
         \A r \in Routers : wake[RouterOf(r)] \subseteq wake'[RouterOf(r)]
  PROVE  BuffersAwake'
<1> SUFFICES ASSUME NEW c \in InPorts, NEW vc \in VCs, NEW i \in 1 .. Len(inbuf[c][vc])
             PROVE  FlitAwake(inbuf[c][vc][i].delay, wake'[RouterOf(c[1])], running'[1] = c[1])
  BY DEF BuffersAwake
<1>1. FlitAwake(inbuf[c][vc][i].delay, wake[RouterOf(c[1])], running[1] = c[1])
  BY DEF BuffersAwake
<1>2. c[1] \in Routers
  BY ChannelTypes DEF Chans
<1> QED
  BY <1>1, <1>2, AwakeMore

\* A router in its wakeup: the cycle is not done.
LEMMA NotDone ==
  ASSUME NEW r \in Routers, NEW step, running = <<r, step>>
  PROVE  ~CycleDone /\ running[1] = r
  BY RunningRouter DEF CycleDone

LEMMA NoSpinWakes ==
  ASSUME WakeInv, NEW r \in Routers, RouterNoSpin(r)
  PROVE  WakeInv'
<1>1. /\ running = <<r, "spin">> /\ running' = <<r, "sa">>
      /\ UNCHANGED <<wake, inbuf, msgq, nivc>>
  BY DEF RouterNoSpin, niVars
<1> QED
  BY <1>1, NotDone, MessagesKept, InterfacesKept, BuffersKept DEF WakeInv

LEMMA HaltWakes ==
  ASSUME Typed, WakeInv, NEW r \in Routers, RouterHalt(r)
  PROVE  WakeInv'
<1>1. /\ running = <<r, "spin">> /\ running' = <<r, "sa">>
      /\ wake' = wake \/ wake' = Schedule(wake, RouterConsumers, DrainDelay)
      /\ UNCHANGED <<inbuf, msgq, nivc>>
  BY DEF RouterHalt, niVars
<1>2. \A x \in Consumers : wake[x] \subseteq wake'[x]
  BY <1>1 DEF Schedule
<1>3. \A n \in Routers : wake[NiOf(n)] \subseteq wake'[NiOf(n)]
                         /\ wake[RouterOf(n)] \subseteq wake'[RouterOf(n)]
  BY <1>2, RouterConsumer
<1> QED
  BY <1>1, <1>3, NotDone, MessagesKept, InterfacesKept, BuffersKept DEF WakeInv

LEMMA SendWakes ==
  ASSUME Typed, WakeInv, NEW p \in Packets, SendMessage(p)
  PROVE  WakeInv'
<1> DEFINE n == Source[p]
           v == Vnet[p]
           m == [pkt |-> p, delay |-> 1]
<1>1. /\ CycleDone /\ UNCHANGED <<running, inbuf, nivc>>
      /\ msgq' = [msgq EXCEPT ![n][v] = Append(@, m)]
      /\ wake' = Schedule(wake, {NiOf(n)}, 1)
  BY DEF SendMessage
<1>2. n \in Routers /\ v \in Vnets /\ m \in MessageRecord /\ m.delay = 1
  BY NetworkAssumption DEF MessageRecord
<1> HIDE DEF n, v, m
<1>3. /\ \A x \in Consumers : wake[x] \subseteq wake'[x] /\ (0 \in wake'[x] => 0 \in wake[x])
      /\ 1 \in wake'[NiOf(n)]
  BY <1>1, <1>2, RouterConsumer DEF Schedule
<1>4. CycleDone'
  BY <1>1, <1>3 DEF CycleDone
<1>5. ASSUME NEW k \in Routers, NEW u \in Vnets
      PROVE  msgq'[k][u] = IF k = n /\ u = v THEN Append(msgq[k][u], m) ELSE msgq[k][u]
  <2>1. msgq \in [Routers -> [Vnets -> Seq(MessageRecord)]]
    BY DEF Typed
  <2> QED
    BY <1>1, <1>2, <2>1
<1>6. MessagesReady'
  <2> SUFFICES ASSUME NEW k \in Routers, NEW u \in Vnets, NEW i \in 1 .. Len(msgq'[k][u])
               PROVE  msgq'[k][u][i].delay = 0 \/ msgq'[k][u][i].delay = 1
    BY <1>4 DEF MessagesReady
  <2>1. \A j \in 1 .. Len(msgq[k][u]) : msgq[k][u][j].delay = 0 \/ msgq[k][u][j].delay = 1
    BY DEF WakeInv, MessagesReady
  <2>2. CASE k = n /\ u = v
    <3>1. msgq[k][u] \in Seq(MessageRecord)
      BY QueueTypes
    <3>2. /\ Len(msgq[k][u]) \in Nat /\ Len(Append(msgq[k][u], m)) = Len(msgq[k][u]) + 1
          /\ \A j \in 1 .. Len(msgq[k][u]) : Append(msgq[k][u], m)[j] = msgq[k][u][j]
          /\ Append(msgq[k][u], m)[Len(msgq[k][u]) + 1] = m
      BY <1>2, <3>1, AppendProperties, LenProperties
    <3>3. msgq'[k][u] = Append(msgq[k][u], m)
      BY <1>5, <2>2
    <3>4. i \in 1 .. Len(msgq[k][u]) \/ i = Len(msgq[k][u]) + 1
      BY <3>2, <3>3
    <3> QED
      BY <1>2, <2>1, <3>2, <3>3, <3>4
  <2>3. CASE ~(k = n /\ u = v)
    BY <1>5, <2>1, <2>3
  <2> QED
    BY <2>2, <2>3
<1>7. InterfacesAwake'
  <2> SUFFICES ASSUME NEW k \in Routers,
                      (\E u \in Vnets : msgq'[k][u] # <<>>) \/ (\E vc \in VCs : nivc'[k][vc] # <<>>)
               PROVE  wake'[NiOf(k)] \cap {0, 1} # {}
    BY DEF InterfacesAwake
  <2>1. CASE k = n
    BY <1>3, <2>1
  <2>2. CASE k # n
    <3>1. \A u \in Vnets : msgq'[k][u] = msgq[k][u]
      BY <1>5, <2>2
    <3>2. wake[NiOf(k)] \cap {0, 1} # {}
      BY <1>1, <3>1 DEF WakeInv, InterfacesAwake
    <3>3. wake[NiOf(k)] \subseteq wake'[NiOf(k)]
      BY <1>3, RouterConsumer
    <3> QED
      BY <3>2, <3>3
  <2> QED
    BY <2>1, <2>2
<1>8. BuffersAwake'
  BY <1>1, <1>3, RouterConsumer, BuffersKept DEF WakeInv
<1> QED
  BY <1>6, <1>7, <1>8 DEF WakeInv

LEMMA TickWakes ==
  ASSUME Typed, WakeInv, Tick
  PROVE  WakeInv'
<1>1. /\ running = Idle /\ running' = Idle
      /\ \A x \in Consumers : 0 \notin wake[x]
      /\ \A x \in Consumers : wake'[x] = { d - 1 : d \in wake[x] }
      /\ \A c \in InPorts, vc \in VCs : inbuf'[c][vc] = Closer(inbuf[c][vc])
      /\ \A n \in Routers, v \in Vnets : msgq'[n][v] = Closer(msgq[n][v])
      /\ nivc' = nivc
  BY DEF Tick, CycleDone
<1>2. BuffersAwake'
  <2> SUFFICES ASSUME NEW c \in InPorts, NEW vc \in VCs, NEW i \in 1 .. Len(inbuf'[c][vc])
               PROVE  FlitAwake(inbuf'[c][vc][i].delay, wake'[RouterOf(c[1])], running'[1] = c[1])
    BY DEF BuffersAwake
  <2> DEFINE q == inbuf[c][vc]
  <2>1. q \in Seq(FlitRecord) /\ inbuf'[c][vc] = Closer(q)
    BY <1>1, QueueTypes
  <2>2. /\ Len(Closer(q)) = Len(q)
        /\ \A j \in 1 .. Len(q) :
             Closer(q)[j].delay = IF q[j].delay = 0 THEN 0 ELSE q[j].delay - 1
    BY <2>1, CloserItems
  <2>3. i \in 1 .. Len(q) /\ q[i] \in FlitRecord
    BY <2>1, <2>2, ElementOfSeq
  <2>4. q[i].delay \in Nat
    BY <2>3 DEF FlitRecord
  <2>5. /\ c[1] \in Routers /\ c[1] # NoRouter /\ RouterOf(c[1]) \in Consumers
        /\ (running[1] = c[1]) = FALSE /\ (running'[1] = c[1]) = FALSE
    BY <1>1, ChannelTypes, NetworkConstants, RouterConsumer DEF Chans, Idle
  <2>6. FlitAwake(q[i].delay, wake[RouterOf(c[1])], running[1] = c[1])
    BY <2>3 DEF WakeInv, BuffersAwake
  <2> DEFINE w  == wake[RouterOf(c[1])]
             w2 == wake'[RouterOf(c[1])]
             d  == q[i].delay
  <2>7. 0 \notin w /\ w2 = { e - 1 : e \in w } /\ FlitAwake(d, w, FALSE) /\ d \in Nat
    BY <1>1, <2>4, <2>5, <2>6
  <2> HIDE DEF w, w2, d
  <2>8. FlitAwake(IF d = 0 THEN 0 ELSE d - 1, w2, FALSE)
    <3>1. \A e \in w : e - 1 \in w2
      BY <2>7
    <3> QED
      BY <2>7, <3>1, AwakeTicks
  <2>9. inbuf'[c][vc][i].delay = IF d = 0 THEN 0 ELSE d - 1
    BY <2>1, <2>2, <2>3 DEF d
  <2> QED
    BY <2>5, <2>8, <2>9 DEF w2
<1>3. MessagesReady'
  <2> SUFFICES ASSUME NEW n \in Routers, NEW v \in Vnets, NEW i \in 1 .. Len(msgq'[n][v])
               PROVE  msgq'[n][v][i].delay = 0
    BY DEF MessagesReady
  <2>1. msgq[n][v] \in Seq(MessageRecord) /\ msgq'[n][v] = Closer(msgq[n][v])
    BY <1>1, QueueTypes
  <2>2. /\ Len(Closer(msgq[n][v])) = Len(msgq[n][v])
        /\ \A j \in 1 .. Len(msgq[n][v]) : Closer(msgq[n][v])[j].delay
             = IF msgq[n][v][j].delay = 0 THEN 0 ELSE msgq[n][v][j].delay - 1
    BY <2>1, CloserItems
  <2>3. msgq[n][v][i].delay = 0 \/ msgq[n][v][i].delay = 1
    BY <2>1, <2>2 DEF WakeInv, MessagesReady
  <2> QED
    BY <2>1, <2>2, <2>3
<1>4. InterfacesAwake'
  <2> SUFFICES ASSUME NEW n \in Routers,
                      (\E v \in Vnets : msgq'[n][v] # <<>>) \/ (\E vc \in VCs : nivc'[n][vc] # <<>>)
               PROVE  0 \in wake'[NiOf(n)]
    BY DEF InterfacesAwake
  <2>1. ASSUME NEW v \in Vnets, msgq[n][v] = <<>> PROVE msgq'[n][v] = <<>>
    <3>1. msgq'[n][v] = Closer(<<>>)
      BY <1>1, <2>1
    <3>2. <<>> \in Seq(MessageRecord)
      OBVIOUS
    <3>3. Closer(<<>>) \in Seq(MessageRecord) /\ Len(Closer(<<>>)) = Len(<<>>)
      BY <3>2, CloserItems
    <3>4. Closer(<<>>) = <<>>
      BY <3>3, EmptySeq
    <3> QED
      BY <3>1, <3>4
  <2>2. wake[NiOf(n)] \cap {0, 1} # {}
    BY <1>1, <2>1 DEF WakeInv, InterfacesAwake
  <2>3. 1 \in wake[NiOf(n)] /\ NiOf(n) \in Consumers
    BY <1>1, <2>2, RouterConsumer
  <2>4. 1 - 1 \in wake'[NiOf(n)]
    BY <1>1, <2>3
  <2> QED
    BY <2>4
<1> QED
  BY <1>2, <1>3, <1>4 DEF WakeInv

LEMMA ReceiveWakes ==
  ASSUME Typed, WakeInv, NEW r \in Routers, RouterReceive(r)
  PROVE  WakeInv'
<1> DEFINE arrived == { c \in InPortsOf(r) : Ready(pipe[c]) }
           later   == IF arrived # {} /\ PipeStages > 1 THEN {PipeStages - 1} ELSE {}
<1>1. /\ running = Idle /\ 0 \in wake[RouterOf(r)] /\ running' = <<r, "spin">>
      /\ wake' = [wake EXCEPT ![RouterOf(r)] = (@ \ {0}) \cup later]
      /\ UNCHANGED <<msgq, nivc>>
  BY DEF RouterReceive, Due, niVars
<1>2. PICK route \in [arrived -> Sides \cup {"Local"}] : InputUnitWakeup(r, arrived, route)
  BY DEF RouterReceive
<1> DEFINE New(c) == [pkt |-> Head(pipe[c]).pkt, out |-> route[c], delay |-> PipeStages - 1]
<1>3. inbuf' = [c \in InPorts |->
        IF c \in arrived THEN [inbuf[c] EXCEPT ![Head(pipe[c]).vc] = Append(@, New(c))] ELSE inbuf[c]]
  BY <1>2 DEF InputUnitWakeup
<1>4. /\ ~CycleDone
      /\ \A x \in Consumers : x # RouterOf(r) => wake'[x] = wake[x]
      /\ wake'[RouterOf(r)] = (wake[RouterOf(r)] \ {0}) \cup later
  BY <1>1, RouterConsumer DEF CycleDone, Typed
<1>5. MessagesReady'
  BY <1>1, <1>4, MessagesKept DEF WakeInv
<1>6. InterfacesAwake'
  BY <1>1, <1>4, RouterConsumer, InterfacesKept DEF WakeInv
<1>7. BuffersAwake'
  <2> SUFFICES ASSUME NEW c \in InPorts, NEW vc \in VCs, NEW i \in 1 .. Len(inbuf'[c][vc])
               PROVE  FlitAwake(inbuf'[c][vc][i].delay, wake'[RouterOf(c[1])], running'[1] = c[1])
    BY DEF BuffersAwake
  <2>1. /\ c[1] \in Routers /\ RouterOf(c[1]) \in Consumers
        /\ (running[1] = c[1]) = FALSE /\ (running'[1] = c[1]) = (c[1] = r)
    BY <1>1, ChannelTypes, NetworkConstants, RouterConsumer DEF Chans, Idle
  <2>2. inbuf[c] \in [VCs -> Seq(FlitRecord)] /\ inbuf[c][vc] \in Seq(FlitRecord)
    BY DEF Typed
  <2>3. ASSUME NEW j \in 1 .. Len(inbuf[c][vc])
        PROVE  FlitAwake(inbuf[c][vc][j].delay, wake'[RouterOf(c[1])], running'[1] = c[1])
    <3>1. FlitAwake(inbuf[c][vc][j].delay, wake[RouterOf(c[1])], FALSE)
      BY <2>1 DEF WakeInv, BuffersAwake
    <3>2. inbuf[c][vc][j].delay \in Nat
      <4>1. inbuf[c][vc][j] \in FlitRecord
        BY <2>2, ElementOfSeq
      <4> QED
        BY <4>1 DEF FlitRecord
    <3>3. CASE c[1] = r
      <4>1. wake[RouterOf(c[1])] \ {0} \subseteq wake'[RouterOf(c[1])]
        BY <1>4, <3>3
      <4>2. FlitAwake(inbuf[c][vc][j].delay, wake'[RouterOf(c[1])], TRUE)
        BY <3>1, <3>2, <4>1, AwakeRuns
      <4> QED
        BY <2>1, <3>3, <4>2
    <3>4. CASE c[1] # r
      <4>1. wake'[RouterOf(c[1])] = wake[RouterOf(c[1])]
        BY <1>4, <2>1, <3>4, RouterConsumer
      <4> QED
        BY <2>1, <3>1, <3>4, <4>1
    <3> QED
      BY <3>3, <3>4
  <2>4. CASE c \in arrived /\ vc = Head(pipe[c]).vc
    <3>1. inbuf'[c][vc] = Append(inbuf[c][vc], New(c))
      BY <1>3, <2>2, <2>4
    <3>2. /\ Len(inbuf[c][vc]) \in Nat /\ Len(Append(inbuf[c][vc], New(c))) = Len(inbuf[c][vc]) + 1
          /\ \A j \in 1 .. Len(inbuf[c][vc]) : Append(inbuf[c][vc], New(c))[j] = inbuf[c][vc][j]
          /\ Append(inbuf[c][vc], New(c))[Len(inbuf[c][vc]) + 1] = New(c)
      BY <2>2, LenProperties
    <3>3. c[1] = r /\ arrived # {}
      BY <2>4 DEF InPortsOf
    <3>4. PipeStages > 1 => PipeStages - 1 \in wake'[RouterOf(c[1])]
      BY <1>4, <3>3
    <3>5. PipeStages = 1 \/ PipeStages > 1
      BY NetworkConstants
    <3>6. FlitAwake(PipeStages - 1, wake'[RouterOf(c[1])], running'[1] = c[1])
      BY <2>1, <3>3, <3>4, <3>5 DEF FlitAwake
    <3>7. CASE i \in 1 .. Len(inbuf[c][vc])
      BY <2>3, <3>1, <3>2, <3>7
    <3>8. CASE i = Len(inbuf[c][vc]) + 1
      <4>1. inbuf'[c][vc][i] = New(c)
        BY <3>1, <3>2, <3>8
      <4>2. inbuf'[c][vc][i].delay = PipeStages - 1
        BY <4>1
      <4> QED
        BY <3>6, <4>2
    <3> QED
      BY <3>1, <3>2, <3>7, <3>8
  <2>5. CASE ~(c \in arrived /\ vc = Head(pipe[c]).vc)
    <3>1. inbuf'[c][vc] = inbuf[c][vc]
      BY <1>3, <2>2, <2>5
    <3> QED
      BY <2>3, <3>1
  <2> QED
    BY <2>4, <2>5
<1> QED
  BY <1>5, <1>6, <1>7 DEF WakeInv

LEMMA DrainWakes ==
  ASSUME NetworkInv, WakeInv, NEW r \in Routers, RouterDrain(r)
  PROVE  WakeInv'
<1>1. /\ running = <<r, "spin">> /\ running' = <<r, "sa">>
      /\ phase > PreDrainDelay /\ lock # NoRouter
      /\ wake' = IF ResumeDelay = 0 THEN wake ELSE Schedule(wake, RouterConsumers, ResumeDelay)
      /\ UNCHANGED <<msgq, nivc>>
  BY DEF RouterDrain, DrainTime, niVars
<1>2. PICK spins \in SpinCounts : \E route \in SpinRoutes(spins) : doSpin(spins, route)
  BY DEF RouterDrain
<1>3. PICK route \in SpinRoutes(spins) : doSpin(spins, route)
  BY <1>2
<1>4. Typed /\ spinMult \in Nat /\ spins \in Nat /\ ResumeDelay \in Nat
  BY DEF NetworkInv, Typed, SpinCounts, ResumeDelay
<1>5. \A x \in Consumers : wake[x] \subseteq wake'[x]
  BY <1>1 DEF Schedule
<1>6. ASSUME NEW s \in Routers
      PROVE  /\ wake[NiOf(s)] \subseteq wake'[NiOf(s)] /\ wake[RouterOf(s)] \subseteq wake'[RouterOf(s)]
             /\ ResumeDelay \in wake'[RouterOf(s)] \/ (ResumeDelay = 0 /\ s = r)
  <2>1. NiOf(s) \in Consumers /\ RouterOf(s) \in Consumers /\ RouterOf(s) \in RouterConsumers
    BY RouterConsumer
  <2>2. CASE ResumeDelay # 0
    BY <1>1, <1>5, <2>1, <2>2 DEF Schedule
  <2>3. CASE ResumeDelay = 0
    <3>1. phase = DrainDelay
      <4>1. phase <= DrainDelay /\ phase \in Int
        BY <1>1, <1>4 DEF NetworkInv, HaltInv, HaltedWhileLocked, Typed
      <4> QED
        BY <1>1, <4>1 DEF DrainDelay, PreDrainDelay
    <3>2. DrainDelay - phase \in wake[RouterOf(s)] \/ running = <<s, "spin">>
      BY <1>1 DEF NetworkInv, HaltInv, DrainWakeups
    <3>3. DrainDelay - phase = 0
      BY <3>1 DEF DrainDelay, PreDrainDelay
    <3>4. 0 \in wake[RouterOf(s)] \/ s = r
      BY <1>1, <3>2, <3>3
    <3> QED
      BY <1>5, <2>1, <2>3, <3>4
  <2> QED
    BY <2>2, <2>3
<1>7. running[1] = r /\ running'[1] = r /\ ~CycleDone
  BY <1>1, NotDone
<1>8. MessagesReady'
  BY <1>1, <1>7, MessagesKept DEF WakeInv
<1>9. InterfacesAwake'
  BY <1>1, <1>6, InterfacesKept DEF WakeInv
<1>10. BuffersAwake'
  <2> SUFFICES ASSUME NEW c \in InPorts, NEW vc \in VCs, NEW i \in 1 .. Len(inbuf'[c][vc])
               PROVE  FlitAwake(inbuf'[c][vc][i].delay, wake'[RouterOf(c[1])], running'[1] = c[1])
    BY DEF BuffersAwake
  <2>1. c[1] \in Routers
    BY ChannelTypes DEF Chans
  <2>2. inbuf'[c][vc] = IF c \in RingPorts /\ vc \in TimedVcs
                        THEN SpinInputVc(RingIndex(c), SpinsOf(vc, spins), vc, route)
                        ELSE inbuf[c][vc]
    BY <1>3 DEF doSpin
  <2>3. CASE c \in RingPorts /\ vc \in TimedVcs
    <3> DEFINE q == FlitsAt(RingIndex(c), SpinsOf(vc, spins), vc)
               f == SpunFlit(Head(q), route[<<RingIndex(c), vc>>])
    <3>1. q \in Seq(FlitRecord)
      <4>1. SpinsOf(vc, spins) \in Nat
        BY <1>4 DEF SpinsOf
      <4> QED
        BY <1>4, <2>3, <4>1, SpunQueue
    <3>2. inbuf'[c][vc] = IF q = <<>> THEN <<>> ELSE <<f>>
      BY <2>2, <2>3 DEF SpinInputVc
    <3>3. q # <<>> /\ i = 1 /\ inbuf'[c][vc][i] = f
      BY <3>2
    <3>4. Head(q) \in FlitRecord
      BY <3>1, <3>3, Taken
    <3> HIDE DEF q
    <3>5. f.delay = ResumeDelay
      BY <3>4 DEF SpunFlit, FlitRecord
    <3> HIDE DEF f
    <3>6. FlitAwake(ResumeDelay, wake'[RouterOf(c[1])], running'[1] = c[1])
      BY <1>4, <1>6, <1>7, <2>1 DEF FlitAwake
    <3> QED
      BY <3>3, <3>5, <3>6
  <2>4. CASE ~(c \in RingPorts /\ vc \in TimedVcs)
    <3>1. inbuf'[c][vc] = inbuf[c][vc]
      BY <2>2, <2>4
    <3>2. FlitAwake(inbuf[c][vc][i].delay, wake[RouterOf(c[1])], running[1] = c[1])
      BY <3>1 DEF WakeInv, BuffersAwake
    <3>3. FlitAwake(inbuf[c][vc][i].delay, wake'[RouterOf(c[1])], running'[1] = c[1])
      BY <1>6, <1>7, <2>1, <3>2, AwakeMore
    <3> QED
      BY <3>1, <3>3
  <2> QED
    BY <2>3, <2>4
<1> QED
  BY <1>8, <1>9, <1>10 DEF WakeInv

\* A VC buffers one flit at most.
LEMMA OneBuffered ==
  ASSUME NetworkInv, NEW c \in InPorts, NEW vc \in VCs
  PROVE  Len(inbuf[c][vc]) = 0 \/ Len(inbuf[c][vc]) = 1
<1>1. c \in Chans /\ Typed /\ FlowInv(c, vc)
  BY DEF NetworkInv, Chans
<1>2. /\ Waiting(c, vc) \in Nat /\ Buffered(c, vc) \in Nat
      /\ OnLink(c, vc) \in Nat /\ Back(c, vc) \in Nat
  BY <1>1, FlowTypes
<1>3. Waiting(c, vc) + OnLink(c, vc) + Buffered(c, vc) + Back(c, vc)
        = IF outvc[c][vc].state = "IDLE" THEN 0 ELSE 1
  BY <1>1, FlowNames DEF FlowInv
<1>4. Buffered(c, vc) = 0 \/ Buffered(c, vc) = 1
  BY <1>2, <1>3
<1> QED
  BY <1>4 DEF Buffered

LEMMA AllocateWakes ==
  ASSUME NetworkInv, WakeInv, NEW r \in Routers, RouterAllocate(r)
  PROVE  WakeInv'
<1>1. running = <<r, "sa">> /\ running' = Idle /\ UNCHANGED <<msgq, nivc>>
  BY DEF RouterAllocate, niVars
<1>2. PICK alloc \in Allocations(r) : SwitchTraversal(r, alloc[1], alloc[2])
  BY DEF RouterAllocate
<1>3. Typed /\ Routed
  BY DEF NetworkInv
<1> DEFINE req == alloc[1]
           win == alloc[2]
<1>4. win \subseteq InPortsOf(r) /\ \A c \in win : req[c] \in VCs /\ inbuf[c][req[c]] # <<>>
  BY <1>3, AllocationFacts
<1>5. PICK who : wake' = IF check_for_wakeup(r)
                         THEN Schedule(Schedule(wake, who, LinkDelay), {RouterOf(r)}, 1)
                         ELSE Schedule(wake, who, LinkDelay)
  BY <1>2 DEF SwitchTraversal
<1>6. inbuf' = [c \in InPorts |->
        IF c \in win THEN [inbuf[c] EXCEPT ![req[c]] = Tail(@)] ELSE inbuf[c]]
  BY <1>2 DEF SwitchTraversal
<1>7. /\ \A x \in Consumers : wake[x] \subseteq wake'[x]
      /\ check_for_wakeup(r) => 1 \in wake'[RouterOf(r)]
  <2> DEFINE awake == check_for_wakeup(r)
  <2>1. RouterOf(r) \in Consumers
    BY RouterConsumer
  <2>2. wake' = IF awake THEN Schedule(Schedule(wake, who, LinkDelay), {RouterOf(r)}, 1)
                ELSE Schedule(wake, who, LinkDelay)
    BY <1>5
  <2> HIDE DEF awake
  <2>3. /\ \A x \in Consumers : wake[x] \subseteq wake'[x]
        /\ awake => 1 \in wake'[RouterOf(r)]
    BY <2>1, <2>2 DEF Schedule
  <2> QED
    BY <2>3 DEF awake
<1>8. ~CycleDone /\ running[1] = r
  BY <1>1, NotDone
<1>9. MessagesReady'
  BY <1>1, <1>8, MessagesKept DEF WakeInv
<1>10. InterfacesAwake'
  BY <1>1, <1>7, RouterConsumer, InterfacesKept DEF WakeInv
<1>11. BuffersAwake'
  <2> SUFFICES ASSUME NEW c \in InPorts, NEW vc \in VCs, NEW i \in 1 .. Len(inbuf'[c][vc])
               PROVE  FlitAwake(inbuf'[c][vc][i].delay, wake'[RouterOf(c[1])], running'[1] = c[1])
    BY DEF BuffersAwake
  <2> DEFINE q == inbuf[c][vc]
  <2>1. /\ c[1] \in Routers /\ RouterOf(c[1]) \in Consumers /\ (running'[1] = c[1]) = FALSE
    BY <1>1, ChannelTypes, NetworkConstants, RouterConsumer DEF Chans, Idle
  <2>2. inbuf[c] \in [VCs -> Seq(FlitRecord)] /\ q \in Seq(FlitRecord)
    BY <1>3 DEF Typed
  <2>3. Len(q) = 0 \/ Len(q) = 1
    BY OneBuffered
  <2>4. inbuf'[c][vc] = q
    <3>1. CASE c \in win /\ vc = req[c]
      <4>1. inbuf'[c][vc] = Tail(q) /\ q # <<>>
        BY <1>4, <1>6, <2>2, <3>1
      <4>2. Len(Tail(q)) = Len(q) - 1
        BY <2>2, <4>1, Taken
      <4>3. i \in 1 .. Len(q) - 1
        BY <4>1, <4>2
      <4> DEFINE k == Len(q)
      <4>4. k \in Nat /\ (k = 0 \/ k = 1) /\ i \in 1 .. k - 1
        BY <2>2, <2>3, <4>3
      <4> HIDE DEF k
      <4> QED
        BY <4>4
    <3>2. CASE ~(c \in win /\ vc = req[c])
      BY <1>6, <2>2, <3>2
    <3> QED
      BY <3>1, <3>2
  <2>5. i = 1 /\ q # <<>> /\ Head(q) = q[1] /\ q[1] \in FlitRecord
    <3>1. i \in 1 .. Len(q)
      BY <2>4
    <3>2. q # <<>> /\ i = 1
      <4> DEFINE k == Len(q)
      <4>1. k \in Nat /\ (k = 0 \/ k = 1) /\ i \in 1 .. k
        BY <2>2, <2>3, <3>1
      <4> HIDE DEF k
      <4>2. i = 1 /\ k # 0
        BY <4>1
      <4>3. q = <<>> => k = 0
        BY DEF k
      <4> QED
        BY <4>2, <4>3
    <3> QED
      BY <2>2, <3>2, Taken
  <2> DEFINE d == q[1].delay
  <2>6. d \in Nat
    BY <2>5 DEF FlitRecord
  <2>7. FlitAwake(d, wake[RouterOf(c[1])], running[1] = c[1])
    BY <2>4, <2>5 DEF WakeInv, BuffersAwake
  <2>8. CASE c[1] = r
    <3>1. d <= 1 => check_for_wakeup(r)
      <4>1. c \in InPortsOf(r) /\ inbuf'[c][vc] # <<>> /\ Head(inbuf'[c][vc]).delay = d
        BY <2>4, <2>5, <2>8 DEF InPortsOf
      <4> HIDE DEF d, q
      <4> QED
        BY <4>1 DEF check_for_wakeup
    <3>2. /\ d <= 1 => 1 \in wake'[RouterOf(c[1])]
          /\ wake[RouterOf(c[1])] \subseteq wake'[RouterOf(c[1])]
      BY <1>7, <2>1, <2>8, <3>1
    <3> HIDE DEF d, q
    <3>3. FlitAwake(d, wake'[RouterOf(c[1])], FALSE)
      BY <2>6, <2>7, <3>2, AwakeSleeps
    <3>4. inbuf'[c][vc][i].delay = d
      BY <2>4, <2>5 DEF d
    <3> QED
      BY <2>1, <3>3, <3>4
  <2>9. CASE c[1] # r
    <3>1. (running[1] = c[1]) = FALSE /\ wake[RouterOf(c[1])] \subseteq wake'[RouterOf(c[1])]
      BY <1>7, <1>8, <2>1, <2>9
    <3>2. FlitAwake(d, wake[RouterOf(c[1])], FALSE)
      BY <2>7, <3>1
    <3> HIDE DEF d, q
    <3>3. FlitAwake(d, wake'[RouterOf(c[1])], FALSE)
      BY <3>1, <3>2, AwakeMore
    <3>4. inbuf'[c][vc][i].delay = d
      BY <2>4, <2>5 DEF d
    <3> QED
      BY <2>1, <3>3, <3>4
  <2> QED
    BY <2>8, <2>9
<1> QED
  BY <1>9, <1>10, <1>11 DEF WakeInv

LEMMA InterfaceWakes ==
  ASSUME Typed, WakeInv, NEW n \in Routers, InterfaceWakeup(n)
  PROVE  WakeInv'
<1> DEFINE ejected == Ready(pipe[<<n, "Eject">>])
<1>1. running = Idle /\ 0 \in wake[NiOf(n)] /\ UNCHANGED <<running, inbuf>>
  BY DEF InterfaceWakeup, Due
<1>2. PICK pick \in PickVcs(n) : \E send \in SendVcs(n, FlitsAfterPick(n, pick)) :
        \E after \in CreditDelays(n) : InterfaceEffect(n, pick, send, after)
  BY InterfaceEffects
<1>3. PICK send \in SendVcs(n, FlitsAfterPick(n, pick)), after \in CreditDelays(n) :
        InterfaceEffect(n, pick, send, after)
  BY <1>2
<1>4. /\ \A x \in Consumers : x # NiOf(n) => wake[x] \subseteq wake'[x]
      /\ checkReschedule(n) => 1 \in wake'[NiOf(n)]
  <2> DEFINE again == checkReschedule(n)
             ran   == [wake EXCEPT ![NiOf(n)] = @ \ {0}]
             flit  == IF send = {} THEN ran ELSE Schedule(ran, {RouterOf(n)}, LinkDelay)
             sent  == IF ejected THEN Schedule(flit, {RouterOf(n)}, after) ELSE flit
  <2>1. NiOf(n) \in Consumers /\ DOMAIN wake = Consumers
    BY RouterConsumer DEF Typed
  <2>2. wake' = IF again THEN Schedule(sent, {NiOf(n)}, 1) ELSE sent
    BY <1>3 DEF InterfaceEffect
  <2> HIDE DEF again, ejected
  <2>3. \A x \in Consumers : x # NiOf(n) => wake[x] \subseteq sent[x]
    BY <2>1 DEF Schedule
  <2> HIDE DEF sent
  <2>4. /\ \A x \in Consumers : x # NiOf(n) => wake[x] \subseteq wake'[x]
        /\ again => 1 \in wake'[NiOf(n)]
    BY <2>1, <2>2, <2>3 DEF Schedule
  <2> QED
    BY <2>4 DEF again
<1>5. ~CycleDone
  BY <1>1, RouterConsumer DEF CycleDone
<1>6. ASSUME NEW k \in Routers, NEW v \in Vnets
      PROVE  /\ msgq[k][v] \in Seq(MessageRecord)
             /\ msgq'[k][v] = IF k = n /\ v \in DOMAIN pick THEN Tail(msgq[k][v]) ELSE msgq[k][v]
             /\ k = n /\ v \in DOMAIN pick => msgq[k][v] # <<>>
  <2>1. msgq \in [Routers -> [Vnets -> Seq(MessageRecord)]]
    BY DEF Typed
  <2>2. v \in DOMAIN pick => msgq[n][v] # <<>>
    BY DEF PickVcs, Pickable, Ready
  <2> QED
    BY <1>3, <2>1, <2>2 DEF InterfaceEffect
<1>7. ASSUME NEW k \in Routers, NEW v \in Vnets
      PROVE  /\ msgq'[k][v] \in Seq(MessageRecord)
             /\ \A i \in 1 .. Len(msgq'[k][v]) : msgq'[k][v][i].delay = 0
  <2>1. \A i \in 1 .. Len(msgq[k][v]) : msgq[k][v][i].delay = 0
    BY <1>5 DEF WakeInv, MessagesReady
  <2>2. CASE k = n /\ v \in DOMAIN pick
    <3>1. msgq[k][v] \in Seq(MessageRecord) /\ msgq[k][v] # <<>> /\ msgq'[k][v] = Tail(msgq[k][v])
      BY <1>6, <2>2
    <3>2. /\ Tail(msgq[k][v]) \in Seq(MessageRecord) /\ Len(msgq[k][v]) \in Nat
          /\ Len(Tail(msgq[k][v])) = Len(msgq[k][v]) - 1
          /\ \A i \in 1 .. Len(msgq[k][v]) - 1 :
               Tail(msgq[k][v])[i] = msgq[k][v][i + 1] /\ i + 1 \in 1 .. Len(msgq[k][v])
      BY <3>1, Taken
    <3> QED
      BY <2>1, <3>1, <3>2
  <2>3. CASE ~(k = n /\ v \in DOMAIN pick)
    <3>1. msgq'[k][v] = msgq[k][v] /\ msgq[k][v] \in Seq(MessageRecord)
      BY <1>6, <2>3
    <3> QED
      BY <2>1, <3>1
  <2> QED
    BY <2>2, <2>3
<1>8. MessagesReady'
  BY <1>7 DEF MessagesReady
<1>9. InterfacesAwake'
  <2> SUFFICES ASSUME NEW k \in Routers,
                      (\E v \in Vnets : msgq'[k][v] # <<>>) \/ (\E vc \in VCs : nivc'[k][vc] # <<>>)
               PROVE  wake'[NiOf(k)] \cap {0, 1} # {}
    BY DEF InterfacesAwake
  <2>1. CASE k = n
    <3>1. ASSUME NEW v \in Vnets, msgq'[k][v] # <<>> PROVE Ready(msgq'[n][v])
      <4>1. msgq'[k][v] \in Seq(MessageRecord)
        BY <1>7
      <4>2. Head(msgq'[k][v]) = msgq'[k][v][1] /\ Len(msgq'[k][v]) >= 1 /\ Len(msgq'[k][v]) \in Nat
        BY <3>1, <4>1, Taken
      <4>3. Head(msgq'[k][v]).delay = 0
        BY <1>7, <4>2
      <4> QED
        BY <2>1, <3>1, <4>3 DEF Ready
    <3>2. checkReschedule(n)
      BY <2>1, <3>1 DEF checkReschedule
    <3> QED
      BY <1>4, <2>1, <3>2
  <2>2. CASE k # n
    <3>1. \A v \in Vnets : msgq'[k][v] = msgq[k][v]
      BY <1>6, <2>2
    <3>2. nivc'[k] = nivc[k]
      BY <1>3, <2>2 DEF Typed, InterfaceEffect
    <3>3. wake[NiOf(k)] \cap {0, 1} # {}
      BY <3>1, <3>2 DEF WakeInv, InterfacesAwake
    <3>4. wake[NiOf(k)] \subseteq wake'[NiOf(k)]
      BY <1>4, <2>2, RouterConsumer
    <3> QED
      BY <3>3, <3>4
  <2> QED
    BY <2>1, <2>2
<1>10. BuffersAwake'
  <2>1. \A s \in Routers : wake[RouterOf(s)] \subseteq wake'[RouterOf(s)]
    BY <1>4, RouterConsumer
  <2> QED
    BY <1>1, <2>1, BuffersKept DEF WakeInv
<1> QED
  BY <1>8, <1>9, <1>10 DEF WakeInv

LEMMA WakeNext ==
  ASSUME NetworkInv, WakeInv, [Next]_<<vars, spinMult>>
  PROVE  WakeInv'
<1>0. Typed
  BY DEF NetworkInv
<1>1. CASE UNCHANGED <<vars, spinMult>>
  BY <1>1 DEF vars, WakeInv, BuffersAwake, MessagesReady, InterfacesAwake, CycleDone
<1>2. CASE Next
  <2>1. System \/ \E p \in Packets : SendMessage(p)
    BY <1>2 DEF Next
  <2>2. ASSUME NEW r \in Routers, RouterStep(r) PROVE WakeInv'
    BY <1>0, <2>2, ReceiveWakes, HaltWakes, DrainWakes, NoSpinWakes, AllocateWakes DEF RouterStep
  <2> QED
    BY <1>0, <2>1, <2>2, SendWakes, TickWakes, InterfaceWakes DEF System
<1> QED
  BY <1>1, <1>2

(***************************************************************************)
(* No router sleeps on a flit it could send, no arrival finds its consumer *)
(* asleep, and no interface forgets a message: Consumer's scheduling,      *)
(* check_for_wakeup and checkReschedule lose no wakeup.                    *)
(***************************************************************************)
THEOREM NoWakeupLost == DrainFits => (Spec => []NoLostWakeup)
<1> SUFFICES ASSUME DrainFits PROVE Spec => []NoLostWakeup
  OBVIOUS
<1>1. NetworkInv /\ WakeInv /\ [Next]_<<vars, spinMult>> => WakeInv'
  BY WakeNext
<1>2. NetworkInv /\ WakeInv => NoLostWakeup
  <2> SUFFICES ASSUME NetworkInv, WakeInv PROVE NoLostWakeup
    OBVIOUS
  <2>1. ASSUME NEW c \in InPorts, NEW vc \in VCs, NEW i \in 1 .. Len(inbuf[c][vc])
        PROVE  LET d == inbuf[c][vc][i].delay
                   w == wake[RouterOf(c[1])]
               IN  \/ running[1] = c[1]
                   \/ d \in w \/ (d > 0 /\ d - 1 \in w) \/ (d = 0 /\ 1 \in w)
    BY DEF WakeInv, BuffersAwake, FlitAwake
  <2>2. ASSUME NEW c \in Chans
        PROVE  /\ \A i \in 1 .. Len(pipe[c]) : pipe[c][i].delay \in wake[FlitConsumer(c)]
               /\ \A i \in 1 .. Len(crd[c]) : crd[c][i].delay \in wake[CreditConsumer(c)]
    BY DEF NetworkInv, Lanes, FlitLane, CreditLane, Lane
  <2> QED
    BY <2>1, <2>2 DEF NoLostWakeup, WakeInv, InterfacesAwake
<1> QED
  BY <1>1, <1>2, WakeInit, NetworkInvariant, PTL DEF Spec

(***************************************************************************)
(* The assert on spin_safe_ before the drain in Router::wakeup: no flit is *)
(* in the buffer of a link between routers or to an interface, as long as  *)
(* links are no slower than the delay chosen.                              *)
(***************************************************************************)
THEOREM SpinIsSafe == DrainFits => (Spec => []SpinSafe)
<1> SUFFICES ASSUME DrainFits PROVE Spec => []SpinSafe
  OBVIOUS
<1>1. NetworkInv => SpinSafe
  <2> SUFFICES ASSUME NetworkInv, DrainTime,
                      NEW c \in RingPorts \cup EjectPorts, NEW i \in 1 .. Len(pipe[c])
               PROVE  pipe[c][i].delay > LinkLatency
    BY DEF SpinSafe, chck_link_state
  <2>1. c \in Chans \ LocalPorts
    BY ChannelTypes DEF Chans, InPorts, LocalPorts, EjectPorts, Sides
  <2>2. pipe[c] \in Seq(Transit) /\ phase \in Int
    BY <2>1, QueueTypes DEF NetworkInv, Typed
  <2>3. pipe[c][i].delay \in Nat
    BY <2>2, ElementOfSeq, ItemDelays
  <2>4. pipe[c][i].delay <= LinkLatency - phase
    BY <2>1 DEF NetworkInv, HaltInv, QuietInTime, AllSentBefore, SentBefore, DrainTime
  <2>5. LinkLatency - phase < 0
    BY <2>2, NetworkConstants DEF DrainTime, DrainFits, PreDrainDelay
  <2> QED
    BY <2>2, <2>3, <2>4, <2>5, NetworkConstants
<1> QED
  BY <1>1, NetworkInvariant, PTL

-----------------------------------------------------------------------------
(***************************************************************************)
(* The network implements DrainControl.                                    *)
(***************************************************************************)
\* A finite set of naturals that is not empty has a greatest element: a least
\* one without would lose none of its elements.
LEMMA MaxIsGreatest ==
  ASSUME NEW S \in SUBSET Nat, S # {}, IsFiniteSet(S)
  PROVE  Max(S) \in S /\ \A y \in S : y <= Max(S)
<1> DEFINE HasMax(T) == \E x \in T : \A y \in T : y <= x
           Bad == { n \in Nat : \E T \in SUBSET S : T # {} /\ IsFiniteSet(T)
                                                  /\ Cardinality(T) = n /\ ~HasMax(T) }
<1>1. Bad = {}
  <2> SUFFICES ASSUME Bad # {} PROVE FALSE
    OBVIOUS
  <2> DEFINE m == Min(Bad)
  <2>1. m \in Bad /\ \A n \in Bad : m <= n
    BY MinIsLeast
  <2> HIDE DEF m
  <2>3. PICK T \in SUBSET S : T # {} /\ IsFiniteSet(T) /\ Cardinality(T) = m /\ ~HasMax(T)
    BY <2>1
  <2>4. PICK a \in T : TRUE
    BY <2>3
  <2> DEFINE U == T \ {a}
  <2>5. IsFiniteSet(U) /\ Cardinality(U) = m - 1 /\ m \in Nat
    BY <2>1, <2>3, <2>4, FS_RemoveElement
  <2>6. U # {}
    BY <2>3, <2>4
  <2>7. Cardinality(U) \in Nat /\ Cardinality(U) \notin Bad
    <3>1. Cardinality(U) \in Nat
      BY <2>5, FS_CardinalityType
    <3> HIDE DEF Bad, U
    <3> QED
      BY <2>1, <2>5, <3>1
  <2>8. HasMax(U)
    BY <2>5, <2>6, <2>7
  <2>9. PICK b \in U : \A y \in U : y <= b
    BY <2>8
  <2>10. HasMax(T)
    <3>1. CASE a <= b
      BY <2>4, <2>9, <3>1
    <3>2. CASE ~(a <= b)
      BY <2>4, <2>9, <3>2
    <3> QED
      BY <3>1, <3>2
  <2> QED
    BY <2>3, <2>10
<1>2. Cardinality(S) \in Nat /\ Cardinality(S) \notin Bad
  BY <1>1, FS_CardinalityType
<1>3. HasMax(S)
  BY <1>2
<1>4. \E x \in S : \A y \in S : x >= y
  BY <1>3
<1> QED
  BY <1>4 DEF Max

\* No wakeup is scheduled further ahead than MaxDelay.
WakeBound ==
  /\ spinMult \in SpinMults
  /\ wake \in [Consumers -> SUBSET (0 .. MaxDelay)]

LEMMA DelaysBounded ==
  /\ MaxDelay \in Nat
  /\ DrainDelay <= MaxDelay /\ LinkDelay <= MaxDelay /\ PipeStages <= MaxDelay
  /\ \A n \in SpinMults : 2 * n <= MaxDelay
<1> DEFINE Twice == { 2 * n : n \in SpinMults }
           All   == {DrainDelay, LinkDelay, PipeStages} \cup Twice
<1>1. SpinMults \in SUBSET Nat /\ IsFiniteSet(SpinMults)
  BY NetworkAssumption
<1>2. /\ DrainDelay \in Nat /\ LinkDelay \in Nat /\ PipeStages \in Nat
      /\ \A n \in SpinMults : 2 * n \in Nat
  BY <1>1, NetworkConstants DEF DrainDelay, PreDrainDelay
<1>3. /\ DrainDelay \in All /\ LinkDelay \in All /\ PipeStages \in All
      /\ \A n \in SpinMults : 2 * n \in All
      /\ \A y \in All : y \in {DrainDelay, LinkDelay, PipeStages} \/ \E n \in SpinMults : y = 2 * n
  OBVIOUS
<1>4. MaxDelay = Max(All)
  BY DEF MaxDelay
<1> HIDE DEF All
<1>5. PICK k \in {0} \cup SpinMults : \A n \in SpinMults : n <= k
  BY <1>1, MaxIsGreatest
<1>6. \E x \in All : \A y \in All : x >= y
  <2>1. \A n \in SpinMults : n \in Nat
    BY <1>1
  <2> DEFINE tops == {DrainDelay, LinkDelay, PipeStages} \cup { 2 * n : n \in SpinMults \cap {k} }
  <2>2. \A y \in All : \E x \in tops : x >= y
    BY <1>2, <1>3, <1>5, <2>1
  <2>3. \E x \in tops : \A y \in tops : x >= y
    <3>1. CASE k \in SpinMults
      <4>1. tops = {DrainDelay, LinkDelay, PipeStages, 2 * k} /\ 2 * k \in Nat
        BY <1>2, <3>1
      <4> QED
        BY <1>2, <4>1
    <3>2. CASE k \notin SpinMults
      <4>1. tops = {DrainDelay, LinkDelay, PipeStages}
        BY <3>2
      <4> QED
        BY <1>2, <4>1
    <3> QED
      BY <3>1, <3>2
  <2>4. \A x \in tops : x \in All /\ x \in Nat
    BY <1>2, <1>3
  <2>5. \A y \in All : y \in Nat
    BY <1>2, <1>3
  <2> HIDE DEF tops
  <2> QED
    BY <2>2, <2>3, <2>4, <2>5
<1>7. MaxDelay \in All /\ \A y \in All : MaxDelay >= y
  BY <1>4, <1>6 DEF Max
<1>8. \A y \in All : y \in Nat
  BY <1>2, <1>3
<1> QED
  BY <1>2, <1>3, <1>7, <1>8

\* The state of the protocol that the network's state stands for.
ControlWake   == [r \in Routers |-> wake[RouterOf(r)]]
ControlFlying == [x \in QuietChannels |->
                    ArrivalDelays(IF x[2] = "flit" THEN pipe[x[1]] ELSE crd[x[1]])]

MoreWake(old, new) ==
  /\ new \in [Routers -> SUBSET (0 .. MaxDelay)]
  /\ \A r \in Routers : old[r] \subseteq new[r] /\ (0 \in new[r] => 0 \in old[r])

FlyingTyped   == ControlFlying \in [QuietChannels -> SUBSET (0 .. LinkDelay)]
FlyingArrived == \A x \in QuietChannels : \/ ControlFlying'[x] = ControlFlying[x]
                                          \/ ControlFlying'[x] = ControlFlying[x] \ {0}
FlyingSent    == \A x \in QuietChannels : \/ ControlFlying'[x] = ControlFlying[x]
                                          \/ ControlFlying'[x] = ControlFlying[x] \cup {LinkDelay}

\* The steps of the protocol in these terms.
LEMMA ControlReceives ==
  ASSUME NEW r \in Routers,
         /\ running = Idle /\ 0 \in ControlWake[r] /\ running' = <<r, "spin">>
         /\ FlyingTyped' /\ FlyingArrived
         /\ MoreWake([ControlWake EXCEPT ![r] = @ \ {0}], ControlWake')
         /\ UNCHANGED <<phase, started, halt, lock>>
  PROVE  Control!Receive(r)
  BY Zenon
  DEF ControlWake, ControlFlying, MoreWake, FlyingTyped, FlyingArrived, Idle, LinkDelay,
     Control!Idle, Control!LinkDelay, Control!MoreWakeups, Control!Delays,
     Control!Receive, Control!Arrived, Control!Ran

LEMMA ControlHalts ==
  ASSUME NEW r \in Routers,
         /\ running = <<r, "spin">> /\ AtThreshold /\ running' = <<r, "sa">>
         /\ IF halt[r]
            THEN halt' = halt /\ ControlWake' = ControlWake
            ELSE /\ halt' = [x \in Routers |-> TRUE]
                 /\ ControlWake' = [x \in Routers |-> ControlWake[x] \cup {DrainDelay}]
         /\ lock' = (IF lock = NoRouter THEN r ELSE lock)
         /\ phase' = phase /\ started' = started /\ ControlFlying' = ControlFlying
  PROVE  Control!Halt(r)
  BY Zenon
  DEF ControlWake, ControlFlying, DrainDelay, PreDrainDelay, AtThreshold,
     Control!DrainDelay, Control!PreDrainDelay, Control!AtThreshold, Control!Halt

LEMMA ControlDrains ==
  ASSUME NEW r \in Routers,
         /\ running = <<r, "spin">> /\ DrainTime /\ running' = <<r, "sa">>
         /\ halt' = [x \in Routers |-> FALSE] /\ lock' = NoRouter
         /\ MoreWake(ControlWake, ControlWake')
         /\ phase' = phase /\ started' = started /\ ControlFlying' = ControlFlying
  PROVE  Control!Drain(r)
  BY Zenon
  DEF ControlWake, ControlFlying, MoreWake, PreDrainDelay, DrainTime,
     Control!PreDrainDelay, Control!DrainTime, Control!MoreWakeups, Control!Delays, Control!Drain

LEMMA ControlWaits ==
  ASSUME NEW r \in Routers,
         /\ running = <<r, "spin">> /\ ~AtThreshold /\ ~DrainTime /\ running' = <<r, "sa">>
         /\ ControlWake' = ControlWake /\ ControlFlying' = ControlFlying
         /\ UNCHANGED <<phase, started, halt, lock>>
  PROVE  Control!NoSpin(r)
  BY Zenon
  DEF ControlWake, ControlFlying, PreDrainDelay, AtThreshold, DrainTime,
     Control!PreDrainDelay, Control!AtThreshold, Control!DrainTime, Control!NoSpin

LEMMA ControlAllocates ==
  ASSUME NEW r \in Routers,
         /\ running = <<r, "sa">> /\ running' = Idle
         /\ IF halt[r] THEN ControlFlying' = ControlFlying ELSE FlyingTyped' /\ FlyingSent
         /\ MoreWake(ControlWake, ControlWake')
         /\ UNCHANGED <<phase, started, halt, lock>>
  PROVE  Control!Allocate(r)
  BY Zenon
  DEF ControlWake, ControlFlying, MoreWake, FlyingTyped, FlyingSent, Idle, LinkDelay,
     Control!Idle, Control!LinkDelay, Control!MoreWakeups, Control!Delays,
     Control!Allocate, Control!Sent

LEMMA ControlInterface ==
  ASSUME /\ running = Idle /\ FlyingTyped' /\ FlyingArrived /\ MoreWake(ControlWake, ControlWake')
         /\ UNCHANGED <<phase, started, running, halt, lock>>
  PROVE  Control!Interface
  BY Zenon
  DEF ControlWake, ControlFlying, MoreWake, FlyingTyped, FlyingArrived, Idle, LinkDelay,
     Control!Idle, Control!LinkDelay, Control!MoreWakeups, Control!Delays,
     Control!Interface, Control!Arrived

LEMMA ControlTicks ==
  ASSUME /\ running = Idle
         /\ \A r \in Routers : 0 \notin ControlWake[r]
         /\ \A x \in QuietChannels : 0 \notin ControlFlying[x]
         /\ phase' = (IF phase = SpinThreshold - 1 THEN 0 ELSE phase + 1)
         /\ started' = (started \/ phase = SpinThreshold - 1)
         /\ ControlWake' = [r \in Routers |-> { d - 1 : d \in ControlWake[r] }]
         /\ ControlFlying' = [x \in QuietChannels |-> { d - 1 : d \in ControlFlying[x] }]
         /\ UNCHANGED <<running, halt, lock>>
  PROVE  Control!Tick
  BY Zenon
  DEF ControlWake, ControlFlying, Idle, Control!Idle, Control!Tick

LEMMA ControlStutters ==
  ASSUME /\ ControlWake' = ControlWake /\ ControlFlying' = ControlFlying
         /\ UNCHANGED <<phase, started, running, halt, lock>>
  PROVE  UNCHANGED Control!vars
  BY Zenon
  DEF ControlWake, ControlFlying, Control!vars

\* The arrivals on a link when an item is put on it, taken off it or comes
\* closer.
LEMMA Arrivals ==
  ASSUME NEW S, NEW q \in Seq(S), \A s \in S : s.delay \in 0 .. LinkDelay
  PROVE  /\ ArrivalDelays(q) \subseteq 0 .. LinkDelay
         /\ \A e : ArrivalDelays(Append(q, e)) = ArrivalDelays(q) \cup {e.delay}
         /\ Increasing(q) /\ Ready(q) => ArrivalDelays(Tail(q)) = ArrivalDelays(q) \ {0}
<1> DEFINE k == Len(q)
<1>1. k \in Nat /\ \A i \in 1 .. k : q[i] \in S /\ q[i].delay \in 0 .. LinkDelay
  BY ElementOfSeq, LenProperties
<1>2. ArrivalDelays(q) \subseteq 0 .. LinkDelay
  BY <1>1 DEF ArrivalDelays
<1>3. ASSUME NEW e PROVE ArrivalDelays(Append(q, e)) = ArrivalDelays(q) \cup {e.delay}
  <2>1. /\ Len(Append(q, e)) = k + 1
        /\ \A i \in 1 .. k + 1 : Append(q, e)[i] = IF i = k + 1 THEN e ELSE q[i]
    BY AppendProperties
  <2>2. k + 1 \in 1 .. k + 1 /\ \A i : i \in 1 .. k + 1 <=> i \in 1 .. k \/ i = k + 1
    BY <1>1
  <2>3. \A i \in 1 .. k : i \in 1 .. k + 1 /\ i # k + 1
    BY <1>1
  <2> DEFINE a == Append(q, e)
             n == k + 1
  <2>4. ArrivalDelays(a) = { a[i].delay : i \in 1 .. n } /\ ArrivalDelays(q) = { q[i].delay : i \in 1 .. k }
    BY <2>1 DEF ArrivalDelays
  <2>5. a[n] = e /\ \A i \in 1 .. k : a[i] = q[i]
    BY <2>1, <2>2, <2>3
  <2> HIDE DEF a, n, k
  <2>6. ArrivalDelays(a) = ArrivalDelays(q) \cup {e.delay}
    BY <2>2, <2>4, <2>5 DEF n
  <2> QED
    BY <2>6 DEF a
<1>4. ASSUME Increasing(q), Ready(q) PROVE ArrivalDelays(Tail(q)) = ArrivalDelays(q) \ {0}
  <2>1. /\ q # <<>> /\ Head(q) = q[1] /\ k >= 1 /\ Len(Tail(q)) = k - 1 /\ q[1].delay = 0
        /\ \A i \in 1 .. k - 1 : Tail(q)[i] = q[i + 1]
    BY <1>4, Taken DEF Ready
  <2>2. \A i \in 1 .. k : i # 1 => q[i].delay # 0 /\ i - 1 \in 1 .. k - 1
    BY <1>1, <1>4, <2>1 DEF Increasing
  <2>3. \A i \in 1 .. k - 1 : i + 1 \in 1 .. k /\ i + 1 # 1
    BY <1>1
  <2> DEFINE t == Tail(q)
  <2>4. ArrivalDelays(t) = { t[i].delay : i \in 1 .. k - 1 } /\ ArrivalDelays(q) = { q[i].delay : i \in 1 .. k }
    BY <2>1 DEF ArrivalDelays
  <2>5. \A i \in 1 .. k - 1 : t[i] = q[i + 1]
    BY <2>1
  <2>6. \A i \in 1 .. k : i # 1 => t[i - 1] = q[i]
    BY <1>1, <2>2, <2>5
  <2>7. \A d : d \in ArrivalDelays(t) => d \in ArrivalDelays(q) /\ d # 0
    BY <2>2, <2>3, <2>4, <2>5
  <2>8. \A d \in ArrivalDelays(q) : d # 0 => d \in ArrivalDelays(t)
    BY <2>1, <2>2, <2>4, <2>6
  <2> QED
    BY <2>7, <2>8
<1> QED
  BY <1>2, <1>3, <1>4

LEMMA LinkArrivals ==
  /\ \A e \in Transit \cup Credit : e.delay \in 0 .. LinkDelay
  /\ \A q \in Seq(Transit) \cup Seq(Credit) :
       /\ ArrivalDelays(q) \subseteq 0 .. LinkDelay
       /\ \A e : ArrivalDelays(Append(q, e)) = ArrivalDelays(q) \cup {e.delay}
       /\ Increasing(q) /\ Ready(q) => ArrivalDelays(Tail(q)) = ArrivalDelays(q) \ {0}
<1>1. /\ \A e \in Transit : e.delay \in 0 .. LinkDelay
      /\ \A e \in Credit : e.delay \in 0 .. LinkDelay
  BY DEF Transit, Credit
<1> QED
  BY <1>1, Arrivals

\* What a quiet channel stands for.
LEMMA QuietChannel ==
  ASSUME NEW x \in QuietChannels
  PROVE  /\ x[1] \in Chans \ LocalPorts
         /\ \/ /\ x[2] = "flit"
               /\ ControlFlying[x] = ArrivalDelays(pipe[x[1]])
               /\ ControlFlying'[x] = ArrivalDelays(pipe'[x[1]])
            \/ /\ x[2] = "credit" /\ x[1] \in RingPorts
               /\ ControlFlying[x] = ArrivalDelays(crd[x[1]])
               /\ ControlFlying'[x] = ArrivalDelays(crd'[x[1]])
<1>1. x[1] \in RingPorts \cup EjectPorts /\ (x[2] = "flit" \/ (x[2] = "credit" /\ x[1] \in RingPorts))
  BY DEF QuietChannels
<1>2. x[1] \in Chans \ LocalPorts
  BY <1>1, ChannelTypes DEF Chans, InPorts, LocalPorts, EjectPorts, Sides
<1>3. /\ ControlFlying[x] = ArrivalDelays(IF x[2] = "flit" THEN pipe[x[1]] ELSE crd[x[1]])
      /\ ControlFlying'[x] = ArrivalDelays(IF x[2] = "flit" THEN pipe'[x[1]] ELSE crd'[x[1]])
  BY DEF ControlFlying, ArrivalDelays
<1> QED
  BY <1>1, <1>2, <1>3

LEMMA FlyingType ==
  ASSUME Typed'
  PROVE  FlyingTyped'
<1>1. \A c \in Chans : pipe'[c] \in Seq(Transit) /\ crd'[c] \in Seq(Credit)
  BY DEF Typed
<1>2. ControlFlying' = [x \in QuietChannels |-> ControlFlying'[x]]
  BY DEF ControlFlying
<1>3. ASSUME NEW x \in QuietChannels PROVE ControlFlying'[x] \in SUBSET (0 .. LinkDelay)
  BY <1>1, QuietChannel, LinkArrivals
<1> HIDE DEF ControlFlying
<1>4. ControlFlying' \in [QuietChannels -> SUBSET (0 .. LinkDelay)]
  BY <1>2, <1>3
<1> QED
  BY <1>4 DEF FlyingTyped

\* Links that a step does not touch.
LEMMA FlyingKept ==
  ASSUME UNCHANGED <<pipe, crd>>
  PROVE  ControlFlying' = ControlFlying
  BY DEF ControlFlying

\* The router's wakeups, as the protocol sees them.
LEMMA WakeKept ==
  ASSUME NEW w \in [Consumers -> SUBSET (0 .. MaxDelay)], wake' = w
  PROVE  /\ ControlWake' \in [Routers -> SUBSET (0 .. MaxDelay)]
         /\ \A r \in Routers : /\ ControlWake[r] = wake[RouterOf(r)]
                               /\ ControlWake'[r] = w[RouterOf(r)]
  BY RouterConsumer DEF ControlWake

LEMMA ScheduleBounded ==
  ASSUME NEW w \in [Consumers -> SUBSET (0 .. MaxDelay)], NEW who, NEW d \in 0 .. MaxDelay
  PROVE  Schedule(w, who, d) \in [Consumers -> SUBSET (0 .. MaxDelay)]
  BY DEF Schedule

ControlStep == WakeBound' /\ [Control!Next]_(Control!vars)

LEMMA NoSpinControl ==
  ASSUME WakeBound, NEW r \in Routers, RouterNoSpin(r), UNCHANGED spinMult
  PROVE  ControlStep
<1>1. /\ running = <<r, "spin">> /\ ~AtThreshold /\ ~DrainTime /\ running' = <<r, "sa">>
      /\ UNCHANGED <<phase, started, wake, halt, lock, pipe, crd>>
  BY DEF RouterNoSpin, clockVars, lockVars
<1>2. ControlWake' = ControlWake /\ ControlFlying' = ControlFlying
  BY <1>1, FlyingKept DEF ControlWake
<1>3. Control!NoSpin(r)
  BY <1>1, <1>2, ControlWaits
<1> QED
  BY <1>1, <1>3 DEF ControlStep, WakeBound, Control!Next, Control!RouterStep

LEMMA HaltControl ==
  ASSUME WakeBound, NEW r \in Routers, RouterHalt(r), UNCHANGED spinMult
  PROVE  ControlStep
<1>1. /\ running = <<r, "spin">> /\ AtThreshold /\ running' = <<r, "sa">>
      /\ IF halt[r]
         THEN halt' = halt /\ wake' = wake
         ELSE /\ halt' = [x \in Routers |-> TRUE]
              /\ wake' = Schedule(wake, RouterConsumers, DrainDelay)
      /\ lock' = (IF lock = NoRouter THEN r ELSE lock)
      /\ UNCHANGED <<phase, started, pipe, crd>>
  BY DEF RouterHalt, clockVars, set_halt
<1>2. ControlFlying' = ControlFlying
  BY <1>1, FlyingKept
<1>3. WakeBound'
  BY <1>1, ScheduleBounded, DelaysBounded DEF WakeBound, DrainDelay, PreDrainDelay
<1>4. IF halt[r] THEN ControlWake' = ControlWake
      ELSE ControlWake' = [x \in Routers |-> ControlWake[x] \cup {DrainDelay}]
  <2>1. CASE halt[r]
    BY <1>1, <2>1 DEF ControlWake
  <2>2. CASE ~halt[r]
    <3>1. \A x \in Routers : wake'[RouterOf(x)] = wake[RouterOf(x)] \cup {DrainDelay}
      BY <1>1, <2>2, RouterConsumer DEF Schedule
    <3> QED
      BY <2>2, <3>1 DEF ControlWake
  <2> QED
    BY <2>1, <2>2
<1>5. Control!Halt(r)
  BY <1>1, <1>2, <1>4, ControlHalts
<1> QED
  BY <1>3, <1>5 DEF ControlStep, Control!Next, Control!RouterStep

LEMMA DrainControls ==
  ASSUME WakeBound, NEW r \in Routers, RouterDrain(r), UNCHANGED spinMult
  PROVE  ControlStep
<1>1. /\ running = <<r, "spin">> /\ DrainTime /\ running' = <<r, "sa">>
      /\ halt' = [x \in Routers |-> FALSE] /\ lock' = NoRouter
      /\ wake' = IF ResumeDelay = 0 THEN wake ELSE Schedule(wake, RouterConsumers, ResumeDelay)
      /\ UNCHANGED <<phase, started, pipe, crd>>
  BY DEF RouterDrain, clockVars, set_halt
<1>2. ControlFlying' = ControlFlying
  BY <1>1, FlyingKept
<1>3. ResumeDelay \in 0 .. MaxDelay
  BY DelaysBounded, NetworkAssumption DEF ResumeDelay, WakeBound
<1>4. WakeBound'
  BY <1>1, <1>3, ScheduleBounded DEF WakeBound
<1>5. MoreWake(ControlWake, ControlWake')
  <2>1. /\ ControlWake' \in [Routers -> SUBSET (0 .. MaxDelay)]
        /\ \A x \in Routers : /\ ControlWake[x] = wake[RouterOf(x)]
                              /\ ControlWake'[x] = wake'[RouterOf(x)]
    BY <1>4, WakeKept DEF WakeBound
  <2>2. \A x \in Routers : /\ wake[RouterOf(x)] \subseteq wake'[RouterOf(x)]
                           /\ 0 \in wake'[RouterOf(x)] => 0 \in wake[RouterOf(x)]
    BY <1>1, RouterConsumer DEF Schedule
  <2> QED
    BY <2>1, <2>2 DEF MoreWake
<1>6. Control!Drain(r)
  BY <1>1, <1>2, <1>5, ControlDrains
<1> QED
  BY <1>4, <1>6 DEF ControlStep, Control!Next, Control!RouterStep

LEMMA SendControl ==
  ASSUME WakeBound, NEW p \in Packets, SendMessage(p), UNCHANGED spinMult
  PROVE  ControlStep
<1>1. /\ UNCHANGED <<phase, started, running, halt, lock, pipe, crd>>
      /\ wake' = Schedule(wake, {NiOf(Source[p])}, 1)
  BY DEF SendMessage, clockVars, lockVars
<1>2. ControlFlying' = ControlFlying
  BY <1>1, FlyingKept
<1>3. 1 \in 0 .. MaxDelay
  BY DelaysBounded DEF DrainDelay, PreDrainDelay
<1>4. WakeBound'
  BY <1>1, <1>3, ScheduleBounded DEF WakeBound
<1>5. ControlWake' = ControlWake
  <2>1. \A x \in Routers : wake'[RouterOf(x)] = wake[RouterOf(x)]
    BY <1>1, RouterConsumer DEF Schedule
  <2> QED
    BY <2>1 DEF ControlWake
<1> QED
  BY <1>1, <1>2, <1>4, <1>5, ControlStutters DEF ControlStep

LEMMA TickControl ==
  ASSUME NetworkInv, WakeBound, Tick, UNCHANGED spinMult
  PROVE  ControlStep
<1>1. /\ running = Idle /\ \A x \in Consumers : 0 \notin wake[x]
      /\ phase' = (IF phase = SpinThreshold - 1 THEN 0 ELSE phase + 1)
      /\ started' = (started \/ phase = SpinThreshold - 1)
      /\ wake' = [x \in Consumers |-> { d - 1 : d \in wake[x] }]
      /\ pipe' = [c \in Chans |-> Closer(pipe[c])]
      /\ crd' = [c \in Chans |-> Closer(crd[c])]
      /\ UNCHANGED <<running, halt, lock>>
  BY DEF Tick, CycleDone, lockVars
<1>2. Typed /\ Lanes
  BY DEF NetworkInv
<1>3. WakeBound'
  BY <1>1, DelaysBounded DEF WakeBound
<1>4. /\ ControlWake' = [r \in Routers |-> { d - 1 : d \in ControlWake[r] }]
      /\ \A r \in Routers : 0 \notin ControlWake[r]
  BY <1>1, RouterConsumer DEF ControlWake
<1>5. ASSUME NEW c \in Chans
      PROVE  /\ 0 \notin ArrivalDelays(pipe[c]) /\ 0 \notin ArrivalDelays(crd[c])
             /\ ArrivalDelays(pipe'[c]) = { d - 1 : d \in ArrivalDelays(pipe[c]) }
             /\ ArrivalDelays(crd'[c]) = { d - 1 : d \in ArrivalDelays(crd[c]) }
  <2>1. /\ pipe[c] \in Seq(Transit) /\ crd[c] \in Seq(Credit)
        /\ pipe'[c] = Closer(pipe[c]) /\ crd'[c] = Closer(crd[c])
    BY <1>1, <1>2, QueueTypes
  <2>2. /\ \A i \in 1 .. Len(pipe[c]) : pipe[c][i].delay # 0
        /\ \A i \in 1 .. Len(crd[c]) : crd[c][i].delay # 0
    BY <1>1, <1>2, ConsumerTypes DEF Lanes, FlitLane, CreditLane, Lane
  <2>3. /\ Len(pipe'[c]) = Len(pipe[c])
        /\ \A i \in 1 .. Len(pipe[c]) : pipe'[c][i].delay = pipe[c][i].delay - 1
        /\ Len(crd'[c]) = Len(crd[c])
        /\ \A i \in 1 .. Len(crd[c]) : crd'[c][i].delay = crd[c][i].delay - 1
    BY <2>1, <2>2, CloserItems
  <2> QED
    BY <2>2, <2>3, Zenon DEF ArrivalDelays
<1>6. \A x \in QuietChannels : /\ 0 \notin ControlFlying[x]
                               /\ ControlFlying'[x] = { d - 1 : d \in ControlFlying[x] }
  BY <1>5, QuietChannel
<1>7. ControlFlying' = [x \in QuietChannels |-> ControlFlying'[x]]
  BY DEF ControlFlying
<1>8. ControlFlying' = [x \in QuietChannels |-> { d - 1 : d \in ControlFlying[x] }]
  BY <1>6, <1>7, Zenon
<1>9. Control!Tick
  BY <1>1, <1>4, <1>6, <1>8, ControlTicks
<1> QED
  BY <1>3, <1>9 DEF ControlStep, Control!Next

\* The router takes what has arrived on its channels.
LEMMA ReceiveControl ==
  ASSUME NetworkInv, WakeBound, Typed', NEW r \in Routers, RouterReceive(r), UNCHANGED spinMult
  PROVE  ControlStep
<1> DEFINE arrived  == { c \in InPortsOf(r) : Ready(pipe[c]) }
           credited == { c \in OutChansOf(r) : Ready(crd[c]) }
           later    == IF arrived # {} /\ PipeStages > 1 THEN {PipeStages - 1} ELSE {}
<1>1. /\ running = Idle /\ 0 \in wake[RouterOf(r)] /\ running' = <<r, "spin">>
      /\ pipe' = [c \in Chans |-> IF c \in arrived THEN Tail(pipe[c]) ELSE pipe[c]]
      /\ crd' = [c \in Chans |-> IF c \in credited THEN Tail(crd[c]) ELSE crd[c]]
      /\ wake' = [wake EXCEPT ![RouterOf(r)] = (@ \ {0}) \cup later]
      /\ UNCHANGED <<phase, started, halt, lock>>
  BY DEF RouterReceive, Due, clockVars, lockVars, InputUnitWakeup, OutputUnitWakeup
<1>2. Typed /\ Lanes
  BY DEF NetworkInv
<1>3. later \in SUBSET (0 .. MaxDelay) /\ 0 \notin later
  BY NetworkConstants, DelaysBounded
<1>4. /\ \A c \in arrived : Ready(pipe[c])
      /\ \A c \in credited : Ready(crd[c])
  OBVIOUS
<1> HIDE DEF later, arrived, credited
<1>5. WakeBound'
  BY <1>1, <1>3 DEF WakeBound
<1>6. MoreWake([ControlWake EXCEPT ![r] = @ \ {0}], ControlWake')
  <2>1. /\ ControlWake' \in [Routers -> SUBSET (0 .. MaxDelay)]
        /\ \A x \in Routers : /\ ControlWake[x] = wake[RouterOf(x)]
                              /\ ControlWake'[x] = wake'[RouterOf(x)]
    BY <1>5, WakeKept DEF WakeBound
  <2>2. /\ wake'[RouterOf(r)] = (wake[RouterOf(r)] \ {0}) \cup later
        /\ \A x \in Routers : x # r => wake'[RouterOf(x)] = wake[RouterOf(x)]
    BY <1>1, <1>2, RouterConsumer DEF Typed
  <2> DEFINE ran == [ControlWake EXCEPT ![r] = @ \ {0}]
  <2>3. \A x \in Routers : ran[x] = IF x = r THEN ControlWake[x] \ {0} ELSE ControlWake[x]
    BY DEF ControlWake
  <2> HIDE DEF ran
  <2>4. \A x \in Routers : ran[x] \subseteq ControlWake'[x] /\ (0 \in ControlWake'[x] => 0 \in ran[x])
    BY <1>3, <2>1, <2>2, <2>3
  <2> QED
    BY <2>1, <2>4 DEF MoreWake, ran
<1>7. ASSUME NEW c \in Chans
      PROVE  /\ \/ ArrivalDelays(pipe'[c]) = ArrivalDelays(pipe[c])
                \/ ArrivalDelays(pipe'[c]) = ArrivalDelays(pipe[c]) \ {0}
             /\ \/ ArrivalDelays(crd'[c]) = ArrivalDelays(crd[c])
                \/ ArrivalDelays(crd'[c]) = ArrivalDelays(crd[c]) \ {0}
  <2>1. /\ pipe[c] \in Seq(Transit) /\ crd[c] \in Seq(Credit)
        /\ Increasing(pipe[c]) /\ Increasing(crd[c])
    BY <1>2, QueueTypes DEF Lanes, FlitLane, CreditLane, Lane
  <2>2. pipe'[c] = pipe[c] \/ (Ready(pipe[c]) /\ pipe'[c] = Tail(pipe[c]))
    BY <1>1, <1>4
  <2>3. crd'[c] = crd[c] \/ (Ready(crd[c]) /\ crd'[c] = Tail(crd[c]))
    BY <1>1, <1>4
  <2> QED
    BY <2>1, <2>2, <2>3, LinkArrivals
<1>8. FlyingArrived /\ FlyingTyped'
  BY <1>7, QuietChannel, FlyingType DEF FlyingArrived
<1>9. 0 \in ControlWake[r]
  BY <1>1 DEF ControlWake
<1>10. Control!Receive(r)
  BY <1>1, <1>6, <1>8, <1>9, ControlReceives
<1> QED
  BY <1>5, <1>10 DEF ControlStep, Control!Next, Control!RouterStep

\* What a router that is not halted puts on its channels.
LEMMA AllocateControl ==
  ASSUME NetworkInv, WakeBound, Typed', NEW r \in Routers, RouterAllocate(r), UNCHANGED spinMult
  PROVE  ControlStep
<1>1. /\ running = <<r, "sa">> /\ running' = Idle
      /\ UNCHANGED <<phase, started, halt, lock>>
  BY DEF RouterAllocate, clockVars, lockVars
<1>2. PICK alloc \in Allocations(r) : SwitchTraversal(r, alloc[1], alloc[2])
  BY DEF RouterAllocate
<1> DEFINE req       == alloc[1]
           win       == alloc[2]
           chan(c)   == RequestedChan(r, req, c)
           newvc(c)  == select_free_vc(chan(c), get_vnet(req[c]))
           winner(o) == CHOOSE c \in win : chan(c) = o
           taken     == { chan(c) : c \in win }
           flit(o)   == [pkt   |-> Head(inbuf[winner(o)][req[winner(o)]]).pkt,
                         vc    |-> newvc(winner(o)),
                         delay |-> LinkDelay]
           credit(c) == [vc |-> req[c], delay |-> LinkDelay]
           who       == { FlitConsumer(o) : o \in taken } \cup { CreditConsumer(c) : c \in win }
           sent      == Schedule(wake, who, LinkDelay)
<1>3. /\ pipe' = [o \in Chans |-> IF o \in taken THEN Append(pipe[o], flit(o)) ELSE pipe[o]]
      /\ crd' = [c \in Chans |-> IF c \in win THEN Append(crd[c], credit(c)) ELSE crd[c]]
      /\ wake' = sent \/ wake' = Schedule(sent, {RouterOf(r)}, 1)
  BY <1>2 DEF SwitchTraversal
<1>4. Typed /\ Routed
  BY DEF NetworkInv
<1>5. halt[r] => win = {} /\ taken = {}
  <2>1. halt[r] => win = {}
    BY <1>4, AllocationFacts
  <2> QED
    BY <2>1
<1>6. /\ \A o : flit(o).delay = LinkDelay
      /\ \A c : credit(c).delay = LinkDelay
  OBVIOUS
<1>7. 1 \in 0 .. MaxDelay /\ LinkDelay \in 0 .. MaxDelay /\ LinkDelay # 0
  BY DelaysBounded, NetworkConstants DEF DrainDelay, PreDrainDelay
<1> HIDE DEF req, win, chan, newvc, winner, taken, flit, credit, who
<1>8. WakeBound'
  <2>1. sent \in [Consumers -> SUBSET (0 .. MaxDelay)]
    BY <1>7, ScheduleBounded DEF WakeBound
  <2> HIDE DEF sent
  <2> QED
    BY <1>3, <1>7, <2>1, ScheduleBounded DEF WakeBound
<1>9. MoreWake(ControlWake, ControlWake')
  <2>1. /\ ControlWake' \in [Routers -> SUBSET (0 .. MaxDelay)]
        /\ \A x \in Routers : /\ ControlWake[x] = wake[RouterOf(x)]
                              /\ ControlWake'[x] = wake'[RouterOf(x)]
    BY <1>8, WakeKept DEF WakeBound
  <2>2. \A x \in Consumers : /\ wake[x] \subseteq sent[x]
                             /\ 0 \in sent[x] => 0 \in wake[x]
    BY <1>7 DEF Schedule
  <2> HIDE DEF sent
  <2>3. \A x \in Consumers : /\ sent[x] \subseteq wake'[x]
                             /\ 0 \in wake'[x] => 0 \in sent[x]
    BY <1>3 DEF Schedule
  <2> QED
    BY <2>1, <2>2, <2>3, RouterConsumer DEF MoreWake
<1>10. ASSUME NEW c \in Chans
       PROVE  /\ \/ ArrivalDelays(pipe'[c]) = ArrivalDelays(pipe[c])
                 \/ ~halt[r] /\ ArrivalDelays(pipe'[c]) = ArrivalDelays(pipe[c]) \cup {LinkDelay}
              /\ \/ ArrivalDelays(crd'[c]) = ArrivalDelays(crd[c])
                 \/ ~halt[r] /\ ArrivalDelays(crd'[c]) = ArrivalDelays(crd[c]) \cup {LinkDelay}
  <2>1. pipe[c] \in Seq(Transit) /\ crd[c] \in Seq(Credit)
    BY <1>4, QueueTypes
  <2>2. pipe'[c] = pipe[c] \/ (~halt[r] /\ pipe'[c] = Append(pipe[c], flit(c)))
    BY <1>3, <1>5
  <2>3. crd'[c] = crd[c] \/ (~halt[r] /\ crd'[c] = Append(crd[c], credit(c)))
    BY <1>3, <1>5
  <2>4. /\ ArrivalDelays(Append(pipe[c], flit(c))) = ArrivalDelays(pipe[c]) \cup {LinkDelay}
        /\ ArrivalDelays(Append(crd[c], credit(c))) = ArrivalDelays(crd[c]) \cup {LinkDelay}
    BY <1>6, <2>1, LinkArrivals
  <2> QED
    BY <2>2, <2>3, <2>4
<1>11. FlyingTyped' /\ FlyingSent
  BY <1>10, QuietChannel, FlyingType DEF FlyingSent
<1>12. halt[r] => ControlFlying' = ControlFlying
  <2> SUFFICES ASSUME halt[r] PROVE ControlFlying' = ControlFlying
    OBVIOUS
  <2>1. \A x \in QuietChannels : ControlFlying'[x] = ControlFlying[x]
    BY <1>10, QuietChannel
  <2>2. /\ ControlFlying' = [x \in QuietChannels |-> ControlFlying'[x]]
        /\ ControlFlying = [x \in QuietChannels |-> ControlFlying[x]]
    BY DEF ControlFlying
  <2> QED
    BY <2>1, <2>2, Zenon
<1>13. Control!Allocate(r)
  BY <1>1, <1>9, <1>11, <1>12, ControlAllocates
<1> QED
  BY <1>8, <1>13 DEF ControlStep, Control!Next, Control!RouterStep

\* An interface takes what was ejected; what it sends goes over the injection
\* link and its credit link, which the drain does not look at.
LEMMA InterfaceControl ==
  ASSUME NetworkInv, WakeBound, Typed', NEW n \in Routers, InterfaceWakeup(n), UNCHANGED spinMult
  PROVE  ControlStep
<1> DEFINE inj == <<n, "Local">>
           ej  == <<n, "Eject">>
           ran == [wake EXCEPT ![NiOf(n)] = @ \ {0}]
           sch == Schedule(ran, {RouterOf(n)}, LinkDelay)
           crs(s) == { Schedule(s, {RouterOf(n)}, d) : d \in CreditDelays(n) }
           all == {ran, sch} \cup crs(ran) \cup crs(sch)
<1>1. /\ running = Idle /\ UNCHANGED <<phase, started, running, halt, lock>>
  BY DEF InterfaceWakeup, clockVars, lockVars
<1>2. Typed /\ Lanes
  BY DEF NetworkInv
<1>3. /\ \A c \in Chans : c # inj /\ c # ej => pipe'[c] = pipe[c] /\ crd'[c] = crd[c]
      /\ pipe'[ej] = pipe[ej] \/ (Ready(pipe[ej]) /\ pipe'[ej] = Tail(pipe[ej]))
      /\ \E s \in all : wake' = s \/ wake' = Schedule(s, {NiOf(n)}, 1)
  <2>1. inj # ej /\ ej \in Chans
    BY DEF Chans, EjectPorts
  <2>2. pipe \in [Chans -> Seq(Transit)] /\ crd \in [Chans -> Seq(Credit)]
    BY <1>2 DEF Typed
  <2>3. PICK pick \in PickVcs(n) : \E send \in SendVcs(n, FlitsAfterPick(n, pick)) :
          \E after \in CreditDelays(n) : InterfaceEffect(n, pick, send, after)
    BY <1>2, InterfaceEffects
  <2>4. PICK send \in SendVcs(n, FlitsAfterPick(n, pick)), after \in CreditDelays(n) :
          InterfaceEffect(n, pick, send, after)
    BY <2>3
  <2>5. \E a : pipe' = [pipe EXCEPT ![inj] = a,
                                    ![ej] = IF Ready(pipe[ej]) THEN Tail(pipe[ej]) ELSE pipe[ej]]
    BY <2>4, Zenon DEF InterfaceEffect
  <2>6. \E a, b : crd' = [crd EXCEPT ![inj] = a, ![ej] = b]
    BY <2>4, Zenon DEF InterfaceEffect
  <2>7. \E s \in all : wake' = s \/ wake' = Schedule(s, {NiOf(n)}, 1)
    BY <2>4 DEF InterfaceEffect
  <2> HIDE DEF inj, ej, all
  <2> QED
    BY <2>1, <2>2, <2>5, <2>6, <2>7
<1>4. /\ 1 \in 0 .. MaxDelay /\ LinkDelay \in 0 .. MaxDelay /\ LinkDelay # 0
  BY DelaysBounded, NetworkConstants DEF DrainDelay, PreDrainDelay
<1>5. PICK s \in all : wake' = s \/ wake' = Schedule(s, {NiOf(n)}, 1)
  BY <1>3
<1>6. /\ s \in [Consumers -> SUBSET (0 .. MaxDelay)]
      /\ \A x \in Routers : /\ wake[RouterOf(x)] \subseteq s[RouterOf(x)]
                            /\ 0 \in s[RouterOf(x)] => 0 \in wake[RouterOf(x)]
  <2>1. /\ ran \in [Consumers -> SUBSET (0 .. MaxDelay)]
        /\ \A x \in Routers : ran[RouterOf(x)] = wake[RouterOf(x)]
    BY RouterConsumer DEF WakeBound
  <2> HIDE DEF ran
  <2>2. /\ sch \in [Consumers -> SUBSET (0 .. MaxDelay)]
        /\ \A x \in Routers : /\ ran[RouterOf(x)] \subseteq sch[RouterOf(x)]
                              /\ 0 \in sch[RouterOf(x)] => 0 \in ran[RouterOf(x)]
    BY <1>4, <2>1, ScheduleBounded, RouterConsumer DEF Schedule
  <2> DEFINE Adds(t) == /\ t \in [Consumers -> SUBSET (0 .. MaxDelay)]
                        /\ \A x \in Routers : /\ ran[RouterOf(x)] \subseteq t[RouterOf(x)]
                                              /\ 0 \in t[RouterOf(x)] => 0 \in ran[RouterOf(x)]
  <2>3. \A d \in CreditDelays(n) : d \in 0 .. MaxDelay /\ d # 0
    BY <1>4, DelaysBounded, NetworkConstants DEF CreditDelays
  <2> HIDE DEF sch
  <2>4. ASSUME NEW t, Adds(t), NEW d \in CreditDelays(n)
        PROVE  Adds(Schedule(t, {RouterOf(n)}, d))
    BY <2>3, <2>4, ScheduleBounded, RouterConsumer DEF Schedule
  <2>5. Adds(ran) /\ Adds(sch)
    BY <2>1, <2>2
  <2>6. Adds(s)
    <3>1. CASE s \in {ran, sch}
      BY <2>5, <3>1
    <3>2. CASE s \in crs(ran) \cup crs(sch)
      <4>1. PICK t \in {ran, sch}, d \in CreditDelays(n) : s = Schedule(t, {RouterOf(n)}, d)
        BY <3>2
      <4>2. Adds(t)
        BY <2>5
      <4> HIDE DEF Adds
      <4> QED
        BY <2>4, <4>1, <4>2
    <3> QED
      BY <3>1, <3>2
  <2> QED
    BY <2>1, <2>6
<1> HIDE DEF all, ran, sch
<1>7. WakeBound'
  BY <1>4, <1>5, <1>6, ScheduleBounded DEF WakeBound
<1>8. MoreWake(ControlWake, ControlWake')
  <2>1. /\ ControlWake' \in [Routers -> SUBSET (0 .. MaxDelay)]
        /\ \A x \in Routers : /\ ControlWake[x] = wake[RouterOf(x)]
                              /\ ControlWake'[x] = wake'[RouterOf(x)]
    BY <1>7, WakeKept DEF WakeBound
  <2>2. \A x \in Routers : wake'[RouterOf(x)] = s[RouterOf(x)]
    BY <1>5, <1>6, RouterConsumer DEF Schedule
  <2> QED
    BY <1>6, <2>1, <2>2, SMTT(30) DEF MoreWake
<1>9. FlyingArrived
  <2> SUFFICES ASSUME NEW x \in QuietChannels
               PROVE  \/ ControlFlying'[x] = ControlFlying[x]
                      \/ ControlFlying'[x] = ControlFlying[x] \ {0}
    BY DEF FlyingArrived
  <2>1. x[1] \in Chans /\ x[1] # inj
    BY QuietChannel DEF LocalPorts
  <2>2. CASE x[1] # ej
    BY <1>3, <2>1, <2>2, QuietChannel
  <2>3. CASE x[1] = ej
    <3>1. /\ ControlFlying[x] = ArrivalDelays(pipe[ej])
          /\ ControlFlying'[x] = ArrivalDelays(pipe'[ej])
      BY <2>1, <2>3, QuietChannel, ChannelTypes DEF Sides
    <3>2. pipe[ej] \in Seq(Transit) /\ Increasing(pipe[ej])
      BY <1>2, <2>1, <2>3, QueueTypes DEF Lanes, FlitLane, Lane
    <3> QED
      BY <1>3, <3>1, <3>2, LinkArrivals
  <2> QED
    BY <2>2, <2>3
<1>10. Control!Interface
  BY <1>1, <1>8, <1>9, FlyingType, ControlInterface
<1> QED
  BY <1>7, <1>10 DEF ControlStep, Control!Next

\* Every step of the network is one of the protocol, or leaves it alone.
LEMMA ControlNext ==
  ASSUME DrainFits, NetworkInv, WakeBound, [Next]_<<vars, spinMult>>
  PROVE  ControlStep
<1>1. Typed'
  BY NetworkStep DEF StepOK
<1>2. CASE UNCHANGED <<vars, spinMult>>
  <2>1. ControlWake' = ControlWake /\ ControlFlying' = ControlFlying
    BY <1>2 DEF vars, ControlWake, ControlFlying
  <2> QED
    BY <1>2, <2>1, ControlStutters DEF vars, ControlStep, WakeBound
<1>3. CASE Next
  <2>1. UNCHANGED spinMult /\ (System \/ \E p \in Packets : SendMessage(p))
    BY <1>3 DEF Next
  <2>2. ASSUME NEW r \in Routers, RouterStep(r) PROVE ControlStep
    BY <1>1, <2>1, <2>2, ReceiveControl, HaltControl, DrainControls, NoSpinControl,
       AllocateControl DEF RouterStep
  <2> QED
    BY <1>1, <2>1, <2>2, SendControl, TickControl, InterfaceControl DEF System
<1> QED
  BY <1>2, <1>3

(***************************************************************************)
(* The network, with everything it carries, follows the halt-and-drain     *)
(* protocol of Router::wakeup in every step: what is proved of DrainControl *)
(* is true of it.                                                          *)
(***************************************************************************)
THEOREM NetworkImplementsControl == DrainFits => (Spec => ImplementsControl)
<1> SUFFICES ASSUME DrainFits PROVE Spec => ImplementsControl
  OBVIOUS
<1>1. Init => WakeBound /\ Control!Init
  <2> SUFFICES ASSUME Init PROVE WakeBound /\ Control!Init
    OBVIOUS
  <2>1. WakeBound
    BY DEF Init, WakeBound
  <2>2. ControlWake = [r \in Routers |-> {}]
    BY RouterConsumer DEF Init, ControlWake
  <2>3. ControlFlying = [x \in QuietChannels |-> {}]
    <3>1. \A x \in QuietChannels : ControlFlying[x] = {}
      BY QuietChannel DEF Init, ArrivalDelays
    <3>2. ControlFlying = [x \in QuietChannels |-> ControlFlying[x]]
      BY DEF ControlFlying
    <3> QED
      BY <3>1, <3>2, Zenon
  <2> QED
    BY <2>1, <2>2, <2>3, Zenon DEF Init, Control!Init, Control!Idle, Idle, ControlWake, ControlFlying
<1>2. NetworkInv /\ WakeBound /\ [Next]_<<vars, spinMult>> =>
        WakeBound' /\ [Control!Next]_(Control!vars)
  BY ControlNext DEF ControlStep
<1> QED
  BY <1>1, <1>2, NetworkInvariant, PTL DEF Spec, ImplementsControl, Control!Spec

-----------------------------------------------------------------------------
(***************************************************************************)
(* PacketConservation.  A layout is a function Q from places to sequences  *)
(* of packets, with the packets F not sent yet and the packets D           *)
(* delivered.  These lemmas are about layouts alone: what the steps of the *)
(* network do to them is taken from the actions further down.              *)
(***************************************************************************)
Held(Q, F, D, x, i, p) ==
  \/ x \in DOMAIN Q /\ i \in 1 .. Len(Q[x]) /\ Q[x][i] = p
  \/ x = <<>> /\ i = 0 /\ p \in F
  \/ x = <<>> /\ i = -1 /\ p \in D

OnceHeld(Q, F, D, p) ==
  \E x, i : /\ Held(Q, F, D, x, i, p)
            /\ \A y, j : Held(Q, F, D, y, j, p) => y = x /\ j = i

\* A place that holds the packet, and the only one.
LEMMA OnlyThere ==
  ASSUME NEW Q, NEW F, NEW D, NEW p, NEW x, NEW i, Held(Q, F, D, x, i, p),
         \A y, j : Held(Q, F, D, y, j, p) => y = x /\ j = i
  PROVE  OnceHeld(Q, F, D, p)
<1> SUFFICES \E y, j : /\ Held(Q, F, D, y, j, p)
                      /\ \A z, k : Held(Q, F, D, z, k, p) => z = y /\ k = j
  BY DEF OnceHeld
<1> WITNESS x, i
<1> QED
  OBVIOUS

Layout(Q) == \A x \in DOMAIN Q : Q[x] \in Seq(Packets)

\* What Append does to a sequence.
LEMMA Extended ==
  ASSUME NEW S, NEW q \in Seq(S), NEW e \in S
  PROVE  /\ Append(q, e) \in Seq(S) /\ Len(q) \in Nat
         /\ Len(Append(q, e)) = Len(q) + 1
         /\ Append(q, e)[Len(q) + 1] = e
         /\ \A i \in 1 .. Len(q) : Append(q, e)[i] = q[i]
  OBVIOUS

\* Q2 is Q after the heads of the queues S have moved to the ends of the
\* queues mv[x], all at once.
HeadsMoved(Q, S, mv, Q2) ==
  /\ DOMAIN Q2 = DOMAIN Q /\ S \subseteq DOMAIN Q
  /\ \A x \in S : Q[x] # <<>> /\ mv[x] \in DOMAIN Q \ S
  /\ \A x, y \in S : mv[x] = mv[y] => x = y
  /\ \A x \in S : Q2[x] = Tail(Q[x]) /\ Q2[mv[x]] = Append(Q[mv[x]], Head(Q[x]))
  /\ \A x \in DOMAIN Q : x \notin S /\ (\A y \in S : x # mv[y]) => Q2[x] = Q[x]

\* Moving heads keeps every packet in one place.
LEMMA HeadsMove ==
  ASSUME NEW Q, NEW F, NEW D, NEW S, NEW mv, NEW Q2, NEW p,
         Layout(Q), HeadsMoved(Q, S, mv, Q2), OnceHeld(Q, F, D, p)
  PROVE  OnceHeld(Q2, F, D, p)
<1> DEFINE Old(x, i) == Held(Q, F, D, x, i, p)
           New(x, i) == Held(Q2, F, D, x, i, p)
           To(z, k, y, j) ==
             \/ z \in S /\ k = 1 /\ y = mv[z] /\ j = Len(Q[mv[z]]) + 1
             \/ z \in S /\ k > 1 /\ y = z /\ j = k - 1
             \/ ~(z \in S /\ k >= 1) /\ y = z /\ j = k
<1>1. ASSUME NEW x \in S
      PROVE  /\ x \in DOMAIN Q /\ mv[x] \in DOMAIN Q /\ mv[x] \notin S
             /\ Len(Q[x]) \in Nat /\ Len(Q[x]) >= 1 /\ Len(Q2[x]) = Len(Q[x]) - 1
             /\ \A i \in 1 .. Len(Q[x]) - 1 : Q2[x][i] = Q[x][i + 1]
             /\ Len(Q[mv[x]]) \in Nat /\ Len(Q2[mv[x]]) = Len(Q[mv[x]]) + 1
             /\ Q2[mv[x]][Len(Q[mv[x]]) + 1] = Q[x][1]
             /\ \A i \in 1 .. Len(Q[mv[x]]) : Q2[mv[x]][i] = Q[mv[x]][i]
  <2>1. /\ x \in DOMAIN Q /\ mv[x] \in DOMAIN Q /\ mv[x] \notin S /\ Q[x] # <<>>
        /\ Q[x] \in Seq(Packets) /\ Q[mv[x]] \in Seq(Packets)
        /\ Q2[x] = Tail(Q[x]) /\ Q2[mv[x]] = Append(Q[mv[x]], Head(Q[x]))
    BY DEF HeadsMoved, Layout
  <2>2. /\ Head(Q[x]) \in Packets /\ Head(Q[x]) = Q[x][1]
        /\ Len(Q[x]) \in Nat /\ Len(Q[x]) >= 1 /\ Len(Tail(Q[x])) = Len(Q[x]) - 1
        /\ \A i \in 1 .. Len(Q[x]) - 1 : Tail(Q[x])[i] = Q[x][i + 1]
    BY <2>1, Taken
  <2> QED
    BY <2>1, <2>2, Extended
<1>2. ASSUME NEW x \in DOMAIN Q, x \notin S, \A y \in S : x # mv[y]
      PROVE  Q2[x] = Q[x] /\ Len(Q[x]) \in Nat
  BY <1>2 DEF HeadsMoved, Layout
<1>3. DOMAIN Q2 = DOMAIN Q /\ \A x, y \in S : mv[x] = mv[y] => x = y
  BY DEF HeadsMoved
<1>4. ASSUME NEW y, NEW j, New(y, j)
      PROVE  \E z, k : Old(z, k) /\ To(z, k, y, j)
  <2>1. CASE y = <<>> /\ (j = 0 \/ j = -1) /\ Old(y, j)
    BY <2>1
  <2>2. CASE y \in DOMAIN Q /\ j \in 1 .. Len(Q2[y]) /\ Q2[y][j] = p
    <3>1. CASE y \in S
      <4>1. j + 1 \in 1 .. Len(Q[y]) /\ j + 1 > 1 /\ (j + 1) - 1 = j /\ Q[y][j + 1] = p
        BY <1>1, <2>2, <3>1
      <4>2. Old(y, j + 1) /\ To(y, j + 1, y, j)
        BY <2>2, <3>1, <4>1 DEF Held
      <4> QED
        BY <4>2
    <3>2. CASE \E z \in S : y = mv[z]
      <4> PICK z \in S : y = mv[z]
        BY <3>2
      <4>1. CASE j = Len(Q[y]) + 1
        <5>1. Old(z, 1)
          BY <1>1, <2>2, <4>1 DEF Held
        <5>2. To(z, 1, y, j)
          BY <4>1
        <5> QED
          BY <5>1, <5>2
      <4>2. CASE j # Len(Q[y]) + 1
        <5>1. j \in 1 .. Len(Q[y]) /\ Q[y][j] = p /\ y \notin S
          BY <1>1, <2>2, <4>2
        <5>2. Old(y, j) /\ To(y, j, y, j)
          BY <2>2, <5>1 DEF Held
        <5> QED
          BY <5>2
      <4> QED
        BY <4>1, <4>2
    <3>3. CASE y \notin S /\ \A z \in S : y # mv[z]
      <4>1. Old(y, j) /\ To(y, j, y, j)
        BY <1>2, <2>2, <3>3 DEF Held
      <4> QED
        BY <4>1
    <3> QED
      BY <3>1, <3>2, <3>3
  <2> QED
    BY <1>3, <1>4, <2>1, <2>2 DEF Held
<1>5. PICK x, i : Old(x, i) /\ \A y, j : Old(y, j) => y = x /\ j = i
  BY DEF OnceHeld
<1>6. \E y, j : New(y, j) /\ To(x, i, y, j)
  <2>1. CASE x = <<>> /\ (i = 0 \/ i = -1) /\ New(x, i)
    BY <2>1
  <2>2. CASE x \in DOMAIN Q /\ i \in 1 .. Len(Q[x]) /\ Q[x][i] = p
    <3>1. CASE x \in S /\ i = 1
      <4>1. New(mv[x], Len(Q[mv[x]]) + 1)
        BY <1>1, <1>3, <2>2, <3>1 DEF Held
      <4> QED
        BY <3>1, <4>1
    <3>2. CASE x \in S /\ i # 1
      <4>1. i \in Int /\ i > 1 /\ i - 1 \in 1 .. Len(Q[x]) - 1 /\ (i - 1) + 1 = i
        BY <1>1, <2>2, <3>2
      <4>2. New(x, i - 1)
        BY <1>1, <1>3, <2>2, <3>2, <4>1 DEF Held
      <4> QED
        BY <3>2, <4>1, <4>2
    <3>3. CASE x \notin S
      <4>1. CASE \E z \in S : x = mv[z]
        <5>1. New(x, i)
          BY <1>1, <1>3, <2>2, <4>1 DEF Held
        <5> QED
          BY <3>3, <5>1
      <4>2. CASE \A z \in S : x # mv[z]
        <5>1. New(x, i)
          BY <1>2, <1>3, <2>2, <3>3, <4>2 DEF Held
        <5> QED
          BY <3>3, <5>1
      <4> QED
        BY <4>1, <4>2
    <3> QED
      BY <3>1, <3>2, <3>3
  <2> QED
    BY <1>5, <2>1, <2>2 DEF Held
<1>7. PICK y, j : New(y, j) /\ To(x, i, y, j)
  BY <1>6
<1>8. ASSUME NEW z, NEW k, New(z, k) PROVE z = y /\ k = j
  <2>1. \E u, v : Old(u, v) /\ To(u, v, z, k)
    BY <1>4, <1>8
  <2>2. To(x, i, z, k)
    BY <1>5, <2>1
  <2>3. i \in Int
    BY <1>5 DEF Held
  <2> HIDE DEF Old, New
  <2> QED
    BY <1>7, <2>2, <2>3
<1> QED
  BY <1>7, <1>8, OnlyThere
\* Packet q of F has joined queue b.
Joined(Q, F, b, q, Q2, F2) ==
  /\ DOMAIN Q2 = DOMAIN Q /\ b \in DOMAIN Q /\ q \in F /\ F2 = F \ {q}
  /\ Q2[b] = Append(Q[b], q)
  /\ \A x \in DOMAIN Q : x # b => Q2[x] = Q[x]

\* A packet that is not sent yet joins a queue, and is nowhere else.
LEMMA PacketJoins ==
  ASSUME NEW Q, NEW F, NEW D, NEW b, NEW q \in Packets, NEW Q2, NEW F2, NEW p,
         Layout(Q), Joined(Q, F, b, q, Q2, F2), OnceHeld(Q, F, D, p)
  PROVE  OnceHeld(Q2, F2, D, p)
<1> DEFINE Old(x, i) == Held(Q, F, D, x, i, p)
           New(x, i) == Held(Q2, F2, D, x, i, p)
           end == Len(Q[b]) + 1
<1>1. /\ Len(Q[b]) \in Nat /\ Len(Q2[b]) = end
      /\ Q2[b][end] = q
      /\ \A i \in 1 .. Len(Q[b]) : Q2[b][i] = Q[b][i]
  BY Extended DEF Joined, Layout
<1>2. ASSUME NEW y, NEW j, New(y, j)
      PROVE  \/ Old(y, j) /\ ~(p = q /\ y = <<>> /\ j = 0)
             \/ p = q /\ y = b /\ j = end
  <2>1. CASE y = <<>> /\ j = 0 /\ p \in F2
    BY <2>1 DEF Held, Joined
  <2>2. CASE y = <<>> /\ j = -1 /\ p \in D
    BY <2>2 DEF Held
  <2>3. CASE y \in DOMAIN Q /\ j \in 1 .. Len(Q2[y]) /\ Q2[y][j] = p
    <3>1. CASE y = b
      BY <1>1, <2>3, <3>1 DEF Held
    <3>2. CASE y # b
      BY <2>3, <3>2 DEF Held, Joined
    <3> QED
      BY <3>1, <3>2
  <2> QED
    BY <1>2, <2>1, <2>2, <2>3 DEF Held, Joined
<1>3. PICK x, i : Old(x, i) /\ \A y, j : Old(y, j) => y = x /\ j = i
  BY DEF OnceHeld
<1>4. CASE p = q
  <2>1. Old(<<>>, 0)
    BY <1>4 DEF Held, Joined
  <2>2. New(b, end)
    BY <1>1, <1>4 DEF Held, Joined
  <2>3. \A y, j : New(y, j) => y = b /\ j = end
    BY <1>2, <1>3, <1>4, <2>1
  <2> QED
    BY <2>2, <2>3, OnlyThere
<1>5. CASE p # q
  <2>1. New(x, i)
    <3>1. CASE x \in DOMAIN Q /\ i \in 1 .. Len(Q[x]) /\ Q[x][i] = p
      <4>1. CASE x = b
        BY <1>1, <3>1, <4>1 DEF Held, Joined
      <4>2. CASE x # b
        BY <3>1, <4>2 DEF Held, Joined
      <4> QED
        BY <4>1, <4>2
    <3> QED
      BY <1>3, <1>5, <3>1 DEF Held, Joined
  <2>2. \A y, j : New(y, j) => y = x /\ j = i
    BY <1>2, <1>3, <1>5
  <2> QED
    BY <2>1, <2>2, OnlyThere
<1> QED
  BY <1>4, <1>5

\* The head of queue a has been delivered.
Delivered(Q, D, a, Q2, D2) ==
  /\ DOMAIN Q2 = DOMAIN Q /\ a \in DOMAIN Q /\ Q[a] # <<>> /\ D2 = D \cup {Head(Q[a])}
  /\ Q2[a] = Tail(Q[a])
  /\ \A x \in DOMAIN Q : x # a => Q2[x] = Q[x]

\* The head of a queue is delivered and leaves the queue.
LEMMA PacketLeaves ==
  ASSUME NEW Q, NEW F, NEW D, NEW a, NEW Q2, NEW D2, NEW p,
         Layout(Q), Delivered(Q, D, a, Q2, D2), OnceHeld(Q, F, D, p)
  PROVE  OnceHeld(Q2, F, D2, p)
<1>1. /\ Head(Q[a]) = Q[a][1]
      /\ Len(Q[a]) \in Nat /\ Len(Q[a]) >= 1 /\ Len(Q2[a]) = Len(Q[a]) - 1
      /\ \A i \in 1 .. Len(Q[a]) - 1 : Q2[a][i] = Q[a][i + 1]
  BY Taken DEF Delivered, Layout
<1> DEFINE Old(x, i) == Held(Q, F, D, x, i, p)
           New(x, i) == Held(Q2, F, D2, x, i, p)
           To(z, k, y, j) ==
             \/ z = a /\ k = 1 /\ y = <<>> /\ j = -1
             \/ z = a /\ k > 1 /\ y = z /\ j = k - 1
             \/ ~(z = a /\ k >= 1) /\ y = z /\ j = k
<1>2. ASSUME NEW y, NEW j, New(y, j)
      PROVE  \E z, k : Old(z, k) /\ To(z, k, y, j)
  <2>1. CASE y = <<>> /\ j = 0 /\ p \in F
    <3>1. Old(y, j) /\ To(y, j, y, j)
      BY <2>1 DEF Held, Delivered
    <3> QED
      BY <3>1
  <2>2. CASE y = <<>> /\ j = -1 /\ p \in D
    <3>1. Old(y, j) /\ To(y, j, y, j)
      BY <2>2 DEF Held, Delivered
    <3> QED
      BY <3>1
  <2>3. CASE y = <<>> /\ j = -1 /\ p = Head(Q[a])
    <3>1. Old(a, 1) /\ To(a, 1, y, j)
      BY <1>1, <2>3 DEF Held, Delivered
    <3> QED
      BY <3>1
  <2>4. CASE y \in DOMAIN Q /\ j \in 1 .. Len(Q2[y]) /\ Q2[y][j] = p
    <3>1. CASE y = a
      <4>1. j + 1 \in 1 .. Len(Q[a]) /\ j + 1 > 1 /\ (j + 1) - 1 = j /\ Q[a][j + 1] = p
        BY <1>1, <2>4, <3>1
      <4>2. Old(a, j + 1) /\ To(a, j + 1, y, j)
        BY <3>1, <4>1 DEF Held, Delivered
      <4> QED
        BY <4>2
    <3>2. CASE y # a
      <4>1. Old(y, j) /\ To(y, j, y, j)
        BY <2>4, <3>2 DEF Held, Delivered
      <4> QED
        BY <4>1
    <3> QED
      BY <3>1, <3>2
  <2> QED
    BY <1>2, <2>1, <2>2, <2>3, <2>4 DEF Held, Delivered
<1>3. PICK x, i : Old(x, i) /\ \A y, j : Old(y, j) => y = x /\ j = i
  BY DEF OnceHeld
<1>4. \E y, j : New(y, j) /\ To(x, i, y, j)
  <2>1. CASE x = <<>> /\ (i = 0 \/ i = -1)
    <3>1. (p \in F /\ i = 0) \/ (p \in D /\ i = -1)
      BY <1>3, <2>1 DEF Held, Delivered
    <3>2. New(x, i) /\ To(x, i, x, i)
      BY <2>1, <3>1 DEF Held, Delivered
    <3> QED
      BY <3>2
  <2>2. CASE x \in DOMAIN Q /\ i \in 1 .. Len(Q[x]) /\ Q[x][i] = p
    <3>1. CASE x = a /\ i = 1
      <4>1. New(<<>>, -1) /\ To(x, i, <<>>, -1)
        BY <1>1, <2>2, <3>1 DEF Held, Delivered
      <4> QED
        BY <4>1
    <3>2. CASE x = a /\ i # 1
      <4>1. i \in Int /\ i > 1 /\ i - 1 \in 1 .. Len(Q[x]) - 1 /\ (i - 1) + 1 = i
        BY <1>1, <2>2, <3>2
      <4>2. New(x, i - 1)
        BY <1>1, <2>2, <3>2, <4>1 DEF Held, Delivered
      <4> QED
        BY <3>2, <4>1, <4>2
    <3>3. CASE x # a
      <4>1. New(x, i) /\ To(x, i, x, i)
        BY <2>2, <3>3 DEF Held, Delivered
      <4> QED
        BY <4>1
    <3> QED
      BY <3>1, <3>2, <3>3
  <2> QED
    BY <1>3, <2>1, <2>2 DEF Held, Delivered
<1>5. PICK y, j : New(y, j) /\ To(x, i, y, j)
  BY <1>4
<1>6. ASSUME NEW z, NEW k, New(z, k) PROVE z = y /\ k = j
  <2>1. \E u, v : Old(u, v) /\ To(u, v, z, k)
    BY <1>2, <1>6
  <2>2. To(x, i, z, k)
    BY <1>3, <2>1
  <2>3. i \in Int
    BY <1>3 DEF Held, Delivered
  <2> HIDE DEF Old, New
  <2> QED
    BY <1>5, <2>2, <2>3
<1>7. Held(Q2, F, D2, y, j, p) /\ \A z, k : Held(Q2, F, D2, z, k, p) => z = y /\ k = j
  BY <1>5, <1>6
<1> HIDE DEF Old, New, To
<1> QED
  BY <1>7, OnlyThere, Zenon

\* Every place has the queue of another one, or its own.
Turned(Q, turn, Q2) ==
  /\ DOMAIN Q2 = DOMAIN Q
  /\ \A x \in DOMAIN Q : turn[x] \in DOMAIN Q /\ Q2[x] = Q[turn[x]]
  /\ \A x \in DOMAIN Q : \E y \in DOMAIN Q : turn[y] = x
  /\ \A x, y \in DOMAIN Q : turn[x] = turn[y] => x = y

\* Queues that change places take their packets along.
LEMMA QueuesTurn ==
  ASSUME NEW Q, NEW F, NEW D, NEW Q2, NEW turn, NEW p,
         Turned(Q, turn, Q2), OnceHeld(Q, F, D, p)
  PROVE  OnceHeld(Q2, F, D, p)
<1>1. PICK x, i : /\ Held(Q, F, D, x, i, p)
                  /\ \A y, j : Held(Q, F, D, y, j, p) => y = x /\ j = i
  BY DEF OnceHeld
<1>2. CASE x = <<>> /\ ((i = 0 /\ p \in F) \/ (i = -1 /\ p \in D))
  <2>1. Held(Q2, F, D, x, i, p)
    BY <1>2 DEF Held, Turned
  <2>2. ASSUME NEW y, NEW j, Held(Q2, F, D, y, j, p) PROVE y = x /\ j = i
    <3>1. CASE y \in DOMAIN Q /\ j \in 1 .. Len(Q2[y]) /\ Q2[y][j] = p
      <4>1. Held(Q, F, D, turn[y], j, p)
        BY <3>1 DEF Held, Turned
      <4>2. j = i /\ j \in Int /\ j >= 1
        BY <1>1, <3>1, <4>1
      <4> QED
        BY <1>2, <4>2
    <3>2. CASE Held(Q, F, D, y, j, p)
      BY <1>1, <3>2
    <3> QED
      BY <2>2, <3>1, <3>2 DEF Held, Turned
  <2> QED
    BY <2>1, <2>2, OnlyThere
<1>3. CASE x \in DOMAIN Q /\ i \in 1 .. Len(Q[x]) /\ Q[x][i] = p
  <2>1. PICK z \in DOMAIN Q : turn[z] = x
    BY <1>3 DEF Turned
  <2>2. Held(Q2, F, D, z, i, p)
    BY <1>3, <2>1 DEF Held, Turned
  <2>3. ASSUME NEW y, NEW j, Held(Q2, F, D, y, j, p) PROVE y = z /\ j = i
    <3>1. CASE y \in DOMAIN Q /\ j \in 1 .. Len(Q2[y]) /\ Q2[y][j] = p
      <4>1. Held(Q, F, D, turn[y], j, p)
        BY <3>1 DEF Held, Turned
      <4> QED
        BY <1>1, <2>1, <3>1, <4>1 DEF Turned
    <3>2. CASE y = <<>> /\ ((j = 0 /\ p \in F) \/ (j = -1 /\ p \in D))
      <4>1. Held(Q, F, D, y, j, p)
        BY <3>2 DEF Held, Turned
      <4>2. j = i /\ i \in Int /\ i >= 1
        BY <1>1, <1>3, <4>1
      <4>3. i # 0 /\ i # -1
        BY <4>2
      <4> QED
        BY <3>2, <4>2, <4>3
    <3> QED
      BY <2>3, <3>1, <3>2 DEF Held, Turned
  <2> QED
    BY <2>2, <2>3, OnlyThere
<1> QED
  BY <1>1, <1>2, <1>3 DEF Held, Turned

\* What the remainder is: the dividend less a multiple of the divisor.
LEMMA Remainder ==
  ASSUME NEW N \in Nat \ {0}
  PROVE  /\ \A q \in Int, r \in 0 .. N - 1 : (N * q + r) % N = r
         /\ \A a \in Int : \E q \in Int : a - N * q \in 0 .. N - 1 /\ a % N = a - N * q
<1>1. ASSUME NEW q \in Int, NEW r \in 0 .. N - 1 PROVE (N * q + r) % N = r
  BY SMTT(30)
<1>2. ASSUME NEW a \in Int
      PROVE  \E q \in Int : a - N * q \in 0 .. N - 1 /\ a % N = a - N * q
  <2> DEFINE q == a \div N
             m == N * q
  <2>1. q \in Int
    OBVIOUS
  <2> HIDE DEF q
  <2>2. N * q <= a /\ a < N * (q + 1)
    BY SMTT(30) DEF q
  <2>3. m \in Int /\ N * (q + 1) = m + N
    BY <2>1
  <2>4. m <= a /\ a < m + N
    BY <2>2, <2>3
  <2> HIDE DEF m
  <2>5. a - m \in 0 .. N - 1 /\ m + (a - m) = a
    BY <2>3, <2>4
  <2>6. (m + (a - m)) % N = a - m
    BY <1>1, <2>1, <2>5 DEF m
  <2> QED
    BY <2>1, <2>5, <2>6 DEF m
<1> QED
  BY <1>1, <1>2

\* The multiples of N are N apart.
LEMMA NextMultiple ==
  ASSUME NEW N \in Nat \ {0}, NEW k \in Int, N * k < N, N * k > 0 - N
  PROVE  k = 0
<1>1. CASE k >= 1
  <2>1. k - 1 \in Nat /\ N * (k - 1) \in Int /\ N * k \in Int
    BY <1>1
  <2>2. N * (k - 1) >= 0 /\ N * k = N * (k - 1) + N
    BY <2>1
  <2> QED
    BY <2>1, <2>2
<1>2. CASE k <= 0 - 1
  <2>1. 0 - (k + 1) \in Nat /\ N * (0 - (k + 1)) \in Int /\ N * k \in Int
    BY <1>2
  <2>2. N * (0 - (k + 1)) >= 0 /\ N * k = 0 - (N * (0 - (k + 1))) - N
    BY <2>1
  <2> QED
    BY <2>1, <2>2
<1> QED
  BY <1>1, <1>2

\* Any number of spins in a row is a permutation of the positions of the
\* drain path.
LEMMA SpinsPermute ==
  ASSUME NEW n \in Nat
  PROVE  /\ \A i, k \in 1 .. RingSize : SpunFrom(i, n) = SpunFrom(k, n) => i = k
         /\ \A j \in 1 .. RingSize : \E i \in 1 .. RingSize : SpunFrom(i, n) = j
<1> DEFINE N == RingSize
<1>1. N \in Nat \ {0}
  BY Ring
<1> HIDE DEF N
<1>2. ASSUME NEW i \in 1 .. N, NEW k \in 1 .. N, (i - 1 - n) % N = (k - 1 - n) % N
      PROVE  i = k
  <2>1. i - 1 - n \in Int /\ k - 1 - n \in Int
    BY <1>1
  <2>2. PICK u \in Int : (i - 1 - n) % N = (i - 1 - n) - N * u
    BY <1>1, <2>1, Remainder
  <2>3. PICK w \in Int : (k - 1 - n) % N = (k - 1 - n) - N * w
    BY <1>1, <2>1, Remainder
  <2>4. N * u \in Int /\ N * w \in Int /\ N * (u - w) = N * u - N * w /\ u - w \in Int
    BY <1>1
  <2>5. N * (u - w) = i - k
    BY <1>1, <1>2, <2>1, <2>2, <2>3, <2>4
  <2>6. i - k < N /\ i - k > 0 - N
    BY <1>1
  <2>7. u - w = 0
    BY <1>1, <2>4, <2>5, <2>6, NextMultiple
  <2>8. N * (u - w) = 0
    BY <1>1, <2>7
  <2> QED
    BY <2>5, <2>8
<1>3. ASSUME NEW j \in 1 .. N
      PROVE  \E i \in 1 .. N : ((i - 1 - n) % N) + 1 = j
  <2>1. j - 1 + n \in Int /\ j - 1 \in 0 .. N - 1
    BY <1>1
  <2>2. PICK q \in Int : (j - 1 + n) - N * q \in 0 .. N - 1
    BY <1>1, <2>1, Remainder
  <2> DEFINE i == (j - 1 + n) - N * q + 1
  <2>3. N * q \in Int /\ 0 - q \in Int /\ N * (0 - q) = 0 - N * q
    BY <1>1
  <2>4. i \in 1 .. N /\ i - 1 - n = N * (0 - q) + (j - 1)
    BY <1>1, <2>1, <2>2, <2>3
  <2>5. (N * (0 - q) + (j - 1)) % N = j - 1
    BY <1>1, <2>1, <2>3, Remainder
  <2> HIDE DEF i
  <2> QED
    BY <2>4, <2>5
<1>4. ASSUME NEW i \in 1 .. N
      PROVE  SpunFrom(i, n) = ((i - 1 - n) % N) + 1 /\ (i - 1 - n) % N \in Int
  BY <1>1 DEF SpunFrom, N
<1>5. \A i, k \in 1 .. N : SpunFrom(i, n) = SpunFrom(k, n) => i = k
  <2> TAKE i, k \in 1 .. N
  <2> HAVE SpunFrom(i, n) = SpunFrom(k, n)
  <2>1. (i - 1 - n) % N = (k - 1 - n) % N
    BY <1>4
  <2> QED
    BY <1>2, <2>1
<1>6. \A j \in 1 .. N : \E i \in 1 .. N : SpunFrom(i, n) = j
  BY <1>3, <1>4
<1> QED
  BY <1>5, <1>6 DEF N

-----------------------------------------------------------------------------
\* The packets of a queue of messages, of flits, or of flits on a link.
PacketsOf(q) == [i \in 1 .. Len(q) |-> q[i].pkt]

LEMMA PacketQueues ==
  ASSUME NEW S, \A s \in S : s.pkt \in Packets, NEW q \in Seq(S)
  PROVE  /\ PacketsOf(q) \in Seq(Packets) /\ Len(PacketsOf(q)) = Len(q)
         /\ \A i \in 1 .. Len(q) : PacketsOf(q)[i] = q[i].pkt
         /\ PacketsOf(q) = <<>> <=> q = <<>>
         /\ q # <<>> => /\ Head(PacketsOf(q)) = Head(q).pkt
                        /\ PacketsOf(Tail(q)) = Tail(PacketsOf(q))
         /\ \A e \in S : PacketsOf(Append(q, e)) = Append(PacketsOf(q), e.pkt)
<1>1. Len(q) \in Nat /\ \A i \in 1 .. Len(q) : q[i] \in S
  BY ElementOfSeq
<1>2. PacketsOf(q) \in Seq(Packets) /\ Len(PacketsOf(q)) = Len(q)
  BY <1>1 DEF PacketsOf
<1>3. \A i \in 1 .. Len(q) : PacketsOf(q)[i] = q[i].pkt
  BY DEF PacketsOf
<1>4. PacketsOf(q) = <<>> <=> q = <<>>
  BY <1>1, <1>2
<1>5. ASSUME q # <<>>
      PROVE  /\ Head(PacketsOf(q)) = Head(q).pkt
             /\ PacketsOf(Tail(q)) = Tail(PacketsOf(q))
  <2>1. /\ Len(q) >= 1 /\ Len(Tail(q)) = Len(q) - 1 /\ Tail(q) \in Seq(S) /\ Head(q) = q[1]
        /\ \A i \in 1 .. Len(q) - 1 : Tail(q)[i] = q[i + 1] /\ i + 1 \in 1 .. Len(q)
    BY <1>5, Taken
  <2>2. /\ Len(Tail(PacketsOf(q))) = Len(q) - 1 /\ Tail(PacketsOf(q)) \in Seq(Packets)
        /\ Head(PacketsOf(q)) = PacketsOf(q)[1]
        /\ \A i \in 1 .. Len(q) - 1 : Tail(PacketsOf(q))[i] = PacketsOf(q)[i + 1]
    BY <1>2, <1>4, <1>5, Taken
  <2>3. /\ PacketsOf(Tail(q)) \in Seq(Packets) /\ Len(PacketsOf(Tail(q))) = Len(q) - 1
        /\ \A i \in 1 .. Len(q) - 1 : PacketsOf(Tail(q))[i] = Tail(q)[i].pkt
    <3>1. \A i \in 1 .. Len(q) - 1 : Tail(q)[i].pkt \in Packets
      BY <1>1, <2>1
    <3> QED
      BY <1>1, <2>1, <3>1 DEF PacketsOf
  <2>4. \A i \in 1 .. Len(q) - 1 : PacketsOf(Tail(q))[i] = Tail(PacketsOf(q))[i]
    BY <1>3, <2>1, <2>2, <2>3
  <2>5. PacketsOf(Tail(q)) = Tail(PacketsOf(q))
    BY <2>2, <2>3, <2>4, SeqEqual
  <2> QED
    BY <1>1, <1>3, <2>1, <2>2, <2>5
<1>6. ASSUME NEW e \in S PROVE PacketsOf(Append(q, e)) = Append(PacketsOf(q), e.pkt)
  <2>1. /\ Len(Append(q, e)) = Len(q) + 1 /\ Append(q, e)[Len(q) + 1] = e
        /\ \A i \in 1 .. Len(q) : Append(q, e)[i] = q[i]
    BY Extended
  <2>2. /\ Append(PacketsOf(q), e.pkt) \in Seq(Packets)
        /\ Len(Append(PacketsOf(q), e.pkt)) = Len(q) + 1
        /\ Append(PacketsOf(q), e.pkt)[Len(q) + 1] = e.pkt
        /\ \A i \in 1 .. Len(q) : Append(PacketsOf(q), e.pkt)[i] = q[i].pkt
    BY <1>2, <1>3, Extended
  <2>3. \A i \in 1 .. Len(q) + 1 : i \in 1 .. Len(q) \/ i = Len(q) + 1
    BY <1>1
  <2>4. /\ PacketsOf(Append(q, e)) \in Seq(Packets) /\ Len(PacketsOf(Append(q, e))) = Len(q) + 1
        /\ \A i \in 1 .. Len(q) + 1 : PacketsOf(Append(q, e))[i] = Append(q, e)[i].pkt
    <3>1. \A i \in 1 .. Len(q) + 1 : Append(q, e)[i].pkt \in Packets
      BY <1>1, <2>1, <2>3
    <3> QED
      BY <1>1, <2>1, <3>1 DEF PacketsOf
  <2>5. \A i \in 1 .. Len(q) + 1 : PacketsOf(Append(q, e))[i] = Append(PacketsOf(q), e.pkt)[i]
    BY <2>1, <2>2, <2>3, <2>4
  <2> QED
    BY <2>2, <2>4, <2>5, SeqEqual
<1> QED
  BY <1>2, <1>3, <1>4, <1>5, <1>6

MsgPlaces  == { <<"msg", n, v>> : n \in Routers, v \in Vnets }
NiPlaces   == { <<"ni", n, vc>> : n \in Routers, vc \in VCs }
BufPlaces  == { <<"buf", c, vc>> : c \in InPorts, vc \in VCs }
LinkPlaces == { <<"link", c, 0>> : c \in Chans }
Places     == MsgPlaces \cup NiPlaces \cup BufPlaces \cup LinkPlaces

\* The layout of given message queues, interface VCs, input VCs and links.
LayoutOf(M, N, B, P) ==
  [x \in Places |->
     CASE x[1] = "msg"  -> PacketsOf(M[x[2]][x[3]])
       [] x[1] = "ni"   -> N[x[2]][x[3]]
       [] x[1] = "buf"  -> PacketsOf(B[x[2]][x[3]])
       [] x[1] = "link" -> PacketsOf(P[x[2]])]

LEMMA LayoutPlaces ==
  ASSUME NEW M, NEW N, NEW B, NEW P
  PROVE  LET Q == LayoutOf(M, N, B, P)
         IN  /\ DOMAIN Q = Places
             /\ \A n \in Routers, v \in Vnets :
                  <<"msg", n, v>> \in Places /\ Q[<<"msg", n, v>>] = PacketsOf(M[n][v])
             /\ \A n \in Routers, vc \in VCs :
                  <<"ni", n, vc>> \in Places /\ Q[<<"ni", n, vc>>] = N[n][vc]
             /\ \A c \in InPorts, vc \in VCs :
                  <<"buf", c, vc>> \in Places /\ Q[<<"buf", c, vc>>] = PacketsOf(B[c][vc])
             /\ \A c \in Chans :
                  <<"link", c, 0>> \in Places /\ Q[<<"link", c, 0>>] = PacketsOf(P[c])
<1>1. \A n \in Routers, v \in Vnets : <<"msg", n, v>> \in Places
  BY DEF Places, MsgPlaces
<1>2. \A n \in Routers, vc \in VCs : <<"ni", n, vc>> \in Places
  BY DEF Places, NiPlaces
<1>3. \A c \in InPorts, vc \in VCs : <<"buf", c, vc>> \in Places
  BY DEF Places, BufPlaces
<1>4. \A c \in Chans : <<"link", c, 0>> \in Places
  BY DEF Places, LinkPlaces
<1> QED
  BY <1>1, <1>2, <1>3, <1>4 DEF LayoutOf

LEMMA PlaceKinds ==
  ASSUME NEW x \in Places
  PROVE  \/ \E n \in Routers, v \in Vnets : x = <<"msg", n, v>>
         \/ \E n \in Routers, vc \in VCs : x = <<"ni", n, vc>>
         \/ \E c \in InPorts, vc \in VCs : x = <<"buf", c, vc>>
         \/ \E c \in Chans : x = <<"link", c, 0>>
  BY DEF Places, MsgPlaces, NiPlaces, BufPlaces, LinkPlaces

Now == LayoutOf(msgq, nivc, inbuf, pipe)

Conserved == \A p \in Packets : OnceHeld(Now, fresh, delivered, p)

\* PacketQueues for the queues of the network.
LEMMA ItemQueues ==
  ASSUME NEW S \in {Transit, FlitRecord, MessageRecord}, NEW q \in Seq(S)
  PROVE  /\ PacketsOf(q) \in Seq(Packets) /\ Len(PacketsOf(q)) = Len(q)
         /\ \A i \in 1 .. Len(q) : PacketsOf(q)[i] = q[i].pkt
         /\ PacketsOf(q) = <<>> <=> q = <<>>
         /\ q # <<>> => /\ Head(PacketsOf(q)) = Head(q).pkt
                        /\ PacketsOf(Tail(q)) = Tail(PacketsOf(q))
         /\ \A e \in S : PacketsOf(Append(q, e)) = Append(PacketsOf(q), e.pkt)
         /\ PacketsOf(Closer(q)) = PacketsOf(q)
<1>1. \A s \in S : s.pkt \in Packets
  <2>1. CASE S = Transit
    BY <2>1 DEF Transit
  <2>2. CASE S = FlitRecord
    BY <2>2 DEF FlitRecord
  <2>3. CASE S = MessageRecord
    BY <2>3 DEF MessageRecord
  <2> QED
    BY <2>1, <2>2, <2>3
<1>2. /\ PacketsOf(q) \in Seq(Packets) /\ Len(PacketsOf(q)) = Len(q)
      /\ \A i \in 1 .. Len(q) : PacketsOf(q)[i] = q[i].pkt
      /\ PacketsOf(q) = <<>> <=> q = <<>>
      /\ q # <<>> => /\ Head(PacketsOf(q)) = Head(q).pkt
                     /\ PacketsOf(Tail(q)) = Tail(PacketsOf(q))
      /\ \A e \in S : PacketsOf(Append(q, e)) = Append(PacketsOf(q), e.pkt)
  BY <1>1, PacketQueues
<1>3. PacketsOf(Closer(q)) = PacketsOf(q)
  <2>1. Len(Closer(q)) = Len(q) /\ \A i \in 1 .. Len(q) : Closer(q)[i].pkt = q[i].pkt
    BY CloserItems
  <2> QED
    BY <2>1 DEF PacketsOf
<1> QED
  BY <1>2, <1>3

\* Now, place by place.
LEMMA NowPlaces ==
  ASSUME Typed
  PROVE  /\ DOMAIN Now = Places /\ Layout(Now)
         /\ \A n \in Routers, v \in Vnets :
              /\ <<"msg", n, v>> \in Places /\ Now[<<"msg", n, v>>] = PacketsOf(msgq[n][v])
              /\ msgq[n][v] \in Seq(MessageRecord)
         /\ \A n \in Routers, vc \in VCs :
              /\ <<"ni", n, vc>> \in Places /\ Now[<<"ni", n, vc>>] = nivc[n][vc]
              /\ nivc[n][vc] \in Seq(Packets)
         /\ \A c \in InPorts, vc \in VCs :
              /\ <<"buf", c, vc>> \in Places /\ Now[<<"buf", c, vc>>] = PacketsOf(inbuf[c][vc])
              /\ inbuf[c][vc] \in Seq(FlitRecord)
         /\ \A c \in Chans :
              /\ <<"link", c, 0>> \in Places /\ Now[<<"link", c, 0>>] = PacketsOf(pipe[c])
              /\ pipe[c] \in Seq(Transit)
<1>1. /\ DOMAIN Now = Places
      /\ \A n \in Routers, v \in Vnets :
           <<"msg", n, v>> \in Places /\ Now[<<"msg", n, v>>] = PacketsOf(msgq[n][v])
      /\ \A n \in Routers, vc \in VCs :
           <<"ni", n, vc>> \in Places /\ Now[<<"ni", n, vc>>] = nivc[n][vc]
      /\ \A c \in InPorts, vc \in VCs :
           <<"buf", c, vc>> \in Places /\ Now[<<"buf", c, vc>>] = PacketsOf(inbuf[c][vc])
      /\ \A c \in Chans :
           <<"link", c, 0>> \in Places /\ Now[<<"link", c, 0>>] = PacketsOf(pipe[c])
  BY LayoutPlaces DEF Now
<1>2. /\ \A n \in Routers, v \in Vnets : msgq[n][v] \in Seq(MessageRecord)
      /\ \A n \in Routers, vc \in VCs : nivc[n][vc] \in Seq(Packets)
      /\ \A c \in InPorts, vc \in VCs : inbuf[c][vc] \in Seq(FlitRecord)
      /\ \A c \in Chans : pipe[c] \in Seq(Transit)
  BY QueueTypes
<1>3. ASSUME NEW x \in Places PROVE Now[x] \in Seq(Packets)
  <2>1. CASE \E n \in Routers, v \in Vnets : x = <<"msg", n, v>>
    BY <1>1, <1>2, <2>1, ItemQueues
  <2>2. CASE \E n \in Routers, vc \in VCs : x = <<"ni", n, vc>>
    BY <1>1, <1>2, <2>2
  <2>3. CASE \E c \in InPorts, vc \in VCs : x = <<"buf", c, vc>>
    BY <1>1, <1>2, <2>3, ItemQueues
  <2>4. CASE \E c \in Chans : x = <<"link", c, 0>>
    BY <1>1, <1>2, <2>4, ItemQueues
  <2> QED
    BY <2>1, <2>2, <2>3, <2>4, PlaceKinds
<1>4. Layout(Now)
  BY <1>1, <1>3 DEF Layout
<1> QED
  BY <1>1, <1>2, <1>4

\* The same for the next state.
LEMMA NextPlaces ==
  /\ DOMAIN Now' = Places
  /\ \A n \in Routers, v \in Vnets : Now'[<<"msg", n, v>>] = PacketsOf(msgq'[n][v])
  /\ \A n \in Routers, vc \in VCs : Now'[<<"ni", n, vc>>] = nivc'[n][vc]
  /\ \A c \in InPorts, vc \in VCs : Now'[<<"buf", c, vc>>] = PacketsOf(inbuf'[c][vc])
  /\ \A c \in Chans : Now'[<<"link", c, 0>>] = PacketsOf(pipe'[c])
  BY LayoutPlaces DEF Now

\* A layout is known by what it has in every place.
LEMMA SameLayout ==
  ASSUME Typed,
         \A n \in Routers, v \in Vnets : PacketsOf(msgq'[n][v]) = PacketsOf(msgq[n][v]),
         \A n \in Routers, vc \in VCs : nivc'[n][vc] = nivc[n][vc],
         \A c \in InPorts, vc \in VCs : PacketsOf(inbuf'[c][vc]) = PacketsOf(inbuf[c][vc]),
         \A c \in Chans : PacketsOf(pipe'[c]) = PacketsOf(pipe[c])
  PROVE  \A x \in Places : Now'[x] = Now[x]
<1> TAKE x \in Places
<1>1. CASE \E n \in Routers, v \in Vnets : x = <<"msg", n, v>>
  BY <1>1, NowPlaces, NextPlaces
<1>2. CASE \E n \in Routers, vc \in VCs : x = <<"ni", n, vc>>
  BY <1>2, NowPlaces, NextPlaces
<1>3. CASE \E c \in InPorts, vc \in VCs : x = <<"buf", c, vc>>
  BY <1>3, NowPlaces, NextPlaces
<1>4. CASE \E c \in Chans : x = <<"link", c, 0>>
  BY <1>4, NowPlaces, NextPlaces
<1> QED
  BY <1>1, <1>2, <1>3, <1>4, PlaceKinds

\* A step that leaves every place its packets.
LEMMA ConservedStill ==
  ASSUME Typed, Conserved, \A x \in Places : Now'[x] = Now[x], UNCHANGED <<fresh, delivered>>
  PROVE  Conserved'
<1>1. HeadsMoved(Now, {}, <<>>, Now')
  BY NowPlaces, NextPlaces DEF HeadsMoved
<1>2. ASSUME NEW p \in Packets PROVE OnceHeld(Now', fresh', delivered', p)
  <2>1. OnceHeld(Now, fresh, delivered, p) /\ Layout(Now)
    BY NowPlaces DEF Conserved
  <2>2. OnceHeld(Now', fresh, delivered, p)
    BY <1>1, <2>1, HeadsMove
  <2> QED
    BY <2>2
<1> QED
  BY <1>2 DEF Conserved

LEMMA TickConserves ==
  ASSUME Typed, Conserved, Tick
  PROVE  Conserved'
<1>1. /\ \A n \in Routers, v \in Vnets : msgq'[n][v] = Closer(msgq[n][v])
      /\ \A c \in InPorts, vc \in VCs : inbuf'[c][vc] = Closer(inbuf[c][vc])
      /\ \A c \in Chans : pipe'[c] = Closer(pipe[c])
      /\ UNCHANGED <<nivc, fresh, delivered>>
  BY DEF Tick
<1>2. /\ \A n \in Routers, v \in Vnets : PacketsOf(msgq'[n][v]) = PacketsOf(msgq[n][v])
      /\ \A c \in InPorts, vc \in VCs : PacketsOf(inbuf'[c][vc]) = PacketsOf(inbuf[c][vc])
      /\ \A c \in Chans : PacketsOf(pipe'[c]) = PacketsOf(pipe[c])
  BY <1>1, QueueTypes, ItemQueues
<1>3. \A x \in Places : Now'[x] = Now[x]
  BY <1>1, <1>2, SameLayout
<1> QED
  BY <1>1, <1>3, ConservedStill

LEMMA SendConserves ==
  ASSUME Typed, Conserved, NEW p \in Packets, SendMessage(p)
  PROVE  Conserved'
<1> DEFINE n == Source[p]
           v == Vnet[p]
           m == [pkt |-> p, delay |-> 1]
           b == <<"msg", n, v>>
<1>1. /\ UNCHANGED <<inbuf, nivc, pipe, delivered>> /\ p \in fresh /\ fresh' = fresh \ {p}
      /\ msgq' = [msgq EXCEPT ![n][v] = Append(@, m)]
  BY DEF SendMessage
<1>2. n \in Routers /\ v \in Vnets /\ m \in MessageRecord /\ m.pkt = p
  BY NetworkAssumption DEF MessageRecord
<1> HIDE DEF n, v, m
<1>3. /\ msgq'[n][v] = Append(msgq[n][v], m)
      /\ \A k \in Routers, u \in Vnets : k # n \/ u # v => msgq'[k][u] = msgq[k][u]
  BY <1>1, <1>2 DEF Typed
<1>4. Now'[b] = Append(Now[b], p)
  <2>1. PacketsOf(Append(msgq[n][v], m)) = Append(PacketsOf(msgq[n][v]), p)
    BY <1>2, QueueTypes, ItemQueues
  <2>2. Now[<<"msg", n, v>>] = PacketsOf(msgq[n][v])
    BY <1>2, NowPlaces
  <2>3. Now'[<<"msg", n, v>>] = PacketsOf(msgq'[n][v])
    BY <1>2, NextPlaces
  <2> QED
    BY <1>3, <2>1, <2>2, <2>3
<1>5. ASSUME NEW x \in Places, x # b PROVE Now'[x] = Now[x]
  <2>1. CASE \E k \in Routers, u \in Vnets : x = <<"msg", k, u>>
    BY <1>3, <1>5, <2>1, NowPlaces, NextPlaces
  <2>2. CASE \E k \in Routers, vc \in VCs : x = <<"ni", k, vc>>
    BY <1>1, <2>2, NowPlaces, NextPlaces
  <2>3. CASE \E c \in InPorts, vc \in VCs : x = <<"buf", c, vc>>
    BY <1>1, <2>3, NowPlaces, NextPlaces
  <2>4. CASE \E c \in Chans : x = <<"link", c, 0>>
    BY <1>1, <2>4, NowPlaces, NextPlaces
  <2> QED
    BY <2>1, <2>2, <2>3, <2>4, PlaceKinds
<1>6. Joined(Now, fresh, b, p, Now', fresh')
  BY <1>1, <1>2, <1>4, <1>5, NowPlaces, NextPlaces DEF Joined
<1>7. ASSUME NEW q \in Packets PROVE OnceHeld(Now', fresh', delivered', q)
  <2>1. OnceHeld(Now, fresh, delivered, q) /\ Layout(Now)
    BY NowPlaces DEF Conserved
  <2>2. OnceHeld(Now', fresh', delivered, q)
    BY <1>6, <2>1, PacketJoins
  <2> QED
    BY <1>1, <2>2
<1> QED
  BY <1>7 DEF Conserved

\* Steps that only move heads conserve the packets.
LEMMA ConservedMoves ==
  ASSUME Typed, Conserved, NEW S, NEW mv, HeadsMoved(Now, S, mv, Now'),
         UNCHANGED <<fresh, delivered>>
  PROVE  Conserved'
<1>1. ASSUME NEW p \in Packets PROVE OnceHeld(Now', fresh', delivered', p)
  <2>1. OnceHeld(Now, fresh, delivered, p) /\ Layout(Now)
    BY NowPlaces DEF Conserved
  <2>2. OnceHeld(Now', fresh, delivered, p)
    BY <2>1, HeadsMove
  <2> QED
    BY <2>2
<1> QED
  BY <1>1 DEF Conserved

LEMMA ReceiveConserves ==
  ASSUME Typed, Conserved, NEW r \in Routers, RouterReceive(r)
  PROVE  Conserved'
<1> DEFINE arrived == { c \in InPortsOf(r) : Ready(pipe[c]) }
<1>1. UNCHANGED <<msgq, nivc, fresh, delivered>>
  BY DEF RouterReceive, niVars
<1>2. PICK route \in [arrived -> Sides \cup {"Local"}] : InputUnitWakeup(r, arrived, route)
  BY DEF RouterReceive
<1> DEFINE New(c) == [pkt |-> Head(pipe[c]).pkt, out |-> route[c], delay |-> PipeStages - 1]
           to(c) == Head(pipe[c]).vc
<1>3. /\ inbuf' = [c \in InPorts |->
           IF c \in arrived THEN [inbuf[c] EXCEPT ![to(c)] = Append(@, New(c))] ELSE inbuf[c]]
      /\ pipe' = [c \in Chans |-> IF c \in arrived THEN Tail(pipe[c]) ELSE pipe[c]]
  BY <1>2 DEF InputUnitWakeup
<1>4. ASSUME NEW c \in arrived
      PROVE  /\ c \in InPorts /\ c \in Chans /\ pipe[c] # <<>> /\ pipe[c] \in Seq(Transit)
             /\ to(c) \in VCs /\ New(c) \in FlitRecord /\ New(c).pkt = Head(pipe[c]).pkt
  <2>1. c \in InPorts /\ c \in Chans /\ pipe[c] # <<>> /\ pipe[c] \in Seq(Transit)
    BY QueueTypes DEF InPortsOf, Chans, Ready
  <2>2. Head(pipe[c]) \in Transit
    BY <2>1, Taken
  <2>3. to(c) \in VCs /\ Head(pipe[c]).pkt \in Packets
    BY <2>2 DEF Transit
  <2>4. PipeStages - 1 \in Nat /\ route[c] \in Sides \cup {"Local"}
    BY NetworkConstants
  <2> QED
    BY <2>1, <2>3, <2>4 DEF FlitRecord
<1> HIDE DEF arrived, New, to
<1>5. ASSUME NEW c \in Chans
      PROVE  pipe'[c] = IF c \in arrived THEN Tail(pipe[c]) ELSE pipe[c]
  BY <1>3
<1>6. ASSUME NEW c \in InPorts, NEW vc \in VCs
      PROVE  inbuf'[c][vc] = IF c \in arrived /\ vc = to(c)
                             THEN Append(inbuf[c][vc], New(c)) ELSE inbuf[c][vc]
  <2>1. inbuf[c] \in [VCs -> Seq(FlitRecord)]
    BY DEF Typed
  <2> QED
    BY <1>3, <1>4, <2>1
<1> DEFINE S == { <<"link", c, 0>> : c \in arrived }
           mv == [x \in S |-> <<"buf", x[2], to(x[2])>>]
<1>7. ASSUME NEW c \in arrived
      PROVE  /\ <<"link", c, 0>> \in S /\ mv[<<"link", c, 0>>] = <<"buf", c, to(c)>>
             /\ <<"link", c, 0>> \in Places /\ <<"buf", c, to(c)>> \in Places
             /\ <<"buf", c, to(c)>> \notin S
             /\ Now[<<"link", c, 0>>] # <<>>
             /\ Now'[<<"link", c, 0>>] = Tail(Now[<<"link", c, 0>>])
             /\ Now'[<<"buf", c, to(c)>>]
                  = Append(Now[<<"buf", c, to(c)>>], Head(Now[<<"link", c, 0>>]))
  <2>1. <<"link", c, 0>> \in S /\ mv[<<"link", c, 0>>] = <<"buf", c, to(c)>>
    OBVIOUS
  <2>2. /\ <<"link", c, 0>> \in Places /\ Now[<<"link", c, 0>>] = PacketsOf(pipe[c])
        /\ Now'[<<"link", c, 0>>] = PacketsOf(Tail(pipe[c]))
    BY <1>4, <1>5, NowPlaces, NextPlaces
  <2>3. /\ PacketsOf(pipe[c]) # <<>> /\ PacketsOf(Tail(pipe[c])) = Tail(PacketsOf(pipe[c]))
        /\ Head(PacketsOf(pipe[c])) = Head(pipe[c]).pkt
    BY <1>4, ItemQueues
  <2>4. /\ <<"buf", c, to(c)>> \in Places
        /\ Now[<<"buf", c, to(c)>>] = PacketsOf(inbuf[c][to(c)])
        /\ Now'[<<"buf", c, to(c)>>] = PacketsOf(Append(inbuf[c][to(c)], New(c)))
    BY <1>4, <1>6, NowPlaces, NextPlaces
  <2>5. PacketsOf(Append(inbuf[c][to(c)], New(c)))
          = Append(PacketsOf(inbuf[c][to(c)]), Head(pipe[c]).pkt)
    BY <1>4, QueueTypes, ItemQueues
  <2>6. <<"buf", c, to(c)>> \notin S
    OBVIOUS
  <2> QED
    BY <2>1, <2>2, <2>3, <2>4, <2>5, <2>6
<1>8. ASSUME NEW x \in Places, x \notin S, \A y \in S : x # mv[y]
      PROVE  Now'[x] = Now[x]
  <2>1. CASE \E k \in Routers, u \in Vnets : x = <<"msg", k, u>>
    BY <1>1, <2>1, NowPlaces, NextPlaces
  <2>2. CASE \E k \in Routers, vc \in VCs : x = <<"ni", k, vc>>
    BY <1>1, <2>2, NowPlaces, NextPlaces
  <2>3. ASSUME NEW c \in InPorts, NEW vc \in VCs, x = <<"buf", c, vc>>
        PROVE  Now'[x] = Now[x]
    <3>1. ~(c \in arrived /\ vc = to(c))
      BY <1>7, <1>8, <2>3
    <3>2. inbuf'[c][vc] = inbuf[c][vc]
      BY <1>6, <3>1
    <3> QED
      BY <2>3, <3>2, NowPlaces, NextPlaces
  <2>4. ASSUME NEW c \in Chans, x = <<"link", c, 0>>
        PROVE  Now'[x] = Now[x]
    <3>1. c \notin arrived
      BY <1>7, <1>8, <2>4
    <3>2. pipe'[c] = pipe[c]
      BY <1>5, <3>1
    <3> QED
      BY <2>4, <3>2, NowPlaces, NextPlaces
  <2> QED
    BY <2>1, <2>2, <2>3, <2>4, PlaceKinds
<1>9. \A x \in S : \E c \in arrived : x = <<"link", c, 0>>
  OBVIOUS
<1>10. \A x, y \in S : mv[x] = mv[y] => x = y
  <2> TAKE x, y \in S
  <2> HAVE mv[x] = mv[y]
  <2>1. PICK c \in arrived : x = <<"link", c, 0>>
    BY <1>9
  <2>2. PICK d \in arrived : y = <<"link", d, 0>>
    BY <1>9
  <2>3. <<"buf", c, to(c)>> = <<"buf", d, to(d)>>
    BY <1>7, <2>1, <2>2
  <2> QED
    BY <2>1, <2>2, <2>3
<1> HIDE DEF S, mv
<1>11. ASSUME NEW x \in S
       PROVE  /\ x \in Places /\ Now[x] # <<>> /\ mv[x] \in Places \ S
              /\ Now'[x] = Tail(Now[x]) /\ Now'[mv[x]] = Append(Now[mv[x]], Head(Now[x]))
  <2>1. PICK c \in arrived : x = <<"link", c, 0>>
    BY <1>9
  <2> QED
    BY <1>7, <2>1
<1>12. HeadsMoved(Now, S, mv, Now')
  BY <1>8, <1>10, <1>11, NowPlaces, NextPlaces DEF HeadsMoved
<1> QED
  BY <1>1, <1>12, ConservedMoves

LEMMA AllocateConserves ==
  ASSUME Typed, Routed, Conserved, NEW r \in Routers, RouterAllocate(r)
  PROVE  Conserved'
<1>1. UNCHANGED <<msgq, nivc, fresh, delivered>>
  BY DEF RouterAllocate, niVars
<1>2. PICK alloc \in Allocations(r) : SwitchTraversal(r, alloc[1], alloc[2])
  BY DEF RouterAllocate
<1> DEFINE req == alloc[1]
           win == alloc[2]
           chan(c) == RequestedChan(r, req, c)
           newvc(c) == select_free_vc(chan(c), get_vnet(req[c]))
           winner(o) == CHOOSE c \in win : chan(c) = o
           taken == { chan(c) : c \in win }
           Out(c) == [pkt |-> Head(inbuf[c][req[c]]).pkt, vc |-> newvc(c), delay |-> LinkDelay]
<1>3. /\ inbuf' = [c \in InPorts |->
           IF c \in win THEN [inbuf[c] EXCEPT ![req[c]] = Tail(@)] ELSE inbuf[c]]
      /\ pipe' = [o \in Chans |->
           IF o \in taken THEN Append(pipe[o], Out(winner(o))) ELSE pipe[o]]
  BY <1>2 DEF SwitchTraversal
<1>4. ASSUME NEW c \in win
      PROVE  /\ c \in InPorts /\ req[c] \in VCs /\ inbuf[c][req[c]] # <<>>
             /\ chan(c) \in Chans /\ newvc(c) \in VCs
  BY AllocationFacts DEF InPortsOf
<1>5. \A c, d \in win : chan(c) = chan(d) => c = d
  BY AllocationFacts
<1> HIDE DEF req, win, chan, newvc
<1>6. ASSUME NEW c \in win
      PROVE  /\ winner(chan(c)) = c /\ chan(c) \in taken
             /\ Out(c) \in Transit /\ Out(c).pkt = Head(inbuf[c][req[c]]).pkt
  <2>1. winner(chan(c)) \in win /\ chan(winner(chan(c))) = chan(c)
    OBVIOUS
  <2>2. Head(inbuf[c][req[c]]) \in FlitRecord
    BY <1>4, QueueTypes, Taken
  <2>3. Head(inbuf[c][req[c]]).pkt \in Packets
    BY <2>2 DEF FlitRecord
  <2>4. Out(c) \in Transit
    BY <1>4, <2>3, NetworkConstants DEF Transit
  <2> QED
    BY <1>5, <2>1, <2>4
<1>7. ASSUME NEW o \in Chans
      PROVE  /\ o \notin taken => pipe'[o] = pipe[o]
             /\ o \in taken => pipe'[o] = Append(pipe[o], Out(winner(o)))
  BY <1>3
<1> HIDE DEF winner, Out
<1>8. ASSUME NEW c \in InPorts, NEW vc \in VCs
      PROVE  inbuf'[c][vc] = IF c \in win /\ vc = req[c]
                             THEN Tail(inbuf[c][vc]) ELSE inbuf[c][vc]
  <2>1. inbuf[c] \in [VCs -> Seq(FlitRecord)]
    BY DEF Typed
  <2> QED
    BY <1>3, <1>4, <2>1
<1> DEFINE S == { <<"buf", c, req[c]>> : c \in win }
           mv == [x \in S |-> <<"link", chan(x[2]), 0>>]
<1>9. ASSUME NEW c \in win
      PROVE  /\ <<"buf", c, req[c]>> \in S /\ mv[<<"buf", c, req[c]>>] = <<"link", chan(c), 0>>
             /\ <<"buf", c, req[c]>> \in Places /\ <<"link", chan(c), 0>> \in Places
             /\ <<"link", chan(c), 0>> \notin S
             /\ Now[<<"buf", c, req[c]>>] # <<>>
             /\ Now'[<<"buf", c, req[c]>>] = Tail(Now[<<"buf", c, req[c]>>])
             /\ Now'[<<"link", chan(c), 0>>]
                  = Append(Now[<<"link", chan(c), 0>>], Head(Now[<<"buf", c, req[c]>>]))
  <2>1. <<"buf", c, req[c]>> \in S /\ mv[<<"buf", c, req[c]>>] = <<"link", chan(c), 0>>
    OBVIOUS
  <2>2. /\ <<"buf", c, req[c]>> \in Places
        /\ Now[<<"buf", c, req[c]>>] = PacketsOf(inbuf[c][req[c]])
        /\ Now'[<<"buf", c, req[c]>>] = PacketsOf(Tail(inbuf[c][req[c]]))
    BY <1>4, <1>8, NowPlaces, NextPlaces
  <2>3. /\ PacketsOf(inbuf[c][req[c]]) # <<>>
        /\ PacketsOf(Tail(inbuf[c][req[c]])) = Tail(PacketsOf(inbuf[c][req[c]]))
        /\ Head(PacketsOf(inbuf[c][req[c]])) = Head(inbuf[c][req[c]]).pkt
    BY <1>4, QueueTypes, ItemQueues
  <2>4. pipe'[chan(c)] = Append(pipe[chan(c)], Out(c))
    BY <1>4, <1>6, <1>7
  <2>5. /\ <<"link", chan(c), 0>> \in Places
        /\ Now[<<"link", chan(c), 0>>] = PacketsOf(pipe[chan(c)])
        /\ Now'[<<"link", chan(c), 0>>] = PacketsOf(Append(pipe[chan(c)], Out(c)))
    BY <1>4, <2>4, NowPlaces, NextPlaces
  <2>6. PacketsOf(Append(pipe[chan(c)], Out(c)))
          = Append(PacketsOf(pipe[chan(c)]), Head(inbuf[c][req[c]]).pkt)
    BY <1>4, <1>6, QueueTypes, ItemQueues
  <2>7. <<"link", chan(c), 0>> \notin S
    OBVIOUS
  <2> QED
    BY <2>1, <2>2, <2>3, <2>5, <2>6, <2>7
<1>10. ASSUME NEW x \in Places, x \notin S, \A y \in S : x # mv[y]
       PROVE  Now'[x] = Now[x]
  <2>1. CASE \E k \in Routers, u \in Vnets : x = <<"msg", k, u>>
    BY <1>1, <2>1, NowPlaces, NextPlaces
  <2>2. CASE \E k \in Routers, vc \in VCs : x = <<"ni", k, vc>>
    BY <1>1, <2>2, NowPlaces, NextPlaces
  <2>3. ASSUME NEW c \in InPorts, NEW vc \in VCs, x = <<"buf", c, vc>>
        PROVE  Now'[x] = Now[x]
    <3>1. ~(c \in win /\ vc = req[c])
      BY <1>9, <1>10, <2>3
    <3>2. inbuf'[c][vc] = inbuf[c][vc]
      BY <1>8, <3>1
    <3> QED
      BY <2>3, <3>2, NowPlaces, NextPlaces
  <2>4. ASSUME NEW c \in Chans, x = <<"link", c, 0>>
        PROVE  Now'[x] = Now[x]
    <3>1. c \notin taken
      BY <1>9, <1>10, <2>4
    <3>2. pipe'[c] = pipe[c]
      BY <1>7, <3>1
    <3> QED
      BY <2>4, <3>2, NowPlaces, NextPlaces
  <2> QED
    BY <2>1, <2>2, <2>3, <2>4, PlaceKinds
<1>11. \A x \in S : \E c \in win : x = <<"buf", c, req[c]>>
  OBVIOUS
<1>12. \A x, y \in S : mv[x] = mv[y] => x = y
  <2> TAKE x, y \in S
  <2> HAVE mv[x] = mv[y]
  <2>1. PICK c \in win : x = <<"buf", c, req[c]>>
    BY <1>11
  <2>2. PICK d \in win : y = <<"buf", d, req[d]>>
    BY <1>11
  <2>3. <<"link", chan(c), 0>> = <<"link", chan(d), 0>>
    BY <1>9, <2>1, <2>2
  <2> QED
    BY <1>5, <2>1, <2>2, <2>3
<1> HIDE DEF S, mv
<1>13. ASSUME NEW x \in S
       PROVE  /\ x \in Places /\ Now[x] # <<>> /\ mv[x] \in Places \ S
              /\ Now'[x] = Tail(Now[x]) /\ Now'[mv[x]] = Append(Now[mv[x]], Head(Now[x]))
  <2>1. PICK c \in win : x = <<"buf", c, req[c]>>
    BY <1>11
  <2> QED
    BY <1>9, <2>1
<1>14. HeadsMoved(Now, S, mv, Now')
  BY <1>10, <1>12, <1>13, NowPlaces, NextPlaces DEF HeadsMoved
<1> QED
  BY <1>1, <1>14, ConservedMoves

LEMMA MovedLayout ==
  ASSUME NEW Q, NEW S, NEW mv, NEW Q2, Layout(Q), HeadsMoved(Q, S, mv, Q2)
  PROVE  Layout(Q2)
<1>1. ASSUME NEW x \in DOMAIN Q PROVE Q2[x] \in Seq(Packets)
  <2>1. Q[x] \in Seq(Packets)
    BY DEF Layout
  <2>2. CASE x \in S
    <3>1. Q[x] # <<>> /\ Q2[x] = Tail(Q[x])
      BY <2>2 DEF HeadsMoved
    <3> QED
      BY <2>1, <3>1, Taken
  <2>3. ASSUME NEW y \in S, x = mv[y] PROVE Q2[x] \in Seq(Packets)
    <3>1. /\ Q[y] \in Seq(Packets) /\ Q[y] # <<>> /\ Q2[x] = Append(Q[x], Head(Q[y]))
      BY <2>3 DEF HeadsMoved, Layout
    <3>2. Head(Q[y]) \in Packets
      BY <3>1, Taken
    <3> QED
      BY <2>1, <3>1, <3>2
  <2>4. CASE x \notin S /\ \A y \in S : x # mv[y]
    BY <2>1, <2>4 DEF HeadsMoved
  <2> QED
    BY <2>2, <2>3, <2>4
<1> QED
  BY <1>1 DEF Layout, HeadsMoved

\* The VCs of two vnets are different ones.
LEMMA VcsApart ==
  ASSUME NEW u \in Vnets, NEW v \in Vnets, NEW vc \in VcsOf(u), vc \in VcsOf(v)
  PROVE  u = v
<1>1. ASSUME NEW a \in Vnets, NEW b \in Vnets, vc \in VcsOf(a), vc \in VcsOf(b), a < b
      PROVE  FALSE
  <2>1. VcPerVnet \in Nat \ {0} /\ a \in Nat /\ b \in Nat
    BY NetworkConstants DEF Vnets
  <2> DEFINE A == (a + 1) * VcPerVnet
             B == b * VcPerVnet
             k == b - (a + 1)
  <2>2. k \in Nat /\ b = (a + 1) + k
    BY <1>1, <2>1
  <2> HIDE DEF k
  <2>3. k * VcPerVnet \in Nat
    BY <2>1, <2>2
  <2>4. B = A + k * VcPerVnet /\ A \in Int /\ B \in Int
    BY <2>1, <2>2
  <2>5. vc \in Int /\ vc <= A - 1 /\ vc >= B
    BY <1>1, <2>1 DEF VcsOf
  <2> HIDE DEF A, B
  <2> QED
    BY <2>3, <2>4, <2>5
<1>2. u \in Int /\ v \in Int
  BY DEF Vnets
<1> QED
  BY <1>1, <1>2

\* The interface puts a message into the VC picked for its vnet.
LEMMA PickedFlits ==
  ASSUME Typed, NEW n \in Routers, NEW pick \in PickVcs(n)
  PROVE  /\ DOMAIN pick \subseteq Vnets
         /\ \A v \in DOMAIN pick :
              /\ msgq[n][v] # <<>> /\ pick[v] \in VCs
              /\ FlitsAfterPick(n, pick)[pick[v]]
                   = Append(nivc[n][pick[v]], Head(msgq[n][v]).pkt)
         /\ \A u, v \in DOMAIN pick : pick[u] = pick[v] => u = v
         /\ \A vc \in VCs : (\A v \in DOMAIN pick : vc # pick[v]) =>
              FlitsAfterPick(n, pick)[vc] = nivc[n][vc]
<1>1. /\ DOMAIN pick = Pickable(n) /\ Pickable(n) \subseteq Vnets
      /\ \A v \in Pickable(n) : pick[v] \in VCs /\ pick[v] \in VcsOf(v) /\ msgq[n][v] # <<>>
  BY DEF PickVcs, Pickable, FreeVcs, Ready
<1>2. ASSUME NEW u \in DOMAIN pick, NEW v \in DOMAIN pick, pick[u] = pick[v] PROVE u = v
  <2>1. u \in Vnets /\ v \in Vnets /\ pick[u] \in VcsOf(u) /\ pick[u] \in VcsOf(v)
    BY <1>1, <1>2
  <2> QED
    BY <2>1, VcsApart
<1>3. ASSUME NEW v \in DOMAIN pick
      PROVE  FlitsAfterPick(n, pick)[pick[v]]
               = Append(nivc[n][pick[v]], Head(msgq[n][v]).pkt)
  <2> DEFINE w == CHOOSE u \in DOMAIN pick : pick[u] = pick[v]
  <2>1. w \in DOMAIN pick /\ pick[w] = pick[v]
    OBVIOUS
  <2>2. w = v
    BY <1>2, <2>1
  <2>3. pick[v] \in VCs /\ pick[v] \in Picked(pick)
    BY <1>1 DEF Picked
  <2>4. FlitsAfterPick(n, pick)[pick[v]] = Append(nivc[n][pick[v]], Head(msgq[n][w]).pkt)
    BY <2>3 DEF FlitsAfterPick
  <2> QED
    BY <2>2, <2>4
<1>4. ASSUME NEW vc \in VCs, \A v \in DOMAIN pick : vc # pick[v]
      PROVE  FlitsAfterPick(n, pick)[vc] = nivc[n][vc]
  BY <1>4 DEF FlitsAfterPick, Picked
<1> QED
  BY <1>1, <1>2, <1>3, <1>4

\* The first half of an interface's wakeup: messages become flits.
LEMMA PickMoves ==
  ASSUME Typed, NEW n \in Routers, NEW pick \in PickVcs(n), NEW M, NEW N,
         \A k \in Routers, v \in Vnets :
           M[k][v] = IF k = n /\ v \in DOMAIN pick THEN Tail(msgq[k][v]) ELSE msgq[k][v],
         \A k \in Routers, vc \in VCs :
           N[k][vc] = IF k = n THEN FlitsAfterPick(n, pick)[vc] ELSE nivc[k][vc]
  PROVE  \E S, mv : HeadsMoved(Now, S, mv, LayoutOf(M, N, inbuf, pipe))
<1> DEFINE Q == LayoutOf(M, N, inbuf, pipe)
           S == { <<"msg", n, v>> : v \in DOMAIN pick }
           mv == [x \in S |-> <<"ni", n, pick[x[3]]>>]
<1>1. /\ DOMAIN Q = Places
      /\ \A k \in Routers, v \in Vnets : Q[<<"msg", k, v>>] = PacketsOf(M[k][v])
      /\ \A k \in Routers, vc \in VCs : Q[<<"ni", k, vc>>] = N[k][vc]
      /\ \A c \in InPorts, vc \in VCs : Q[<<"buf", c, vc>>] = PacketsOf(inbuf[c][vc])
      /\ \A c \in Chans : Q[<<"link", c, 0>>] = PacketsOf(pipe[c])
  BY LayoutPlaces
<1> HIDE DEF Q
<1>2. /\ DOMAIN pick \subseteq Vnets
      /\ \A v \in DOMAIN pick :
           /\ msgq[n][v] # <<>> /\ pick[v] \in VCs
           /\ FlitsAfterPick(n, pick)[pick[v]] = Append(nivc[n][pick[v]], Head(msgq[n][v]).pkt)
      /\ \A u, v \in DOMAIN pick : pick[u] = pick[v] => u = v
      /\ \A vc \in VCs : (\A v \in DOMAIN pick : vc # pick[v]) =>
           FlitsAfterPick(n, pick)[vc] = nivc[n][vc]
  BY PickedFlits
<1>3. ASSUME NEW v \in DOMAIN pick
      PROVE  /\ <<"msg", n, v>> \in S /\ mv[<<"msg", n, v>>] = <<"ni", n, pick[v]>>
             /\ <<"msg", n, v>> \in Places /\ <<"ni", n, pick[v]>> \in Places
             /\ <<"ni", n, pick[v]>> \notin S
             /\ Now[<<"msg", n, v>>] # <<>>
             /\ Q[<<"msg", n, v>>] = Tail(Now[<<"msg", n, v>>])
             /\ Q[<<"ni", n, pick[v]>>]
                  = Append(Now[<<"ni", n, pick[v]>>], Head(Now[<<"msg", n, v>>]))
  <2>1. <<"msg", n, v>> \in S /\ mv[<<"msg", n, v>>] = <<"ni", n, pick[v]>>
    OBVIOUS
  <2>2. v \in Vnets /\ pick[v] \in VCs /\ msgq[n][v] # <<>> /\ msgq[n][v] \in Seq(MessageRecord)
    BY <1>2, QueueTypes
  <2>3. M[n][v] = Tail(msgq[n][v]) /\ N[n][pick[v]] = Append(nivc[n][pick[v]], Head(msgq[n][v]).pkt)
    BY <1>2, <2>2
  <2>4. /\ <<"msg", n, v>> \in Places /\ Now[<<"msg", n, v>>] = PacketsOf(msgq[n][v])
        /\ Q[<<"msg", n, v>>] = PacketsOf(Tail(msgq[n][v]))
    BY <1>1, <2>2, <2>3, NowPlaces
  <2>5. /\ <<"ni", n, pick[v]>> \in Places /\ Now[<<"ni", n, pick[v]>>] = nivc[n][pick[v]]
        /\ Q[<<"ni", n, pick[v]>>] = Append(nivc[n][pick[v]], Head(msgq[n][v]).pkt)
    BY <1>1, <2>2, <2>3, NowPlaces
  <2>6. /\ PacketsOf(msgq[n][v]) # <<>> /\ PacketsOf(Tail(msgq[n][v])) = Tail(PacketsOf(msgq[n][v]))
        /\ Head(PacketsOf(msgq[n][v])) = Head(msgq[n][v]).pkt
    BY <2>2, ItemQueues
  <2>7. <<"ni", n, pick[v]>> \notin S
    OBVIOUS
  <2> QED
    BY <2>1, <2>4, <2>5, <2>6, <2>7
<1>4. \A x \in S : \E v \in DOMAIN pick : x = <<"msg", n, v>>
  OBVIOUS
<1>5. \A x, y \in S : mv[x] = mv[y] => x = y
  <2> TAKE x, y \in S
  <2> HAVE mv[x] = mv[y]
  <2>1. PICK u \in DOMAIN pick : x = <<"msg", n, u>>
    BY <1>4
  <2>2. PICK v \in DOMAIN pick : y = <<"msg", n, v>>
    BY <1>4
  <2>3. <<"ni", n, pick[u]>> = <<"ni", n, pick[v]>>
    BY <1>3, <2>1, <2>2
  <2> QED
    BY <1>2, <2>1, <2>2, <2>3
<1>6. ASSUME NEW x \in Places, x \notin S, \A y \in S : x # mv[y] PROVE Q[x] = Now[x]
  <2>1. ASSUME NEW k \in Routers, NEW v \in Vnets, x = <<"msg", k, v>> PROVE Q[x] = Now[x]
    <3>1. ~(k = n /\ v \in DOMAIN pick)
      BY <1>3, <1>6, <2>1
    <3>2. M[k][v] = msgq[k][v]
      BY <3>1
    <3> QED
      BY <1>1, <2>1, <3>2, NowPlaces
  <2>2. ASSUME NEW k \in Routers, NEW vc \in VCs, x = <<"ni", k, vc>> PROVE Q[x] = Now[x]
    <3>1. k = n => \A v \in DOMAIN pick : vc # pick[v]
      BY <1>3, <1>6, <2>2
    <3>2. N[k][vc] = nivc[k][vc]
      BY <1>2, <3>1
    <3> QED
      BY <1>1, <2>2, <3>2, NowPlaces
  <2>3. CASE \E c \in InPorts, vc \in VCs : x = <<"buf", c, vc>>
    BY <1>1, <2>3, NowPlaces
  <2>4. CASE \E c \in Chans : x = <<"link", c, 0>>
    BY <1>1, <2>4, NowPlaces
  <2> QED
    BY <2>1, <2>2, <2>3, <2>4, PlaceKinds
<1> HIDE DEF S, mv
<1>7. ASSUME NEW x \in S
      PROVE  /\ x \in Places /\ Now[x] # <<>> /\ mv[x] \in Places \ S
             /\ Q[x] = Tail(Now[x]) /\ Q[mv[x]] = Append(Now[mv[x]], Head(Now[x]))
  <2>1. PICK v \in DOMAIN pick : x = <<"msg", n, v>>
    BY <1>4
  <2> QED
    BY <1>3, <2>1
<1>8. HeadsMoved(Now, S, mv, Q)
  BY <1>1, <1>5, <1>6, <1>7, NowPlaces DEF HeadsMoved
<1> QED
  BY <1>8 DEF Q

\* The second half: a flit goes onto the injection link.
LEMMA InjectMoves ==
  ASSUME NEW n \in Routers, NEW vc \in VCs, NEW M, NEW N, NEW N2, NEW B, NEW P, NEW P2,
         NEW e \in Transit, P[<<n, "Local">>] \in Seq(Transit), N[n][vc] # <<>>,
         e.pkt = Head(N[n][vc]),
         \A k \in Routers, w \in VCs :
           N2[k][w] = IF k = n /\ w = vc THEN Tail(N[k][w]) ELSE N[k][w],
         \A c \in Chans : P2[c] = IF c = <<n, "Local">> THEN Append(P[c], e) ELSE P[c]
  PROVE  \E S, mv : HeadsMoved(LayoutOf(M, N, B, P), S, mv, LayoutOf(M, N2, B, P2))
<1> DEFINE Q == LayoutOf(M, N, B, P)
           Q2 == LayoutOf(M, N2, B, P2)
           inj == <<n, "Local">>
           a == <<"ni", n, vc>>
           b == <<"link", inj, 0>>
           S == {a}
           mv == [x \in S |-> b]
<1>1. /\ DOMAIN Q = Places
      /\ \A k \in Routers, v \in Vnets : Q[<<"msg", k, v>>] = PacketsOf(M[k][v])
      /\ \A k \in Routers, w \in VCs : Q[<<"ni", k, w>>] = N[k][w]
      /\ \A c \in InPorts, w \in VCs : Q[<<"buf", c, w>>] = PacketsOf(B[c][w])
      /\ \A c \in Chans : Q[<<"link", c, 0>>] = PacketsOf(P[c])
      /\ \A k \in Routers, w \in VCs : <<"ni", k, w>> \in Places
      /\ \A c \in Chans : <<"link", c, 0>> \in Places
  BY LayoutPlaces
<1>2. /\ DOMAIN Q2 = Places
      /\ \A k \in Routers, v \in Vnets : Q2[<<"msg", k, v>>] = PacketsOf(M[k][v])
      /\ \A k \in Routers, w \in VCs : Q2[<<"ni", k, w>>] = N2[k][w]
      /\ \A c \in InPorts, w \in VCs : Q2[<<"buf", c, w>>] = PacketsOf(B[c][w])
      /\ \A c \in Chans : Q2[<<"link", c, 0>>] = PacketsOf(P2[c])
  BY LayoutPlaces
<1> HIDE DEF Q, Q2
<1>3. inj \in Chans
  BY DEF Chans, InPorts, LocalPorts
<1>4. /\ a \in Places /\ b \in Places /\ a # b
      /\ Q[a] = N[n][vc] /\ Q2[a] = Tail(N[n][vc])
      /\ Q[b] = PacketsOf(P[inj]) /\ Q2[b] = PacketsOf(Append(P[inj], e))
  BY <1>1, <1>2, <1>3
<1>5. PacketsOf(Append(P[inj], e)) = Append(PacketsOf(P[inj]), Head(N[n][vc]))
  <2>1. P[inj] \in Seq(Transit) /\ Transit \in {Transit, FlitRecord, MessageRecord}
    OBVIOUS
  <2>2. PacketsOf(Append(P[inj], e)) = Append(PacketsOf(P[inj]), e.pkt)
    BY <2>1, ItemQueues
  <2> QED
    BY <2>2
<1>6. ASSUME NEW x \in Places, x # a, x # b PROVE Q2[x] = Q[x]
  <2>1. CASE \E k \in Routers, v \in Vnets : x = <<"msg", k, v>>
    BY <1>1, <1>2, <2>1
  <2>2. CASE \E k \in Routers, w \in VCs : x = <<"ni", k, w>>
    BY <1>1, <1>2, <1>6, <2>2
  <2>3. CASE \E c \in InPorts, w \in VCs : x = <<"buf", c, w>>
    BY <1>1, <1>2, <2>3
  <2>4. CASE \E c \in Chans : x = <<"link", c, 0>>
    BY <1>1, <1>2, <1>6, <2>4
  <2> QED
    BY <2>1, <2>2, <2>3, <2>4, PlaceKinds
<1>7. mv[a] = b /\ a \in S /\ b \notin S /\ \A x \in S : x = a
  BY <1>4
<1> HIDE DEF a, b, S, mv
<1>8. HeadsMoved(Q, S, mv, Q2)
  <2>1. /\ Q[a] # <<>> /\ Q2[a] = Tail(Q[a]) /\ Q2[b] = Append(Q[b], Head(Q[a]))
    BY <1>4, <1>5
  <2>2. ASSUME NEW x \in S
        PROVE  /\ Q[x] # <<>> /\ mv[x] \in Places \ S
               /\ Q2[x] = Tail(Q[x]) /\ Q2[mv[x]] = Append(Q[mv[x]], Head(Q[x]))
    BY <1>4, <1>7, <2>1
  <2>3. S \subseteq Places /\ \A x, y \in S : mv[x] = mv[y] => x = y
    BY <1>4, <1>7
  <2>4. ASSUME NEW x \in Places, x \notin S, \A y \in S : x # mv[y] PROVE Q2[x] = Q[x]
    BY <1>6, <1>7, <2>4
  <2>5. DOMAIN Q = Places /\ DOMAIN Q2 = Places
    BY <1>1, <1>2
  <2> QED
    BY <2>2, <2>3, <2>4, <2>5 DEF HeadsMoved
<1> QED
  BY <1>8 DEF Q, Q2

LEMMA InterfaceConserves ==
  ASSUME Typed, Conserved, NEW n \in Routers, InterfaceWakeup(n)
  PROVE  Conserved'
<1> DEFINE inj == <<n, "Local">>
           ej == <<n, "Eject">>
<1>1. UNCHANGED <<inbuf, fresh>>
  BY DEF InterfaceWakeup
<1>2. PICK pick \in PickVcs(n) : \E send \in SendVcs(n, FlitsAfterPick(n, pick)) :
        \E after \in CreditDelays(n) : InterfaceEffect(n, pick, send, after)
  BY InterfaceEffects
<1>3. PICK send \in SendVcs(n, FlitsAfterPick(n, pick)), after \in CreditDelays(n) :
        InterfaceEffect(n, pick, send, after)
  BY <1>2
<1> DEFINE queued == FlitsAfterPick(n, pick)
           Sent(vc) == [pkt |-> Head(queued[vc]), vc |-> vc, delay |-> LinkDelay]
           N1 == [nivc EXCEPT ![n] = queued]
           P1 == [pipe EXCEPT ![inj] = IF send = {} THEN @ ELSE Append(@, Sent(CHOOSE x \in send : TRUE))]
           Q1 == LayoutOf(msgq', N1, inbuf, pipe)
           Q2 == LayoutOf(msgq', nivc', inbuf, P1)
<1>4. inj \in Chans /\ ej \in Chans /\ inj # ej
  BY DEF Chans, InPorts, LocalPorts, EjectPorts
<1>5. /\ pipe \in [Chans -> Seq(Transit)] /\ nivc \in [Routers -> [VCs -> Seq(Packets)]]
      /\ msgq \in [Routers -> [Vnets -> Seq(MessageRecord)]]
  BY DEF Typed
<1>6. /\ \A k \in Routers, v \in Vnets :
           msgq'[k][v] = IF k = n /\ v \in DOMAIN pick THEN Tail(msgq[k][v]) ELSE msgq[k][v]
      /\ \A k \in Routers, vc \in VCs :
           nivc'[k][vc] = IF k = n /\ vc \in send THEN Tail(N1[k][vc]) ELSE N1[k][vc]
      /\ \A k \in Routers, vc \in VCs : N1[k][vc] = IF k = n THEN queued[vc] ELSE nivc[k][vc]
  <2>1. /\ msgq' = [msgq EXCEPT ![n] = [v \in Vnets |->
             IF v \in DOMAIN pick THEN Tail(msgq[n][v]) ELSE msgq[n][v]]]
        /\ nivc' = [nivc EXCEPT ![n] = [vc \in VCs |->
             IF vc \in send THEN Tail(queued[vc]) ELSE queued[vc]]]
    BY <1>3 DEF InterfaceEffect
  <2> HIDE DEF queued
  <2> QED
    BY <1>5, <2>1
<1>7. ASSUME NEW c \in Chans
      PROVE  /\ P1[c] = IF c = inj /\ send # {}
                        THEN Append(pipe[c], Sent(CHOOSE x \in send : TRUE)) ELSE pipe[c]
             /\ pipe'[c] = IF c = ej /\ Ready(pipe[ej]) THEN Tail(P1[c]) ELSE P1[c]
  <2> DEFINE item == Sent(CHOOSE x \in send : TRUE)
             arrives == Ready(pipe[ej])
  <2>1. pipe' = [pipe EXCEPT
          ![inj] = IF send = {} THEN pipe[inj] ELSE Append(pipe[inj], item),
          ![ej]  = IF arrives THEN Tail(pipe[ej]) ELSE pipe[ej]]
    BY <1>3 DEF InterfaceEffect
  <2>2. P1 = [pipe EXCEPT ![inj] = IF send = {} THEN @ ELSE Append(@, item)]
    OBVIOUS
  <2> HIDE DEF item, arrives, inj, ej, P1
  <2>3. P1[c] = IF c = inj /\ send # {} THEN Append(pipe[c], item) ELSE pipe[c]
    BY <1>4, <1>5, <2>2
  <2>4. pipe'[c] = IF c = ej /\ arrives THEN Tail(P1[c]) ELSE P1[c]
    <3>1. CASE c = ej
      BY <1>4, <1>5, <2>1, <2>3, <3>1
    <3>2. CASE c = inj
      BY <1>4, <1>5, <2>1, <2>3, <3>2
    <3>3. CASE c # ej /\ c # inj
      BY <1>4, <1>5, <2>1, <2>3, <3>3
    <3> QED
      BY <3>1, <3>2, <3>3
  <2> QED
    BY <2>3, <2>4 DEF item, arrives
<1>8. /\ \A vc \in VCs : queued[vc] \in Seq(Packets) /\ (vc \in send => queued[vc] # <<>>)
      /\ send = {} \/ \E vc \in VCs : send = {vc}
  <2>1. ASSUME NEW vc \in VCs PROVE queued[vc] \in Seq(Packets) /\ (vc \in send => queued[vc] # <<>>)
    BY PickFacts
  <2>2. send = {} \/ \E vc \in VCs : send = {vc}
    BY DEF SendVcs
  <2> QED
    BY <2>1, <2>2
<1> HIDE DEF queued, N1, P1
<1>9. \E S, mv : HeadsMoved(Now, S, mv, Q1)
  BY <1>6, PickMoves DEF queued
<1>10. \E S, mv : HeadsMoved(Q1, S, mv, Q2)
  <2>1. CASE send = {}
    <3>1. \A x \in Places : Q2[x] = Q1[x]
      <4> TAKE x \in Places
      <4>1. CASE \E k \in Routers, v \in Vnets : x = <<"msg", k, v>>
        BY <4>1, LayoutPlaces
      <4>2. CASE \E k \in Routers, vc \in VCs : x = <<"ni", k, vc>>
        BY <1>6, <2>1, <4>2, LayoutPlaces
      <4>3. CASE \E c \in InPorts, vc \in VCs : x = <<"buf", c, vc>>
        BY <4>3, LayoutPlaces
      <4>4. CASE \E c \in Chans : x = <<"link", c, 0>>
        BY <1>7, <2>1, <4>4, LayoutPlaces
      <4> QED
        BY <4>1, <4>2, <4>3, <4>4, PlaceKinds
    <3>2. DOMAIN Q1 = Places /\ DOMAIN Q2 = Places
      BY LayoutPlaces
    <3> HIDE DEF Q1, Q2
    <3>3. HeadsMoved(Q1, {}, <<>>, Q2)
      BY <3>1, <3>2 DEF HeadsMoved
    <3> QED
      BY <3>3
  <2>2. ASSUME NEW vc \in VCs, send = {vc} PROVE \E S, mv : HeadsMoved(Q1, S, mv, Q2)
    <3>1. (CHOOSE x \in send : TRUE) = vc /\ send # {}
      BY <2>2
    <3>2. N1[n][vc] = queued[vc] /\ queued[vc] # <<>> /\ Head(queued[vc]) \in Packets
      BY <1>6, <1>8, <2>2, Taken
    <3>3. Sent(vc) \in Transit /\ Sent(vc).pkt = Head(N1[n][vc]) /\ N1[n][vc] # <<>>
      BY <3>2, NetworkConstants DEF Transit
    <3>4. pipe[inj] \in Seq(Transit)
      BY <1>4, <1>5
    <3>5. \A k \in Routers, w \in VCs :
            nivc'[k][w] = IF k = n /\ w = vc THEN Tail(N1[k][w]) ELSE N1[k][w]
      BY <1>6, <2>2
    <3>6. \A c \in Chans : P1[c] = IF c = inj THEN Append(pipe[c], Sent(vc)) ELSE pipe[c]
      BY <1>7, <3>1
    <3> HIDE DEF Sent
    <3> QED
      BY <3>3, <3>4, <3>5, <3>6, InjectMoves
  <2> QED
    BY <1>8, <2>1, <2>2
<1>11. Layout(Now) /\ Layout(Q1) /\ Layout(Q2)
  <2>1. Layout(Now)
    BY NowPlaces
  <2> HIDE DEF Q1, Q2
  <2> QED
    BY <1>9, <1>10, <2>1, MovedLayout
<1>12. ASSUME NEW p \in Packets PROVE OnceHeld(Q2, fresh, delivered, p)
  <2>1. OnceHeld(Now, fresh, delivered, p)
    BY DEF Conserved
  <2> HIDE DEF Q1, Q2
  <2>2. OnceHeld(Q1, fresh, delivered, p)
    BY <1>9, <1>11, <2>1, HeadsMove
  <2> QED
    BY <1>10, <1>11, <2>2, HeadsMove
<1> DEFINE a == <<"link", ej, 0>>
<1>13. ASSUME NEW x \in Places, x # a \/ ~Ready(pipe[ej]) PROVE Now'[x] = Q2[x]
  <2>1. CASE \E k \in Routers, v \in Vnets : x = <<"msg", k, v>>
    BY <2>1, LayoutPlaces, NextPlaces
  <2>2. CASE \E k \in Routers, vc \in VCs : x = <<"ni", k, vc>>
    BY <2>2, LayoutPlaces, NextPlaces
  <2>3. CASE \E c \in InPorts, vc \in VCs : x = <<"buf", c, vc>>
    BY <1>1, <2>3, LayoutPlaces, NextPlaces
  <2>4. ASSUME NEW c \in Chans, x = <<"link", c, 0>> PROVE Now'[x] = Q2[x]
    <3>1. pipe'[c] = P1[c]
      BY <1>7, <1>13, <2>4
    <3> QED
      BY <2>4, <3>1, LayoutPlaces, NextPlaces
  <2> QED
    BY <2>1, <2>2, <2>3, <2>4, PlaceKinds
<1>14. DOMAIN Q2 = Places /\ DOMAIN Now' = Places
  BY LayoutPlaces, NextPlaces
<1>15. delivered' = delivered \cup (IF Ready(pipe[ej]) THEN {Head(pipe[ej]).pkt} ELSE {})
  BY <1>3 DEF InterfaceEffect
<1>16. CASE Ready(pipe[ej])
  <2>1. P1[ej] = pipe[ej] /\ pipe'[ej] = Tail(pipe[ej]) /\ pipe[ej] # <<>> /\ pipe[ej] \in Seq(Transit)
    BY <1>4, <1>5, <1>7, <1>16 DEF Ready
  <2>2. /\ a \in Places /\ Q2[a] = PacketsOf(pipe[ej]) /\ Now'[a] = PacketsOf(Tail(pipe[ej]))
    BY <1>4, <2>1, LayoutPlaces, NextPlaces
  <2>3. /\ PacketsOf(pipe[ej]) # <<>> /\ PacketsOf(Tail(pipe[ej])) = Tail(PacketsOf(pipe[ej]))
        /\ Head(PacketsOf(pipe[ej])) = Head(pipe[ej]).pkt
    BY <2>1, ItemQueues
  <2>4. Q2[a] # <<>> /\ Now'[a] = Tail(Q2[a]) /\ delivered' = delivered \cup {Head(Q2[a])}
    BY <1>15, <1>16, <2>2, <2>3
  <2> HIDE DEF Q2, a
  <2>5. Delivered(Q2, delivered, a, Now', delivered')
    BY <1>13, <1>14, <2>2, <2>4 DEF Delivered
  <2>6. ASSUME NEW p \in Packets PROVE OnceHeld(Now', fresh', delivered', p)
    <3>1. OnceHeld(Now', fresh, delivered', p)
      BY <1>11, <1>12, <2>5, PacketLeaves
    <3> QED
      BY <1>1, <3>1
  <2> QED
    BY <2>6 DEF Conserved
<1>17. CASE ~Ready(pipe[ej])
  <2> HIDE DEF Q2, a
  <2>1. HeadsMoved(Q2, {}, <<>>, Now') /\ delivered' = delivered
    BY <1>13, <1>14, <1>15, <1>17 DEF HeadsMoved
  <2>2. ASSUME NEW p \in Packets PROVE OnceHeld(Now', fresh', delivered', p)
    <3>1. OnceHeld(Now', fresh, delivered, p)
      BY <1>11, <1>12, <2>1, HeadsMove
    <3> QED
      BY <1>1, <2>1, <3>1
  <2> QED
    BY <2>2 DEF Conserved
<1> QED
  BY <1>16, <1>17

\* Where a drain takes the flit of a port from: another port of the drain path,
\* and for every port a different one.
LEMMA SpinsTurnPorts ==
  ASSUME NEW n \in Nat
  PROVE  LET from(c) == SpinRing[SpunFrom(RingIndex(c), n)]
         IN  /\ \A c \in RingPorts : from(c) \in RingPorts
             /\ \A c, d \in RingPorts : from(c) = from(d) => c = d
             /\ \A c \in RingPorts : \E d \in RingPorts : from(d) = c
<1> DEFINE from(c) == SpinRing[SpunFrom(RingIndex(c), n)]
<1>1. ASSUME NEW c \in RingPorts
      PROVE  /\ RingIndex(c) \in 1 .. RingSize /\ SpinRing[RingIndex(c)] = c
             /\ SpunFrom(RingIndex(c), n) \in 1 .. RingSize
  BY RingPositions
<1>2. \A i, j \in 1 .. RingSize : SpinRing[i] = SpinRing[j] => i = j
  BY MeshAssumption DEF RingVisitsOnce
<1>3. \A i \in 1 .. RingSize : SpinRing[i] \in RingPorts /\ RingIndex(SpinRing[i]) = i
  BY <1>1, <1>2, Ring
<1>4. ASSUME NEW c \in RingPorts, NEW d \in RingPorts, from(c) = from(d) PROVE c = d
  <2>1. SpunFrom(RingIndex(c), n) = SpunFrom(RingIndex(d), n)
    BY <1>1, <1>2, <1>4
  <2>2. RingIndex(c) = RingIndex(d)
    BY <1>1, <2>1, SpinsPermute
  <2> QED
    BY <1>1, <2>2
<1>5. ASSUME NEW c \in RingPorts PROVE \E d \in RingPorts : from(d) = c
  <2>1. PICK i \in 1 .. RingSize : SpunFrom(i, n) = RingIndex(c)
    BY <1>1, SpinsPermute
  <2>2. SpinRing[i] \in RingPorts /\ RingIndex(SpinRing[i]) = i
    BY <1>3
  <2>3. from(SpinRing[i]) = c
    BY <1>1, <2>1, <2>2
  <2> QED
    BY <2>2, <2>3
<1> QED
  BY <1>1, <1>3, <1>4, <1>5

LEMMA DrainConserves ==
  ASSUME NetworkInv, Conserved, NEW r \in Routers, RouterDrain(r)
  PROVE  Conserved'
<1>1. UNCHANGED <<msgq, nivc, pipe, fresh, delivered>>
  BY DEF RouterDrain, niVars
<1>2. PICK spins \in SpinCounts : \E route \in SpinRoutes(spins) : doSpin(spins, route)
  BY DEF RouterDrain
<1>3. PICK route \in SpinRoutes(spins) : doSpin(spins, route)
  BY <1>2
<1>4. Typed /\ spins \in Nat /\ \A vc : SpinsOf(vc, spins) \in Nat
  BY DEF NetworkInv, Typed, SpinCounts, SpinsOf
<1>5. inbuf' = [c \in InPorts |-> [vc \in VCs |->
        IF c \in RingPorts /\ vc \in TimedVcs
        THEN SpinInputVc(RingIndex(c), SpinsOf(vc, spins), vc, route)
        ELSE inbuf[c][vc]]]
  BY <1>3 DEF doSpin
<1> DEFINE from(c, vc) == SpinRing[SpunFrom(RingIndex(c), SpinsOf(vc, spins))]
           T == { <<"buf", c, vc>> : c \in RingPorts, vc \in VCs \cap TimedVcs }
           turn == [x \in Places |-> IF x \in T THEN <<"buf", from(x[2], x[3]), x[3]>> ELSE x]
<1>6. /\ \A c \in RingPorts, vc \in VCs : from(c, vc) \in RingPorts
      /\ \A c, d \in RingPorts, vc \in VCs : from(c, vc) = from(d, vc) => c = d
      /\ \A c \in RingPorts, vc \in VCs : \E d \in RingPorts : from(d, vc) = c
  BY <1>4, SpinsTurnPorts
<1>7. ASSUME NEW c \in RingPorts, NEW vc \in VCs \cap TimedVcs
      PROVE  PacketsOf(inbuf'[c][vc]) = PacketsOf(inbuf[from(c, vc)][vc])
  <2> DEFINE q == inbuf[from(c, vc)][vc]
             f == SpunFlit(Head(q), route[<<RingIndex(c), vc>>])
  <2>1. c \in InPorts /\ vc \in VCs /\ vc \in TimedVcs /\ from(c, vc) \in InPorts
    BY <1>6 DEF InPorts
  <2>2. inbuf'[c][vc] = IF q = <<>> THEN <<>> ELSE <<f>>
    BY <1>5, <2>1 DEF SpinInputVc, FlitsAt
  <2>3. q \in Seq(FlitRecord) /\ (Len(q) = 0 \/ Len(q) = 1)
    BY <1>4, <2>1, QueueTypes, OneBuffered
  <2> HIDE DEF from
  <2>4. CASE q = <<>>
    BY <2>2, <2>4
  <2>5. CASE q # <<>>
    <3>1. Len(q) = 1 /\ Head(q) \in FlitRecord /\ Head(q) = q[1]
      BY <2>3, <2>5, Taken
    <3>2. f.pkt = Head(q).pkt
      BY <3>1 DEF SpunFlit, FlitRecord
    <3> HIDE DEF f, q
    <3>3. PacketsOf(<<f>>) = [i \in 1 .. 1 |-> f.pkt]
      BY DEF PacketsOf
    <3>4. PacketsOf(q) = [i \in 1 .. 1 |-> Head(q).pkt]
      BY <3>1 DEF PacketsOf
    <3>5. inbuf'[c][vc] = <<f>>
      BY <2>2, <2>5
    <3>6. PacketsOf(inbuf'[c][vc]) = PacketsOf(q)
      BY <3>2, <3>3, <3>4, <3>5
    <3> QED
      BY <3>6 DEF q
  <2> QED
    BY <2>4, <2>5
<1>8. ASSUME NEW c \in InPorts, NEW vc \in VCs, ~(c \in RingPorts /\ vc \in TimedVcs)
      PROVE  inbuf'[c][vc] = inbuf[c][vc]
  BY <1>5, <1>8
<1> HIDE DEF from
<1>9. ASSUME NEW c \in RingPorts, NEW vc \in VCs \cap TimedVcs
      PROVE  /\ <<"buf", c, vc>> \in T /\ <<"buf", c, vc>> \in Places
             /\ turn[<<"buf", c, vc>>] = <<"buf", from(c, vc), vc>>
             /\ from(c, vc) \in RingPorts /\ c \in InPorts /\ from(c, vc) \in InPorts
             /\ <<"buf", from(c, vc), vc>> \in T /\ <<"buf", from(c, vc), vc>> \in Places
  <2>1. from(c, vc) \in RingPorts /\ c \in InPorts /\ from(c, vc) \in InPorts /\ vc \in VCs
    BY <1>6 DEF InPorts
  <2>2. <<"buf", c, vc>> \in Places /\ <<"buf", from(c, vc), vc>> \in Places
    BY <1>4, <2>1, NowPlaces
  <2>3. <<"buf", c, vc>> \in T /\ <<"buf", from(c, vc), vc>> \in T
    BY <2>1
  <2> QED
    BY <2>1, <2>2, <2>3
<1>10. \A x \in T : \E c \in RingPorts, vc \in VCs \cap TimedVcs : x = <<"buf", c, vc>>
  OBVIOUS
<1>11. \A x \in Places \ T : turn[x] = x
  OBVIOUS
<1> HIDE DEF T, turn
<1>12. ASSUME NEW x \in Places PROVE turn[x] \in Places /\ Now'[x] = Now[turn[x]]
  <2>1. CASE x \in T
    <3>1. PICK c \in RingPorts, vc \in VCs \cap TimedVcs : x = <<"buf", c, vc>>
      BY <1>10, <2>1
    <3>2. /\ Now'[x] = PacketsOf(inbuf'[c][vc])
          /\ Now[<<"buf", from(c, vc), vc>>] = PacketsOf(inbuf[from(c, vc)][vc])
      BY <1>4, <1>9, <3>1, NowPlaces, NextPlaces
    <3> QED
      BY <1>7, <1>9, <3>1, <3>2
  <2>2. CASE x \notin T
    <3>1. turn[x] = x
      BY <1>11, <2>2
    <3>2. CASE \E k \in Routers, v \in Vnets : x = <<"msg", k, v>>
      BY <1>1, <1>4, <3>1, <3>2, NowPlaces, NextPlaces
    <3>3. CASE \E k \in Routers, vc \in VCs : x = <<"ni", k, vc>>
      BY <1>1, <1>4, <3>1, <3>3, NowPlaces, NextPlaces
    <3>4. ASSUME NEW c \in InPorts, NEW vc \in VCs, x = <<"buf", c, vc>>
          PROVE  Now'[x] = Now[x]
      <4>1. ~(c \in RingPorts /\ vc \in TimedVcs)
        BY <1>9, <2>2, <3>4
      <4>2. inbuf'[c][vc] = inbuf[c][vc]
        BY <1>8, <4>1
      <4> QED
        BY <1>4, <3>4, <4>2, NowPlaces, NextPlaces
    <3>5. CASE \E c \in Chans : x = <<"link", c, 0>>
      BY <1>1, <1>4, <3>1, <3>5, NowPlaces, NextPlaces
    <3> QED
      BY <3>1, <3>2, <3>3, <3>4, <3>5, PlaceKinds
  <2> QED
    BY <2>1, <2>2
<1>13. ASSUME NEW x \in Places PROVE \E y \in Places : turn[y] = x
  <2>1. CASE x \in T
    <3>1. PICK c \in RingPorts, vc \in VCs \cap TimedVcs : x = <<"buf", c, vc>>
      BY <1>10, <2>1
    <3>2. PICK d \in RingPorts : from(d, vc) = c
      BY <1>6
    <3>3. <<"buf", d, vc>> \in Places /\ turn[<<"buf", d, vc>>] = x
      BY <1>9, <3>1, <3>2
    <3> QED
      BY <3>3
  <2>2. CASE x \notin T
    BY <1>11, <2>2
  <2> QED
    BY <2>1, <2>2
<1>14. ASSUME NEW x \in Places, NEW y \in Places, turn[x] = turn[y] PROVE x = y
  <2>1. ASSUME NEW z \in T PROVE turn[z] \in T
    <3>1. PICK c \in RingPorts, vc \in VCs \cap TimedVcs : z = <<"buf", c, vc>>
      BY <1>10
    <3> QED
      BY <1>9, <3>1
  <2>2. CASE x \notin T \/ y \notin T
    BY <1>11, <1>14, <2>1, <2>2
  <2>3. CASE x \in T /\ y \in T
    <3>1. PICK c \in RingPorts, vc \in VCs \cap TimedVcs : x = <<"buf", c, vc>>
      BY <1>10, <2>3
    <3>2. PICK d \in RingPorts, wc \in VCs \cap TimedVcs : y = <<"buf", d, wc>>
      BY <1>10, <2>3
    <3>3. <<"buf", from(c, vc), vc>> = <<"buf", from(d, wc), wc>>
      <4>1. turn[x] = <<"buf", from(c, vc), vc>>
        BY <1>9, <3>1
      <4>2. turn[y] = <<"buf", from(d, wc), wc>>
        BY <1>9, <3>2
      <4> QED
        BY <1>14, <4>1, <4>2
    <3>4. vc = wc /\ from(c, vc) = from(d, vc)
      BY <3>3
    <3> QED
      BY <1>6, <3>1, <3>2, <3>4
  <2> QED
    BY <2>2, <2>3
<1>15. Turned(Now, turn, Now')
  BY <1>4, <1>12, <1>13, <1>14, NowPlaces, NextPlaces DEF Turned
<1>16. ASSUME NEW p \in Packets PROVE OnceHeld(Now', fresh', delivered', p)
  <2>1. OnceHeld(Now, fresh, delivered, p)
    BY DEF Conserved
  <2>2. OnceHeld(Now', fresh, delivered, p)
    BY <1>15, <2>1, QueuesTurn
  <2> QED
    BY <1>1, <2>2
<1> QED
  BY <1>16 DEF Conserved

LEMMA ConservedInit == Init => Conserved
<1> SUFFICES ASSUME Init PROVE Conserved
  OBVIOUS
<1>1. Typed
  BY NetworkInit DEF NetworkInv
<1>2. /\ \A n \in Routers, v \in Vnets : msgq[n][v] = <<>>
      /\ \A n \in Routers, vc \in VCs : nivc[n][vc] = <<>>
      /\ \A c \in InPorts, vc \in VCs : inbuf[c][vc] = <<>>
      /\ \A c \in Chans : pipe[c] = <<>>
      /\ fresh = Packets /\ delivered = {}
  BY DEF Init
<1>3. ASSUME NEW x \in Places PROVE Now[x] = <<>>
  <2>1. CASE \E n \in Routers, v \in Vnets : x = <<"msg", n, v>>
    BY <1>1, <1>2, <2>1, NowPlaces, ItemQueues
  <2>2. CASE \E n \in Routers, vc \in VCs : x = <<"ni", n, vc>>
    BY <1>1, <1>2, <2>2, NowPlaces
  <2>3. CASE \E c \in InPorts, vc \in VCs : x = <<"buf", c, vc>>
    BY <1>1, <1>2, <2>3, NowPlaces, ItemQueues
  <2>4. CASE \E c \in Chans : x = <<"link", c, 0>>
    BY <1>1, <1>2, <2>4, NowPlaces, ItemQueues
  <2> QED
    BY <2>1, <2>2, <2>3, <2>4, PlaceKinds
<1>4. ASSUME NEW p \in Packets PROVE OnceHeld(Now, fresh, delivered, p)
  <2>1. Held(Now, fresh, delivered, <<>>, 0, p)
    BY <1>2 DEF Held
  <2>2. ASSUME NEW y, NEW j, Held(Now, fresh, delivered, y, j, p) PROVE y = <<>> /\ j = 0
    <3>1. ASSUME y \in Places, j \in 1 .. Len(Now[y]) PROVE FALSE
      BY <1>3, <3>1
    <3> QED
      BY <1>1, <1>2, <2>2, <3>1, NowPlaces DEF Held
  <2> QED
    BY <2>1, <2>2, OnlyThere
<1> QED
  BY <1>4 DEF Conserved

LEMMA ConservedNext ==
  ASSUME NetworkInv, Conserved, [Next]_<<vars, spinMult>>
  PROVE  Conserved'
<1>0. Typed /\ Routed
  BY DEF NetworkInv
<1>1. ASSUME UNCHANGED <<msgq, nivc, inbuf, pipe, fresh, delivered>> PROVE Conserved'
  BY <1>1 DEF Conserved, Now
<1>2. CASE UNCHANGED <<vars, spinMult>>
  BY <1>1, <1>2 DEF vars
<1>3. CASE Next
  <2>1. System \/ \E p \in Packets : SendMessage(p)
    BY <1>3 DEF Next
  <2>2. ASSUME NEW r \in Routers, RouterHalt(r) \/ RouterNoSpin(r) PROVE Conserved'
    BY <1>1, <2>2 DEF RouterHalt, RouterNoSpin, niVars
  <2>3. ASSUME NEW r \in Routers, RouterStep(r) PROVE Conserved'
    BY <1>0, <2>2, <2>3, ReceiveConserves, DrainConserves, AllocateConserves DEF RouterStep
  <2> QED
    BY <1>0, <2>1, <2>3, SendConserves, TickConserves, InterfaceConserves DEF System
<1> QED
  BY <1>2, <1>3

\* An interface VC holds at most one flit that waits.
LEMMA OneWaiting ==
  ASSUME NetworkInv, NEW n \in Routers, NEW vc \in VCs
  PROVE  Len(nivc[n][vc]) = 0 \/ Len(nivc[n][vc]) = 1
<1> DEFINE c == <<n, "Local">>
<1>1. c \in Chans /\ Typed /\ FlowInv(c, vc)
  BY DEF NetworkInv, Chans, InPorts, LocalPorts
<1>2. /\ Waiting(c, vc) \in Nat /\ Buffered(c, vc) \in Nat
      /\ OnLink(c, vc) \in Nat /\ Back(c, vc) \in Nat
  BY <1>1, FlowTypes
<1>3. Waiting(c, vc) + OnLink(c, vc) + Buffered(c, vc) + Back(c, vc)
        = IF outvc[c][vc].state = "IDLE" THEN 0 ELSE 1
  BY <1>1, FlowNames DEF FlowInv
<1>4. Waiting(c, vc) = 0 \/ Waiting(c, vc) = 1
  BY <1>2, <1>3
<1> QED
  BY <1>4 DEF Waiting, LocalPorts

Copies(q, p) == Cardinality({ i \in 1 .. Len(q) : q[i].pkt = p })

\* Counting a packet in a queue that has it at most once.
LEMMA CountsOne ==
  ASSUME NEW q, NEW p,
         \A i, j \in 1 .. Len(q) : q[i].pkt = p /\ q[j].pkt = p => i = j
  PROVE  Copies(q, p) = 1 <=> \E i \in 1 .. Len(q) : q[i].pkt = p
<1> DEFINE C == { i \in 1 .. Len(q) : q[i].pkt = p }
<1>1. CASE C = {}
  <2>1. Cardinality(C) = 0
    BY <1>1, FS_EmptySet
  <2> QED
    BY <1>1, <2>1 DEF Copies
<1>2. ASSUME NEW i \in C PROVE Cardinality(C) = 1
  <2>1. C = {i}
    OBVIOUS
  <2> QED
    BY <2>1, FS_Singleton
<1> QED
  BY <1>1, <1>2 DEF Copies

(***************************************************************************)
(* No packet is lost or duplicated: messages picked up, flits injected,    *)
(* received, switched, drained along the ring and ejected are each in one  *)
(* place, the protocol buffer, interface VC, input VC or link they are in. *)
(***************************************************************************)
THEOREM PacketsConserved == DrainFits => (Spec => []PacketConservation)
<1> SUFFICES ASSUME DrainFits PROVE Spec => []PacketConservation
  OBVIOUS
<1>1. NetworkInv /\ Conserved /\ [Next]_<<vars, spinMult>> => Conserved'
  BY ConservedNext
<1>2. NetworkInv /\ Conserved => PacketConservation
  <2> SUFFICES ASSUME NetworkInv, Conserved, NEW p \in Packets
               PROVE  LET inQueue(q) == Cardinality({ i \in 1 .. Len(q) : q[i].pkt = p })
                          places ==
                               { <<"msg", x>>  : x \in { nv \in Routers \X Vnets : inQueue(msgq[nv[1]][nv[2]]) = 1 } }
                          \cup { <<"ni", x>>   : x \in { nv \in Routers \X VCs : nivc[nv[1]][nv[2]] = <<p>> } }
                          \cup { <<"buf", x>>  : x \in { cv \in InPorts \X VCs : inQueue(inbuf[cv[1]][cv[2]]) = 1 } }
                          \cup { <<"link", x>> : x \in { c \in Chans : inQueue(pipe[c]) = 1 } }
                          \cup { <<"end", x>>  : x \in { S \in {"fresh", "delivered"} :
                                                          p \in (IF S = "fresh" THEN fresh ELSE delivered) } }
                      IN  Cardinality(places) = 1
    BY DEF PacketConservation
  <2> DEFINE inMsg  == { nv \in Routers \X Vnets : Copies(msgq[nv[1]][nv[2]], p) = 1 }
             inNi   == { nv \in Routers \X VCs : nivc[nv[1]][nv[2]] = <<p>> }
             inBuf  == { cv \in InPorts \X VCs : Copies(inbuf[cv[1]][cv[2]], p) = 1 }
             inLink == { c \in Chans : Copies(pipe[c], p) = 1 }
             inEnd  == { S \in {"fresh", "delivered"} :
                           p \in (IF S = "fresh" THEN fresh ELSE delivered) }
             places == { <<"msg", x>> : x \in inMsg } \cup { <<"ni", x>> : x \in inNi }
                       \cup { <<"buf", x>> : x \in inBuf } \cup { <<"link", x>> : x \in inLink }
                       \cup { <<"end", x>> : x \in inEnd }
             At(x, i) == Held(Now, fresh, delivered, x, i, p)
  <2>1. Typed
    BY DEF NetworkInv
  <2>2. PICK x, i : At(x, i) /\ \A y, j : At(y, j) => y = x /\ j = i
    BY DEF Conserved, OnceHeld
  <2>3. ASSUME NEW S \in {Transit, FlitRecord, MessageRecord}, NEW q \in Seq(S),
               NEW y \in Places, Now[y] = PacketsOf(q)
        PROVE  y # <<>> => (Copies(q, p) = 1 <=> x = y)
    <3>1. \A j \in 1 .. Len(q) : q[j].pkt = p => At(y, j)
      BY <2>1, <2>3, ItemQueues, NowPlaces DEF Held
    <3>2. \A j, k \in 1 .. Len(q) : q[j].pkt = p /\ q[k].pkt = p => j = k
      BY <2>2, <3>1
    <3>3. Copies(q, p) = 1 <=> \E j \in 1 .. Len(q) : q[j].pkt = p
      BY <3>2, CountsOne
    <3>4. y = x /\ y # <<>> => i \in 1 .. Len(q) /\ q[i].pkt = p
      BY <2>1, <2>2, <2>3, ItemQueues, NowPlaces DEF Held
    <3> HIDE DEF At
    <3> QED
      BY <2>2, <3>1, <3>3, <3>4
  <2>4. \A n \in Routers, v \in Vnets : <<n, v>> \in inMsg <=> x = <<"msg", n, v>>
    <3> TAKE n \in Routers, v \in Vnets
    <3>1. /\ msgq[n][v] \in Seq(MessageRecord) /\ <<"msg", n, v>> \in Places
          /\ Now[<<"msg", n, v>>] = PacketsOf(msgq[n][v]) /\ <<"msg", n, v>> # <<>>
      BY <2>1, NowPlaces
    <3>2. Copies(msgq[n][v], p) = 1 <=> x = <<"msg", n, v>>
      BY <2>3, <3>1
    <3> QED
      BY <3>2
  <2>5. \A n \in Routers, vc \in VCs : <<n, vc>> \in inNi <=> x = <<"ni", n, vc>>
    <3> TAKE n \in Routers, vc \in VCs
    <3>1. /\ nivc[n][vc] \in Seq(Packets) /\ Now[<<"ni", n, vc>>] = nivc[n][vc]
          /\ <<"ni", n, vc>> \in DOMAIN Now /\ (Len(nivc[n][vc]) = 0 \/ Len(nivc[n][vc]) = 1)
      BY <2>1, NowPlaces, OneWaiting
    <3>2. nivc[n][vc] = <<p>> => At(<<"ni", n, vc>>, 1)
      BY <3>1 DEF Held
    <3>3. ASSUME x = <<"ni", n, vc>> PROVE nivc[n][vc] = <<p>>
      <4>1. i \in 1 .. Len(nivc[n][vc]) /\ nivc[n][vc][i] = p
        BY <2>2, <3>1, <3>3 DEF Held
      <4>2. Len(nivc[n][vc]) = 1 /\ nivc[n][vc][1] = p
        BY <3>1, <4>1
      <4> QED
        BY <3>1, <4>2
    <3>4. nivc[n][vc] = <<p>> <=> x = <<"ni", n, vc>>
      BY <2>2, <3>2, <3>3
    <3> QED
      BY <3>4
  <2>6. \A c \in InPorts, vc \in VCs : <<c, vc>> \in inBuf <=> x = <<"buf", c, vc>>
    <3> TAKE c \in InPorts, vc \in VCs
    <3>1. /\ inbuf[c][vc] \in Seq(FlitRecord) /\ <<"buf", c, vc>> \in Places
          /\ Now[<<"buf", c, vc>>] = PacketsOf(inbuf[c][vc]) /\ <<"buf", c, vc>> # <<>>
      BY <2>1, NowPlaces
    <3>2. Copies(inbuf[c][vc], p) = 1 <=> x = <<"buf", c, vc>>
      BY <2>3, <3>1
    <3> QED
      BY <3>2
  <2>7. \A c \in Chans : c \in inLink <=> x = <<"link", c, 0>>
    <3> TAKE c \in Chans
    <3>1. /\ pipe[c] \in Seq(Transit) /\ <<"link", c, 0>> \in Places
          /\ Now[<<"link", c, 0>>] = PacketsOf(pipe[c]) /\ <<"link", c, 0>> # <<>>
      BY <2>1, NowPlaces
    <3>2. Copies(pipe[c], p) = 1 <=> x = <<"link", c, 0>>
      BY <2>3, <3>1
    <3> QED
      BY <3>2
  <2>8. /\ "fresh" \in inEnd <=> x = <<>> /\ i = 0
        /\ "delivered" \in inEnd <=> x = <<>> /\ i = -1
    <3>1. p \in fresh <=> At(<<>>, 0)
      BY <2>1, NowPlaces DEF Held
    <3>2. p \in delivered <=> At(<<>>, -1)
      BY <2>1, NowPlaces DEF Held
    <3> HIDE DEF At
    <3> QED
      BY <2>2, <3>1, <3>2
  <2>9. \/ \E n \in Routers, v \in Vnets : x = <<"msg", n, v>>
        \/ \E n \in Routers, vc \in VCs : x = <<"ni", n, vc>>
        \/ \E c \in InPorts, vc \in VCs : x = <<"buf", c, vc>>
        \/ \E c \in Chans : x = <<"link", c, 0>>
        \/ x = <<>> /\ i = 0
        \/ x = <<>> /\ i = -1
    BY <2>1, <2>2, NowPlaces, PlaceKinds DEF Held
  <2>10. /\ inMsg \subseteq Routers \X Vnets /\ inNi \subseteq Routers \X VCs
         /\ inBuf \subseteq InPorts \X VCs /\ inLink \subseteq Chans
         /\ inEnd \subseteq {"fresh", "delivered"}
    OBVIOUS
  <2> HIDE DEF inMsg, inNi, inBuf, inLink, inEnd, At
  <2>11. \E e : places = {e}
    <3>1. ASSUME NEW n \in Routers, NEW v \in Vnets, x = <<"msg", n, v>>
          PROVE  places = { <<"msg", <<n, v>> >> }
      <4>1. inMsg = { <<n, v>> }
        BY <2>4, <2>10, <3>1
      <4>2. inNi = {} /\ inBuf = {} /\ inLink = {} /\ inEnd = {}
        BY <2>5, <2>6, <2>7, <2>8, <2>10, <3>1
      <4> QED
        BY <4>1, <4>2
    <3>2. ASSUME NEW n \in Routers, NEW vc \in VCs, x = <<"ni", n, vc>>
          PROVE  places = { <<"ni", <<n, vc>> >> }
      <4>1. inNi = { <<n, vc>> }
        BY <2>5, <2>10, <3>2
      <4>2. inMsg = {} /\ inBuf = {} /\ inLink = {} /\ inEnd = {}
        BY <2>4, <2>6, <2>7, <2>8, <2>10, <3>2
      <4> QED
        BY <4>1, <4>2
    <3>3. ASSUME NEW c \in InPorts, NEW vc \in VCs, x = <<"buf", c, vc>>
          PROVE  places = { <<"buf", <<c, vc>> >> }
      <4>1. inBuf = { <<c, vc>> }
        BY <2>6, <2>10, <3>3
      <4>2. inMsg = {} /\ inNi = {} /\ inLink = {} /\ inEnd = {}
        BY <2>4, <2>5, <2>7, <2>8, <2>10, <3>3
      <4> QED
        BY <4>1, <4>2
    <3>4. ASSUME NEW c \in Chans, x = <<"link", c, 0>>
          PROVE  places = { <<"link", c>> }
      <4>1. inLink = {c}
        BY <2>7, <2>10, <3>4
      <4>2. inMsg = {} /\ inNi = {} /\ inBuf = {} /\ inEnd = {}
        BY <2>4, <2>5, <2>6, <2>8, <2>10, <3>4
      <4> QED
        BY <4>1, <4>2
    <3>5. ASSUME x = <<>>
          PROVE  /\ inMsg = {} /\ inNi = {} /\ inBuf = {} /\ inLink = {}
                 /\ i = 0 => inEnd = {"fresh"}
                 /\ i = -1 => inEnd = {"delivered"}
      <4>1. inMsg = {} /\ inNi = {} /\ inBuf = {} /\ inLink = {}
        BY <2>4, <2>5, <2>6, <2>7, <2>10, <3>5
      <4>2. ASSUME i = 0 PROVE inEnd = {"fresh"}
        <5>1. "fresh" \in inEnd
          BY <2>8, <3>5, <4>2
        <5>2. "delivered" \notin inEnd
          BY <2>8, <4>2
        <5> QED
          BY <2>10, <5>1, <5>2
      <4>3. ASSUME i = -1 PROVE inEnd = {"delivered"}
        <5>1. "delivered" \in inEnd
          BY <2>8, <3>5, <4>3
        <5>2. "fresh" \notin inEnd
          BY <2>8, <4>3
        <5> QED
          BY <2>10, <5>1, <5>2
      <4> QED
        BY <4>1, <4>2, <4>3
    <3>6. ASSUME x = <<>>, i = 0 PROVE places = { <<"end", "fresh">> }
      BY <3>5, <3>6
    <3>7. ASSUME x = <<>>, i = -1 PROVE places = { <<"end", "delivered">> }
      BY <3>5, <3>7
    <3> HIDE DEF places
    <3> QED
      BY <2>9, <3>1, <3>2, <3>3, <3>4, <3>6, <3>7
  <2>12. Cardinality(places) = 1
    BY <2>11, FS_Singleton
  <2> QED
    BY <2>12 DEF Copies, inMsg, inNi, inBuf, inLink, inEnd
<1> QED
  BY <1>1, <1>2, ConservedInit, NetworkInvariant, PTL DEF Spec
=============================================================================
