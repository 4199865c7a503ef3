------------------------- MODULE DrainControlProofs -------------------------
(***************************************************************************)
(* Proofs about the halt-and-drain protocol for every number of routers    *)
(* and channels, every link latency and every drain period above 3.        *)
(***************************************************************************)
EXTENDS DrainControl, TLAPS

USE DEF PreDrainDelay, DrainDelay, LinkDelay

\* Init establishes the inductive invariant: no router has run, nothing flies.
LEMMA InitInv == Init => IInv
<1> SUFFICES ASSUME Init PROVE IInv
  OBVIOUS
<1>1. TypeOK
  <2>1. phase \in 0 .. SpinThreshold - 1
    BY ControlAssumption DEF Init
  <2>2. running \in {Idle} \cup (Routers \X {"spin", "sa"})
    BY DEF Init
  <2>3. /\ wake \in [Routers -> SUBSET Delays]
        /\ flying \in [Channels -> SUBSET (0 .. LinkDelay)]
    BY DEF Init
  <2> QED
    BY <2>1, <2>2, <2>3 DEF Init, TypeOK
<1>2. LockMatchesHalt
  BY DEF Init, LockMatchesHalt
<1>3. DrainScheduled
  BY DEF Init, DrainScheduled
<1>4. FlightTimes
  BY DEF Init, FlightTimes, AtThreshold
<1> QED
  BY <1>1, <1>2, <1>3, <1>4 DEF IInv

\* More wakeups keep the ones there were, and their type.
LEMMA MoreWakeupsKeeps ==
  ASSUME NEW old, NEW new, MoreWakeups(old, new)
  PROVE  /\ new \in [Routers -> SUBSET Delays]
         /\ \A r \in Routers : \A d \in old[r] : d \in new[r]
  BY DEF MoreWakeups

\* Taking arrivals leaves a channel with a subset of what was on it.
LEMMA ArrivedShrinks ==
  ASSUME Arrived(flying')
  PROVE  /\ flying' \in [Channels -> SUBSET (0 .. LinkDelay)]
         /\ \A c \in Channels : flying'[c] \subseteq flying[c]
  BY DEF Arrived

\* A step that sets neither halt nor lock nor the clock, keeps the drain
\* scheduled and only takes things off the channels, preserves the invariant.
LEMMA ReceiveInv ==
  ASSUME IInv, NEW r \in Routers, Receive(r)
  PROVE  IInv'
<1> USE ControlAssumption
<1>2. /\ flying' \in [Channels -> SUBSET (0 .. LinkDelay)]
      /\ \A c \in Channels : flying'[c] \subseteq flying[c]
  BY ArrivedShrinks DEF Receive
<1>3. /\ wake' \in [Routers -> SUBSET Delays]
      /\ \A x \in Routers : \A d \in Ran(r)[x] : d \in wake'[x]
  BY MoreWakeupsKeeps DEF Receive
<1>4. TypeOK'
  BY <1>2, <1>3 DEF IInv, TypeOK, Receive
<1>5. LockMatchesHalt'
  BY DEF IInv, LockMatchesHalt, Receive
<1>6. DrainScheduled'
  <2> SUFFICES ASSUME lock # NoRouter, NEW x \in Routers
               PROVE  \/ DrainDelay - phase \in wake'[x]
                      \/ phase = DrainDelay /\ running' = <<x, "spin">>
    BY DEF DrainScheduled, Receive
  <2>1. DrainDelay - phase \in wake[x]
    BY DEF IInv, DrainScheduled, Receive, Idle
  <2>2. CASE DrainDelay - phase # 0 \/ x # r
    BY <1>3, <2>1, <2>2 DEF Ran, IInv, TypeOK
  <2>3. CASE DrainDelay - phase = 0 /\ x = r
    BY <2>3 DEF Receive, IInv, TypeOK
  <2> QED
    BY <2>2, <2>3
<1>7. FlightTimes'
  BY <1>2 DEF IInv, FlightTimes, Receive, AtThreshold
<1> QED
  BY <1>4, <1>5, <1>6, <1>7 DEF IInv

\* The threshold step: the invariant's bound on arrivals before the halt
\* becomes the bound at phase 0 of the halt.
LEMMA HaltInv ==
  ASSUME IInv, NEW r \in Routers, Halt(r)
  PROVE  IInv'
<1> USE ControlAssumption
<1>1. CASE halt[r]
  <2>1. lock # NoRouter /\ lock' = lock
    BY <1>1 DEF IInv, LockMatchesHalt, Halt
  <2>2. TypeOK'
    BY <1>1, <2>1 DEF IInv, TypeOK, Halt
  <2>3. LockMatchesHalt'
    BY <1>1, <2>1 DEF IInv, LockMatchesHalt, Halt
  <2>4. DrainScheduled'
    BY <1>1, <2>1 DEF IInv, DrainScheduled, Halt, AtThreshold
  <2>5. FlightTimes'
    BY <1>1, <2>1 DEF IInv, FlightTimes, Halt
  <2> QED
    BY <2>2, <2>3, <2>4, <2>5 DEF IInv
<1>2. CASE ~halt[r]
  <2>1. lock = NoRouter /\ lock' = r
    BY <1>2 DEF IInv, LockMatchesHalt, Halt
  <2>2. TypeOK'
    <3>1. DrainDelay \in Delays
      BY DEF Delays
    <3>2. wake' \in [Routers -> SUBSET Delays]
      BY <1>2, <3>1 DEF IInv, TypeOK, Halt
    <3>3. halt' \in [Routers -> BOOLEAN]
      BY <1>2 DEF Halt
    <3> QED
      BY <2>1, <3>2, <3>3 DEF IInv, TypeOK, Halt
  <2>3. LockMatchesHalt'
    BY <1>2, <2>1 DEF Halt, LockMatchesHalt, AtThreshold
  <2>4. DrainScheduled'
    BY <1>2 DEF Halt, DrainScheduled, AtThreshold
  <2>5. FlightTimes'
    BY <2>1 DEF IInv, TypeOK, FlightTimes, Halt, AtThreshold
  <2> QED
    BY <2>2, <2>3, <2>4, <2>5 DEF IInv
<1> QED
  BY <1>1, <1>2

\* The drain releases lock and halts together.
LEMMA DrainInv ==
  ASSUME IInv, NEW r \in Routers, Drain(r)
  PROVE  IInv'
<1> USE ControlAssumption
<1>1. wake' \in [Routers -> SUBSET Delays]
  BY MoreWakeupsKeeps DEF Drain
<1>2. TypeOK'
  BY <1>1 DEF IInv, TypeOK, Drain
<1>3. LockMatchesHalt'
  BY DEF IInv, LockMatchesHalt, Drain
<1>4. DrainScheduled'
  BY DEF DrainScheduled, Drain
<1>5. FlightTimes'
  BY DEF FlightTimes, Drain, AtThreshold, DrainTime
<1> QED
  BY <1>2, <1>3, <1>4, <1>5 DEF IInv

\* A router past the threshold check: only its position in the handler moves.
LEMMA NoSpinInv ==
  ASSUME IInv, NEW r \in Routers, NoSpin(r)
  PROVE  IInv'
<1> USE ControlAssumption
<1>1. TypeOK'
  BY DEF IInv, TypeOK, NoSpin
<1>2. LockMatchesHalt'
  BY DEF IInv, LockMatchesHalt, NoSpin
<1>3. DrainScheduled'
  <2> SUFFICES ASSUME lock # NoRouter, NEW x \in Routers
               PROVE  DrainDelay - phase \in wake[x]
    BY DEF DrainScheduled, NoSpin
  <2>1. started /\ phase <= PreDrainDelay
    BY DEF IInv, TypeOK, LockMatchesHalt, NoSpin, DrainTime
  <2> QED
    BY <2>1 DEF IInv, DrainScheduled, TypeOK
<1>4. FlightTimes'
  BY DEF IInv, FlightTimes, NoSpin, AtThreshold
<1> QED
  BY <1>1, <1>2, <1>3, <1>4 DEF IInv

\* A halted router sends nothing, and at the threshold no router that is not
\* halted gets as far as its switch allocation.
LEMMA AllocateInv ==
  ASSUME IInv, NEW r \in Routers, Allocate(r)
  PROVE  IInv'
<1> USE ControlAssumption
<1>1. flying' \in [Channels -> SUBSET (0 .. LinkDelay)]
  BY DEF IInv, TypeOK, Allocate, Sent
<1>2. /\ wake' \in [Routers -> SUBSET Delays]
      /\ \A x \in Routers : \A d \in wake[x] : d \in wake'[x]
  BY MoreWakeupsKeeps DEF Allocate
<1>3. TypeOK'
  BY <1>1, <1>2 DEF IInv, TypeOK, Allocate
<1>4. LockMatchesHalt'
  BY DEF IInv, LockMatchesHalt, Allocate
<1>5. DrainScheduled'
  BY <1>2 DEF IInv, DrainScheduled, Allocate
<1>6. CASE lock # NoRouter
  <2>1. flying' = flying
    BY <1>6 DEF IInv, LockMatchesHalt, Allocate
  <2> QED
    BY <1>3, <1>4, <1>5, <1>6, <2>1 DEF IInv, FlightTimes, Allocate, AtThreshold
<1>7. CASE lock = NoRouter
  <2>1. ~AtThreshold
    BY <1>7 DEF IInv, FlightTimes, Allocate
  <2> QED
    BY <1>3, <1>4, <1>5, <1>7, <2>1 DEF IInv, FlightTimes, Allocate, AtThreshold
<1> QED
  BY <1>6, <1>7

\* An interface takes flits off channels and schedules routers.
LEMMA InterfaceInv ==
  ASSUME IInv, Interface
  PROVE  IInv'
<1> USE ControlAssumption
<1>2. /\ flying' \in [Channels -> SUBSET (0 .. LinkDelay)]
      /\ \A c \in Channels : flying'[c] \subseteq flying[c]
  BY ArrivedShrinks DEF Interface
<1>3. /\ wake' \in [Routers -> SUBSET Delays]
      /\ \A x \in Routers : \A d \in wake[x] : d \in wake'[x]
  BY MoreWakeupsKeeps DEF Interface
<1>4. TypeOK'
  BY <1>2, <1>3 DEF IInv, TypeOK, Interface
<1>5. LockMatchesHalt' /\ DrainScheduled'
  BY <1>3 DEF IInv, LockMatchesHalt, DrainScheduled, Interface
<1>6. FlightTimes'
  BY <1>2 DEF IInv, FlightTimes, Interface, AtThreshold
<1> QED
  BY <1>4, <1>5, <1>6 DEF IInv

\* The clock cannot pass the drain cycle while the lock is held, because the
\* lock holder's wakeup for that cycle is still due; before it, phase and
\* arrivals move in step.
LEMMA TickInv ==
  ASSUME IInv, Tick
  PROVE  IInv'
<1> USE ControlAssumption
<1>1. /\ phase \in 0 .. SpinThreshold - 1
      /\ wake \in [Routers -> SUBSET Delays]
      /\ flying \in [Channels -> SUBSET (0 .. LinkDelay)]
  BY DEF IInv, TypeOK
<1>2. \A c \in Channels : \A d \in flying'[c] :
        /\ d \in 0 .. LinkLatency
        /\ d + 1 \in flying[c]
  BY <1>1 DEF Tick
<1>3. \A r \in Routers : \A d \in wake'[r] : d \in Delays
  BY <1>1 DEF Tick, Delays
<1>4. TypeOK'
  <2>1. phase' \in 0 .. SpinThreshold - 1
    BY <1>1 DEF Tick
  <2>2. wake' \in [Routers -> SUBSET Delays]
    <3>1. \A r \in Routers : { d - 1 : d \in wake[r] } \subseteq Delays
      BY <1>1 DEF Tick, Delays
    <3> QED
      BY <3>1 DEF Tick
  <2>3. flying' \in [Channels -> SUBSET (0 .. LinkDelay)]
    BY <1>2 DEF Tick
  <2> QED
    BY <2>1, <2>2, <2>3 DEF IInv, TypeOK, Tick
<1>5. ASSUME lock # NoRouter
      PROVE  phase < DrainDelay /\ phase' = phase + 1
  <2>1. lock \in Routers
    BY <1>5 DEF IInv, TypeOK
  <2>2. DrainDelay - phase \in wake[lock]
    BY <1>5, <2>1 DEF IInv, DrainScheduled, Tick, Idle
  <2>3. DrainDelay - phase # 0
    BY <2>1, <2>2 DEF Tick
  <2>4. phase <= DrainDelay
    BY <1>5 DEF IInv, LockMatchesHalt
  <2> QED
    BY <1>1, <2>3, <2>4 DEF Tick
<1>6. LockMatchesHalt'
  <2>1. \A r \in Routers : halt'[r] <=> lock' # NoRouter
    BY DEF IInv, LockMatchesHalt, Tick
  <2>2. ASSUME lock' # NoRouter PROVE started' /\ phase' <= DrainDelay
    <3>1. lock # NoRouter
      BY <2>2 DEF Tick
    <3>2. started'
      BY <3>1 DEF IInv, LockMatchesHalt, Tick
    <3> QED
      BY <1>1, <1>5, <3>1, <3>2
  <2> QED
    BY <2>1, <2>2 DEF LockMatchesHalt
<1>7. DrainScheduled'
  <2> SUFFICES ASSUME lock # NoRouter, NEW x \in Routers
               PROVE  DrainDelay - phase' \in wake'[x]
    BY DEF DrainScheduled, Tick
  <2>1. DrainDelay - phase \in wake[x]
    BY DEF IInv, DrainScheduled, Tick, Idle
  <2>2. DrainDelay - phase - 1 \in wake'[x]
    BY <2>1 DEF Tick
  <2> QED
    BY <1>1, <1>5, <2>2
<1>8. FlightTimes'
  <2>1. ASSUME lock' # NoRouter, NEW c \in Channels, NEW d \in flying'[c]
        PROVE  d + phase' <= LinkLatency
    <3>1. d + 1 + phase <= LinkLatency
      BY <1>2, <2>1 DEF IInv, FlightTimes, Tick
    <3> QED
      BY <1>1, <1>2, <1>5, <2>1, <3>1 DEF Tick
  <2>2. running'[2] # "sa"
    BY DEF Tick, Idle
  <2> QED
    BY <1>2, <2>1, <2>2 DEF FlightTimes
<1> QED
  BY <1>4, <1>6, <1>7, <1>8 DEF IInv

\* Every step preserves the inductive invariant.
LEMMA NextInv == IInv /\ [Next]_vars => IInv'
<1> SUFFICES ASSUME IInv, [Next]_vars PROVE IInv'
  OBVIOUS
<1>1. ASSUME NEW r \in Routers, RouterStep(r) PROVE IInv'
  BY <1>1, ReceiveInv, HaltInv, DrainInv, NoSpinInv, AllocateInv DEF RouterStep
<1>2. CASE Interface
  BY <1>2, InterfaceInv
<1>3. CASE Tick
  BY <1>3, TickInv
<1>4. CASE UNCHANGED vars
  BY <1>4 DEF vars, IInv, TypeOK, LockMatchesHalt, DrainScheduled, FlightTimes, AtThreshold
<1> QED
  BY <1>1, <1>2, <1>3, <1>4 DEF Next

\* The inductive invariant holds in every reachable state.
THEOREM Invariance == Spec => []IInv
  BY InitInv, NextInv, PTL DEF Spec

\* Every variable stays within its type (assertions of Router::wakeup aside).
THEOREM TypeCorrect == Spec => []TypeOK
<1>1. IInv => TypeOK
  BY DEF IInv
<1> QED
  BY <1>1, Invariance, PTL

\* Router::wakeup's assert(lock == -1) holds, and no halt outlives its drain.
THEOREM LockIsHalt == Spec => []LockMatchesHalt
<1>1. IInv => LockMatchesHalt
  BY DEF IInv
<1> QED
  BY <1>1, Invariance, PTL

\* The network is quiet from LinkLatency cycles after the halt to the drain.
THEOREM SettledAtDrain == Spec => []Settled
<1>1. IInv => Settled
  <2> SUFFICES ASSUME IInv, lock # NoRouter, phase > LinkLatency, NEW c \in Channels
               PROVE  flying[c] = {}
    BY DEF Settled
  <2>1. \A d \in flying[c] : d \in Nat /\ d + phase <= LinkLatency
    BY ControlAssumption DEF IInv, FlightTimes, TypeOK
  <2> QED
    BY <2>1, ControlAssumption DEF IInv, TypeOK
<1> QED
  BY <1>1, Invariance, PTL

\* While the network stays halted nothing is sent, and only the drain of the
\* scheduled cycle, over quiet channels, ends the halt (Router::wakeup).
THEOREM HaltIsDisciplined == Spec => HaltDiscipline
<1> DEFINE Keeps ==
      /\ lock # NoRouter /\ lock' # NoRouter =>
           /\ lock' = lock
           /\ \A c \in Channels : LinkDelay \notin flying'[c]
      /\ lock # NoRouter /\ lock' = NoRouter =>
           /\ phase = DrainDelay
           /\ LinkLatency <= PreDrainDelay => \A c \in Channels : flying[c] = {}
<1>1. IInv /\ IInv' /\ [Next]_vars => [Keeps]_vars
  <2> SUFFICES ASSUME IInv, IInv', Next, lock # NoRouter PROVE Keeps
    BY DEF vars
  <2> USE ControlAssumption
  <2>2. CASE lock' # NoRouter
    <3>1. lock' = lock
      BY <2>2 DEF Next, RouterStep, Receive, Halt, NoSpin, Allocate, Interface, Tick, Drain
    <3>2. \A c \in Channels : \A d \in flying'[c] : d + phase' <= LinkLatency
      BY <2>2 DEF IInv, FlightTimes
    <3>3. phase' \in Nat
      BY DEF IInv, TypeOK
    <3>4. \A c \in Channels : LinkDelay \notin flying'[c]
      BY <3>2, <3>3
    <3> QED
      BY <2>2, <3>1, <3>4
  <2>3. CASE lock' = NoRouter
    <3>1. PICK r \in Routers : Drain(r)
      BY <2>3 DEF Next, RouterStep, Receive, Halt, NoSpin, Allocate, Interface, Tick
    <3>2. phase = DrainDelay
      BY <3>1 DEF IInv, TypeOK, LockMatchesHalt, Drain, DrainTime
    <3>3. ASSUME LinkLatency <= PreDrainDelay, NEW c \in Channels PROVE flying[c] = {}
      BY <3>2, <3>3 DEF IInv, TypeOK, FlightTimes
    <3> QED
      BY <2>3, <3>2, <3>3
  <2> QED
    BY <2>2, <2>3
<1> QED
  BY <1>1, Invariance, PTL DEF Spec, HaltDiscipline
=============================================================================
