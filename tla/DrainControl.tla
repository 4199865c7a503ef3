---------------------------- MODULE DrainControl ----------------------------
(***************************************************************************)
(* The halt-and-drain protocol of Router::wakeup on its own, for any set   *)
(* of routers, any set of channels between them (flit links and credit     *)
(* links alike), any link latency and any drain period.                    *)
(*                                                                         *)
(* What the routers carry is left out: a channel is the set of delays      *)
(* after which its flits or credits arrive, and a router that is not       *)
(* halted may put something on any channel when it allocates its switch.   *)
(* DrainNetwork implements this specification; the theorems about it are   *)
(* in DrainControlProofs.                                                  *)
(***************************************************************************)
EXTENDS Integers

CONSTANTS
  Routers,        \* the routers of the network
  NoRouter,       \* the value -1 of GarnetNetwork::lock
  Channels,       \* links that must be quiet for a drain
  LinkLatency,    \* m_latency of the links
  SpinThreshold,  \* m_spin_thrshld
  MaxDelay        \* the furthest ahead a wakeup is scheduled

PreDrainDelay == 2
DrainDelay    == PreDrainDelay + 1
LinkDelay     == 1 + LinkLatency   \* source queue, then the link itself
Delays        == 0 .. MaxDelay

ASSUME ControlAssumption ==
  /\ NoRouter \notin Routers
  /\ LinkLatency \in Nat \ {0}
  /\ SpinThreshold \in Nat /\ SpinThreshold > DrainDelay
  /\ MaxDelay \in Nat /\ MaxDelay >= DrainDelay

VARIABLES
  phase,    \* curCycle() % m_spin_thrshld
  started,  \* curCycle() >= m_spin_thrshld
  wake,     \* scheduled wakeups of every router, in cycles from now
  running,  \* <<router, step>> of the router that is in its wakeup
  halt,     \* halt_ of every router
  lock,     \* GarnetNetwork::lock
  flying    \* arrival delays on every channel

vars == <<phase, started, wake, running, halt, lock, flying>>

Idle == <<NoRouter, "idle">>

Init ==
  /\ phase = 0
  /\ started = FALSE
  /\ wake = [r \in Routers |-> {}]
  /\ running = Idle
  /\ halt = [r \in Routers |-> FALSE]
  /\ lock = NoRouter
  /\ flying = [c \in Channels |-> {}]

AtThreshold == started /\ phase = 0
DrainTime   == started /\ phase > PreDrainDelay /\ lock # NoRouter

\* Wakeups may be scheduled for later cycles and are never withdrawn.
MoreWakeups(old, new) ==
  /\ new \in [Routers -> SUBSET Delays]
  /\ \A r \in Routers : old[r] \subseteq new[r] /\ (0 \in new[r] => 0 \in old[r])

Ran(r) == [wake EXCEPT ![r] = @ \ {0}]

\* Of each channel, what has arrived is taken or left alone.
Arrived(new) ==
  /\ new \in [Channels -> SUBSET (0 .. LinkDelay)]
  /\ \A c \in Channels : new[c] = flying[c] \/ new[c] = flying[c] \ {0}

\* Of each channel, something is put on it or it is left alone.
Sent(new) ==
  /\ new \in [Channels -> SUBSET (0 .. LinkDelay)]
  /\ \A c \in Channels : new[c] = flying[c] \/ new[c] = flying[c] \cup {LinkDelay}

\* Router r starts its wakeup and takes what has arrived on its channels.
Receive(r) ==
  /\ running = Idle
  /\ 0 \in wake[r]
  /\ running' = <<r, "spin">>
  /\ Arrived(flying')
  /\ MoreWakeups(Ran(r), wake')
  /\ UNCHANGED <<phase, started, halt, lock>>

\* Mutant of Halt: nobody is woken for the drain.
HaltSilently(r) ==
  /\ running = <<r, "spin">>
  /\ AtThreshold
  /\ running' = <<r, "sa">>
  /\ halt' = [x \in Routers |-> TRUE]
  /\ lock' = IF lock = NoRouter THEN r ELSE lock
  /\ UNCHANGED <<phase, started, wake, flying>>

\* The threshold: the first router halts all, locks and schedules the drain.
Halt(r) ==
  /\ running = <<r, "spin">>
  /\ AtThreshold
  /\ running' = <<r, "sa">>
  /\ IF halt[r]
     THEN UNCHANGED <<halt, wake>>
     ELSE /\ halt' = [x \in Routers |-> TRUE]
          /\ wake' = [x \in Routers |-> wake[x] \cup {DrainDelay}]
  /\ lock' = IF lock = NoRouter THEN r ELSE lock
  /\ UNCHANGED <<phase, started, flying>>

\* Mutant of Drain: the lock is not released.
DrainKeepsLock(r) ==
  /\ running = <<r, "spin">>
  /\ DrainTime
  /\ running' = <<r, "sa">>
  /\ halt' = [x \in Routers |-> FALSE]
  /\ MoreWakeups(wake, wake')
  /\ UNCHANGED <<phase, started, lock, flying>>

\* The drain: the spins happen here, then the network resumes.
Drain(r) ==
  /\ running = <<r, "spin">>
  /\ DrainTime
  /\ running' = <<r, "sa">>
  /\ halt' = [x \in Routers |-> FALSE]
  /\ lock' = NoRouter
  /\ MoreWakeups(wake, wake')
  /\ UNCHANGED <<phase, started, flying>>

NoSpin(r) ==
  /\ running = <<r, "spin">>
  /\ ~AtThreshold
  /\ ~DrainTime
  /\ running' = <<r, "sa">>
  /\ UNCHANGED <<phase, started, wake, halt, lock, flying>>

\* Mutant of Allocate: switch allocation does not look at halt_.
AllocateUnhalted(r) ==
  /\ running = <<r, "sa">>
  /\ running' = Idle
  /\ Sent(flying')
  /\ MoreWakeups(wake, wake')
  /\ UNCHANGED <<phase, started, halt, lock>>

\* Switch allocation: nothing leaves a halted router.
Allocate(r) ==
  /\ running = <<r, "sa">>
  /\ running' = Idle
  /\ IF halt[r] THEN UNCHANGED flying ELSE Sent(flying')
  /\ MoreWakeups(wake, wake')
  /\ UNCHANGED <<phase, started, halt, lock>>

\* A network interface takes ejected flits and may schedule routers.
Interface ==
  /\ running = Idle
  /\ Arrived(flying')
  /\ MoreWakeups(wake, wake')
  /\ UNCHANGED <<phase, started, running, halt, lock>>

\* The next cycle, once every router scheduled for this one has run and every
\* arrival has been taken by the consumer its link scheduled for it.
Tick ==
  /\ running = Idle
  /\ \A r \in Routers : 0 \notin wake[r]
  /\ \A c \in Channels : 0 \notin flying[c]
  /\ phase' = IF phase = SpinThreshold - 1 THEN 0 ELSE phase + 1
  /\ started' = (started \/ phase = SpinThreshold - 1)
  /\ wake' = [r \in Routers |-> { d - 1 : d \in wake[r] }]
  /\ flying' = [c \in Channels |-> { d - 1 : d \in flying[c] }]
  /\ UNCHANGED <<running, halt, lock>>

RouterStep(r) == Receive(r) \/ Halt(r) \/ Drain(r) \/ NoSpin(r) \/ Allocate(r)

Next == (\E r \in Routers : RouterStep(r)) \/ Interface \/ Tick

Spec == Init /\ [][Next]_vars

-----------------------------------------------------------------------------
\* The values every variable ranges over.
TypeOK ==
  /\ phase \in 0 .. SpinThreshold - 1
  /\ started \in BOOLEAN
  /\ wake \in [Routers -> SUBSET Delays]
  /\ running \in {Idle} \cup (Routers \X {"spin", "sa"})
  /\ halt \in [Routers -> BOOLEAN]
  /\ lock \in Routers \cup {NoRouter}
  /\ flying \in [Channels -> SUBSET (0 .. LinkDelay)]

(***************************************************************************)
(* All routers are halted exactly while the lock is held, which is from    *)
(* the threshold to the drain DrainDelay cycles later: the assert on the   *)
(* lock in Router::wakeup, and no halt outlives its drain.                 *)
(***************************************************************************)
LockMatchesHalt ==
  /\ \A r \in Routers : halt[r] <=> lock # NoRouter
  /\ lock # NoRouter => started /\ phase <= DrainDelay

(***************************************************************************)
(* Once the links have had LinkLatency cycles since the halt, every        *)
(* channel is quiet until the drain.  With the default latency of 1 that   *)
(* covers both asserts on spin_safe_ in Router::wakeup.                    *)
(***************************************************************************)
Settled ==
  lock # NoRouter /\ phase > LinkLatency => \A c \in Channels : flying[c] = {}

\* The wakeup scheduled for the drain cannot get lost: while the lock is held
\* every router is scheduled for the drain cycle, or is the one running in it.
DrainScheduled ==
  lock # NoRouter =>
    \A r \in Routers :
      \/ DrainDelay - phase \in wake[r]
      \/ phase = DrainDelay /\ running = <<r, "spin">>

\* No arrival is further away than the cycles the halt leaves to it.
FlightTimes ==
  /\ lock # NoRouter =>
       \A c \in Channels : \A d \in flying[c] : d + phase <= LinkLatency
  /\ AtThreshold /\ lock = NoRouter =>
       /\ running[2] # "sa"
       /\ \A c \in Channels : \A d \in flying[c] : d <= LinkLatency

\* The inductive invariant behind Settled and LockMatchesHalt.
IInv == TypeOK /\ LockMatchesHalt /\ DrainScheduled /\ FlightTimes

\* What a step may never do: send anything over a channel while the network
\* stays halted, or end the halt in any other way than by the drain of the
\* cycle after PreDrainDelay with every channel quiet.
HaltDiscipline ==
  [][ /\ lock # NoRouter /\ lock' # NoRouter =>
           /\ lock' = lock
           /\ \A c \in Channels : LinkDelay \notin flying'[c]
      /\ lock # NoRouter /\ lock' = NoRouter =>
           /\ phase = DrainDelay
           /\ LinkLatency <= PreDrainDelay => \A c \in Channels : flying[c] = {} ]_vars
=============================================================================
