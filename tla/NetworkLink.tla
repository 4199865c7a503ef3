---------------------------- MODULE NetworkLink ----------------------------
(***************************************************************************)
(* One link with its two consumers: the unit that sends puts an item into  *)
(* the source queue and wakes the link one cycle later, NetworkLink moves  *)
(* one item per wakeup into its buffer and wakes its consumer m_latency    *)
(* cycles later, which takes one item per wakeup.  An item is a flit, or   *)
(* the credit of one VC.  A flit is stamped for the next cycle, a credit   *)
(* for this one, in which the link may be awake already.  An interface     *)
(* wakes the link of its credits in every wakeup in which any is queued,   *)
(* so that one may be awake with nothing to move and take a credit in the  *)
(* cycle in which it is sent.                                              *)
(*                                                                         *)
(* Times are relative to the current cycle.                                *)
(***************************************************************************)
EXTENDS Integers, FiniteSets

CONSTANTS
  Items,       \* flits or credits that may be under way
  m_latency    \* the latency of the link

ASSUME LinkAssumption == m_latency \in Nat \ {0}

VARIABLES
  stamp,        \* 1: a flit link, CrossbarSwitch::wakeup; 0: a credit link, increment_credit
  eager,        \* outCreditLink of an interface
  srcQueue,     \* link_srcQueue: a heap ordered by time
  linkBuffer,   \* linkBuffer: a heap ordered by time
  linkAwake,    \* m_scheduled_wakeups of the link
  awake,        \* m_scheduled_wakeups of its consumer
  sent          \* the sender has run in this cycle

linkVars == <<stamp, eager, srcQueue, linkBuffer, linkAwake, awake, sent>>

Entry == [item : Items, time : -1 .. m_latency]

LinkInit ==
  /\ stamp \in {0, 1}
  /\ eager \in BOOLEAN /\ (eager => stamp = 0)
  /\ srcQueue = {} /\ linkBuffer = {}
  /\ linkAwake = {} /\ awake = {}
  /\ sent = FALSE

\* Mutant of Top: the comparison of the heap is the wrong way round.
TopLatest(buffer) == { x \in buffer : \A y \in buffer : x.time >= y.time }

\* The entries that getTopFlit may return: those of the least time.
Top(buffer) == { x \in buffer : \A y \in buffer : x.time <= y.time }

isReady(buffer) == \E x \in Top(buffer) : x.time <= 0

\* The sender grants an output port (or frees a VC of an input port) once in
\* the wakeup it has in a cycle.
Send(i) ==
  /\ ~sent
  /\ \A x \in srcQueue \cup linkBuffer : x.item # i
  /\ srcQueue' = srcQueue \cup {[item |-> i, time |-> stamp]}
  /\ linkAwake' = linkAwake \cup {1}
  /\ sent' = TRUE
  /\ UNCHANGED <<linkBuffer, awake>>

\* The wakeup of an interface that sends no credit while one is queued.
WakeAgain ==
  /\ eager /\ ~sent
  /\ srcQueue # {}
  /\ linkAwake' = linkAwake \cup {1}
  /\ sent' = TRUE
  /\ UNCHANGED <<srcQueue, linkBuffer, awake>>

Move(x) ==
  /\ srcQueue' = srcQueue \ {x}
  /\ linkBuffer' = linkBuffer \cup {[x EXCEPT !.time = m_latency]}
  /\ awake' = awake \cup {m_latency}

LinkWakeup ==
  /\ 0 \in linkAwake
  /\ linkAwake' = linkAwake \ {0}
  /\ IF isReady(srcQueue)
     THEN \E x \in Top(srcQueue) : Move(x)
     ELSE UNCHANGED <<srcQueue, linkBuffer, awake>>
  /\ UNCHANGED sent

\* InputUnit::wakeup, OutputUnit::wakeup or NetworkInterface::wakeup.
ConsumerWakeup ==
  /\ 0 \in awake
  /\ awake' = awake \ {0}
  /\ IF isReady(linkBuffer)
     THEN \E x \in Top(linkBuffer) : linkBuffer' = linkBuffer \ {x}
     ELSE UNCHANGED linkBuffer
  /\ UNCHANGED <<srcQueue, linkAwake, sent>>

\* Something else schedules the consumer, a router with many links, for a
\* cycle to come.
OtherWakeup ==
  /\ awake' = awake \cup {1}
  /\ awake' # awake
  /\ UNCHANGED <<srcQueue, linkBuffer, linkAwake, sent>>

Tick ==
  /\ 0 \notin linkAwake \cup awake
  /\ srcQueue' = { [x EXCEPT !.time = @ - 1] : x \in srcQueue }
  /\ linkBuffer' = { [x EXCEPT !.time = @ - 1] : x \in linkBuffer }
  /\ linkAwake' = { t - 1 : t \in linkAwake }
  /\ awake' = { t - 1 : t \in awake }
  /\ sent' = FALSE

LinkNext ==
  /\ \/ \E i \in Items : Send(i)
     \/ WakeAgain
     \/ LinkWakeup
     \/ ConsumerWakeup
     \/ OtherWakeup
     \/ Tick
  /\ UNCHANGED <<stamp, eager>>

LinkSpec == LinkInit /\ [][LinkNext]_linkVars

-----------------------------------------------------------------------------
\* The values every variable ranges over.
LinkTypeOK ==
  /\ stamp \in {0, 1} /\ eager \in BOOLEAN
  /\ srcQueue \subseteq Entry /\ linkBuffer \subseteq Entry
  /\ linkAwake \subseteq 0 .. 1 /\ awake \subseteq 0 .. m_latency
  /\ sent \in BOOLEAN

\* The link will move x in this cycle, which leaves it m_latency cycles.
Leaves(x) == 0 \in linkAwake /\ x \in Top(srcQueue)

\* Everything else in the source queue goes through the link in the next cycle.
Pipe ==
  { [item |-> x.item, due |-> IF Leaves(x) THEN m_latency ELSE 1 + m_latency] : x \in srcQueue }
    \cup { [item |-> x.item, due |-> x.time] : x \in linkBuffer }

Line == INSTANCE DelayLine WITH Delay <- 1 + m_latency, early <- eager, pipe <- Pipe

(***************************************************************************)
(* The link with its source queue and buffer is the delay line of          *)
(* 1 + m_latency cycles that DrainNetwork takes it for, whatever the order *)
(* of the sender, the link and the consumer in a cycle: nothing overtakes, *)
(* nothing is left behind by a link or a consumer that takes one item per  *)
(* wakeup, and no wakeup is missing.  Only the credits of an interface may *)
(* come one cycle early, one at a time and in order still.                 *)
(***************************************************************************)
IsDelayLine == Line!Spec
=============================================================================
