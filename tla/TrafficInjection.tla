-------------------------- MODULE TrafficInjection --------------------------
(***************************************************************************)
(* How a packet gets from a synthetic traffic generator into the network:  *)
(* GarnetSyntheticTraffic makes it and sends it to its RubyPort, the       *)
(* Sequencer records it in a request table and puts it in the mandatory    *)
(* queue of the L1 cache controller (Garnet_standalone), whose transition  *)
(* completes the request and enqueues the message for the network          *)
(* interface.  A refused packet waits in retryPkt until the callback of    *)
(* some completed request makes the port retry it.                         *)
(*                                                                         *)
(* All of it for one node, cycle by cycle: within a cycle the controller,  *)
(* the deadlock check and the network interface come first, in any order,  *)
(* and the generator's tick last (it is a CPU_Tick_Pri event, the others   *)
(* have the default priority).                                             *)
(***************************************************************************)
EXTENDS Integers, Sequences, FiniteSets

CONSTANTS
  Dests,                \* the destinations, one cache line each
  Vnets,                \* the vnets injected into; vnet 2 carries the writes
  MaxOutstanding,       \* m_max_outstanding_requests of the Sequencer
  TransitionsPerCycle,  \* m_transitions_per_cycle of the cache controller
  MaxSize,              \* m_max_size of the buffers towards the network
  DeadlockThreshold,    \* m_deadlock_threshold of the Sequencer, in cycles
  Ids,                  \* names for the packets on their way, used again later
  None                  \* no packet, no request, no deadlock check scheduled

Packets == [id : Ids, vnet : Vnets, dst : Dests]

\* An entry of a request table: the packet and the cycles since it was issued.
Requests == [pkt : Packets, age : Nat]

ASSUME InjectionAssumption ==
  /\ Vnets \subseteq 0 .. 2
  /\ MaxOutstanding \in Nat \ {0}
  /\ TransitionsPerCycle \in Nat \ {0}
  /\ MaxSize \in Nat \ {0}
  /\ DeadlockThreshold \in Nat \ {0}
  /\ IsFiniteSet(Ids) /\ Cardinality(Ids) >= MaxOutstanding + 2
  /\ None \notin Nat \union Packets \union Requests

VARIABLES
  sq,              \* the Sequencer, its port, its controller's queue and retryPkt
  out,             \* the buffer of each vnet between controller and interface
  live,            \* the packets made, not yet injected and not given up
  ran,             \* the controller has run in this cycle
  ticked,          \* the generator has ticked in this cycle
  panicked         \* the Sequencer has reported a deadlock: the simulation is over

vars == <<sq, out, live, ran, ticked, panicked>>

\* GarnetSyntheticTraffic.generatePkt: a write goes to vnet 2, reads and
\* instruction fetches to vnets 0 and 1.
TableOf(p) == IF p.vnet = 2 THEN "write" ELSE "read"

Outstanding(s) ==
  { td \in {"read", "write"} \X Dests : s[td[1]][td[2]] # None }

Init ==
  /\ sq = [retryPkt  |-> None,
           retryList |-> FALSE,
           read      |-> [d \in Dests |-> None],
           write     |-> [d \in Dests |-> None],
           mandatory |-> <<>>,
           check     |-> None]
  /\ out = [v \in Vnets |-> [size |-> 0, fresh |-> 0, popped |-> FALSE, start |-> 0]]
  /\ live = {}
  /\ ran = FALSE
  /\ ticked = FALSE
  /\ panicked = FALSE

-----------------------------------------------------------------------------
(***************************************************************************)
(* The Sequencer and its port.  makeRequest refuses a request when the     *)
(* tables hold too many (before it looks at anything) or when the line has *)
(* an outstanding request; insertRequest starts the deadlock check if none *)
(* is scheduled, for a refused request too.                                *)
(***************************************************************************)
Full(s) == Cardinality(Outstanding(s)) >= MaxOutstanding

Aliased(s, p) == s.read[p.dst] # None \/ s.write[p.dst] # None

Issues(s, p) == ~Full(s) /\ ~Aliased(s, p)

\* Mutant of Armed: a scheduled check is moved back.
ArmedAgain(check) == DeadlockThreshold

Armed(check) == IF check = None THEN DeadlockThreshold ELSE check

\* insertRequest and issueRequest; the message is ready a cycle later.
Issue(s, p) ==
  [s EXCEPT ![TableOf(p)][p.dst] = [pkt |-> p, age |-> 0],
            !.mandatory = Append(@, [pkt |-> p, ready |-> FALSE]),
            !.check = Armed(@)]

\* The port: a refused packet puts it on the retry list.
recvTimingReq(s, p) ==
  IF Issues(s, p) THEN Issue(s, p)
  ELSE [s EXCEPT !.retryList = TRUE,
                 !.check = IF Full(s) THEN @ ELSE Armed(@)]

\* The generator: a refused packet is kept for the retry.
sendPkt(s, p) ==
  IF Issues(s, p) THEN recvTimingReq(s, p)
  ELSE [recvTimingReq(s, p) EXCEPT !.retryPkt = p]

\* Mutant of doRetry: the packet is kept after it was sent.
doRetryKept(s) == recvTimingReq(s, s.retryPkt)

doRetry(s) ==
  IF Issues(s, s.retryPkt)
  THEN [recvTimingReq(s, s.retryPkt) EXCEPT !.retryPkt = None]
  ELSE recvTimingReq(s, s.retryPkt)

\* The list is emptied before the port is told to retry.
trySendRetries(s) ==
  IF s.retryList THEN doRetry([s EXCEPT !.retryList = FALSE]) ELSE s

\* Mutant of hitCallback: the port retries before the request is removed.
hitCallbackEarly(s, p) ==
  [trySendRetries(s) EXCEPT ![TableOf(p)][p.dst] = None]

\* readCallback and writeCallback: the request leaves its table, the response
\* goes to the generator and a waiting packet is retried.
hitCallback(s, p) == trySendRetries([s EXCEPT ![TableOf(p)][p.dst] = None])

-----------------------------------------------------------------------------
(***************************************************************************)
(* The cache controller.                                                   *)
(***************************************************************************)

\* MessageBuffer::areNSlotsAvailable(1): what was taken out in this cycle
\* still counts.
SlotAvailable(b) == (IF b.popped THEN b.start + b.fresh ELSE b.size) + 1 <= MaxSize

\* The head of the mandatory queue is ready and its transition has a slot.
HeadReady(c) ==
  /\ c.s.mandatory # <<>>
  /\ Head(c.s.mandatory).ready
  /\ SlotAvailable(c.out[Head(c.s.mandatory).pkt.vnet])

\* Mutant of Transition: the youngest message is popped.
TransitionPopsLast(c) ==
  LET p == Head(c.s.mandatory).pkt
      s == hitCallback(c.s, p)
  IN  [s    |-> [s EXCEPT !.mandatory = SubSeq(@, 1, Len(@) - 1)],
       out  |-> [c.out EXCEPT ![p.vnet].size = @ + 1, ![p.vnet].fresh = @ + 1],
       live |-> c.live \ {p.id}]

\* r_load_hit or s_store_hit, then the issue action, then the pop.  A retried
\* packet has joined the end of the queue before the pop.
Transition(c) ==
  LET p == Head(c.s.mandatory).pkt
      s == hitCallback(c.s, p)
  IN  [s    |-> [s EXCEPT !.mandatory = Tail(@)],
       out  |-> [c.out EXCEPT ![p.vnet].size = @ + 1, ![p.vnet].fresh = @ + 1],
       live |-> c.live \ {p.id}]

\* The controller's loop: up to n transitions, ended by a message that is not
\* ready or has no slot.  It runs again in the next cycle in either case.
Loop(c) ==
  LET after[n \in 0 .. TransitionsPerCycle] ==
        IF n = 0 THEN c
        ELSE IF HeadReady(after[n - 1]) THEN Transition(after[n - 1])
        ELSE after[n - 1]
  IN  after[TransitionsPerCycle]

ControllerDue == sq.mandatory # <<>> /\ Head(sq.mandatory).ready /\ ~ran

ControllerWakeup ==
  /\ ~panicked /\ ~ticked
  /\ ControllerDue
  /\ \E c \in {Loop([s |-> sq, out |-> out, live |-> live])} :
       /\ sq' = c.s
       /\ out' = c.out
       /\ live' = c.live
  /\ ran' = TRUE
  /\ UNCHANGED <<ticked, panicked>>

\* The network interface takes a message of vnet v (flitisizeMessage) that was
\* enqueued in an earlier cycle.
NiDequeue(v) ==
  /\ ~panicked /\ ~ticked
  /\ out[v].size > out[v].fresh
  /\ out' = [out EXCEPT ![v].size = @ - 1,
                        ![v].popped = TRUE,
                        ![v].start = IF out[v].popped THEN @ ELSE out[v].size]
  /\ UNCHANGED <<sq, live, ran, ticked, panicked>>

-----------------------------------------------------------------------------
\* The age of every outstanding request.
Ages(s) == { s[td[1]][td[2]].age : td \in Outstanding(s) }

\* The next check, while there are outstanding requests.
CheckAgain(s) == IF Outstanding(s) = {} THEN None ELSE DeadlockThreshold

\* Sequencer::wakeup, the deadlock check.
SequencerWakeup ==
  /\ ~panicked /\ ~ticked
  /\ sq.check = 0
  /\ IF \E a \in Ages(sq) : a >= DeadlockThreshold
     THEN panicked' = TRUE /\ UNCHANGED sq
     ELSE panicked' = FALSE /\ sq' = [sq EXCEPT !.check = CheckAgain(sq)]
  /\ UNCHANGED <<out, live, ran, ticked>>

CycleWorkDone == ~panicked /\ ~ticked /\ ~ControllerDue /\ sq.check # 0

\* The packet that gives up its place in retryPkt when p is refused.
Replaced(s, p) ==
  IF Issues(s, p) \/ s.retryPkt = None THEN {} ELSE {s.retryPkt.id}

\* GarnetSyntheticTraffic::tick: a packet, or none when the injection rate's
\* random number or num_packets_max (-1, no limit, by default) says so.
TickSends(v, d) ==
  LET id == CHOOSE i \in Ids : i \notin live  \* a name that nobody has
      p  == [id |-> id, vnet |-> v, dst |-> d]
  IN
  /\ CycleWorkDone
  /\ \E i \in Ids : i \notin live
  /\ sq' = sendPkt(sq, p)
  /\ live' = (live \ Replaced(sq, p)) \union {id}
  /\ ticked' = TRUE
  /\ UNCHANGED <<out, ran, panicked>>

TickIdle ==
  /\ CycleWorkDone
  /\ ticked' = TRUE
  /\ UNCHANGED <<sq, out, live, ran, panicked>>

Older(table) ==
  [d \in Dests |-> IF table[d] = None THEN None ELSE [table[d] EXCEPT !.age = @ + 1]]

\* Time passes: requests age, the check comes nearer, messages become ready.
NextCycle ==
  /\ ~panicked /\ ticked
  /\ sq' = [sq EXCEPT !.read = Older(@),
                      !.write = Older(@),
                      !.check = IF @ = None THEN None ELSE @ - 1,
                      !.mandatory = [i \in DOMAIN @ |-> [@[i] EXCEPT !.ready = TRUE]]]
  /\ out' = [v \in Vnets |-> [out[v] EXCEPT !.fresh = 0, !.popped = FALSE, !.start = 0]]
  /\ ran' = FALSE
  /\ ticked' = FALSE
  /\ UNCHANGED <<live, panicked>>

Next ==
  \/ ControllerWakeup
  \/ \E v \in Vnets : NiDequeue(v)
  \/ SequencerWakeup
  \/ \E v \in Vnets, d \in Dests : TickSends(v, d)
  \/ TickIdle
  \/ NextCycle

\* The simulator runs every scheduled event (the tick always comes, with a
\* packet or without), and the network interface of a network that makes
\* progress takes the messages of every vnet.
Fairness ==
  /\ WF_vars(ControllerWakeup)
  /\ WF_vars(SequencerWakeup)
  /\ WF_vars(TickIdle)
  /\ WF_vars(NextCycle)
  /\ \A v \in Vnets : SF_vars(NiDequeue(v))

Spec == Init /\ [][Next]_vars /\ Fairness

-----------------------------------------------------------------------------
PacketIds(s) == [i \in DOMAIN s.mandatory |-> s.mandatory[i].pkt.id]

\* The values every variable ranges over; no buffer grows beyond its size.
TypeOK ==
  /\ sq.retryPkt \in Packets \union {None}
  /\ sq.retryList \in BOOLEAN
  /\ \A t \in {"read", "write"} : \A d \in Dests :
       sq[t][d] = None \/ sq[t][d].pkt \in Packets
  /\ sq.check \in 0 .. DeadlockThreshold \union {None}
  /\ \A v \in Vnets : out[v].size \in 0 .. MaxSize
  /\ live \subseteq Ids
  /\ ran \in BOOLEAN /\ ticked \in BOOLEAN /\ panicked \in BOOLEAN

(***************************************************************************)
(* The port is on the retry list exactly while a packet waits, so a retry  *)
(* never sends a null packet and a waiting packet always has a retry ahead *)
(* (sendPkt, doRetry, addToRetryList and trySendRetries).                  *)
(***************************************************************************)
RetryListed == sq.retryList <=> sq.retryPkt # None

(***************************************************************************)
(* The mandatory queue and the request tables agree: every message in the  *)
(* queue has its own entry, under its line and with its packet, and there  *)
(* is no other entry.  It is what the asserts of readCallback and          *)
(* writeCallback need although a retry issues in the middle of a callback. *)
(***************************************************************************)
CallbacksMatch ==
  /\ Len(sq.mandatory) = Cardinality(Outstanding(sq))
  /\ \A i \in DOMAIN sq.mandatory :
       LET p == sq.mandatory[i].pkt
       IN  /\ sq[TableOf(p)][p.dst] # None
           /\ sq[TableOf(p)][p.dst].pkt = p

(***************************************************************************)
(* The packets that wait, in the mandatory queue or for a retry, are all   *)
(* different, and they are the ones that were made, are not injected and   *)
(* were not replaced by a later refused packet.                            *)
(***************************************************************************)
OnePlaceEach ==
  /\ \A i, j \in DOMAIN sq.mandatory : PacketIds(sq)[i] = PacketIds(sq)[j] => i = j
  /\ sq.retryPkt # None =>
       \A i \in DOMAIN sq.mandatory : PacketIds(sq)[i] # sq.retryPkt.id
  /\ live = { PacketIds(sq)[i] : i \in DOMAIN sq.mandatory }
               \union (IF sq.retryPkt = None THEN {} ELSE {sq.retryPkt.id})

(***************************************************************************)
(* Until it is injected, every packet is in exactly one place, queued for  *)
(* the controller and recorded under its line or in retryPkt, and no       *)
(* packet is injected twice.  The one exception is the one sendPkt makes:  *)
(* a packet refused while another waits takes its place, and the other is  *)
(* never sent.                                                             *)
(***************************************************************************)
EveryPacketOnce == CallbacksMatch /\ OnePlaceEach

(***************************************************************************)
(* The Sequencer's deadlock check is late by less than one period: while   *)
(* the simulation goes on, no request has been outstanding for twice the   *)
(* threshold (Sequencer::wakeup and its scheduling in insertRequest).      *)
(***************************************************************************)
DeadlockNoticed == \A a \in Ages(sq) : a < 2 * DeadlockThreshold

(***************************************************************************)
(* A refused packet does not wait for ever: it is issued, or a later one   *)
(* takes its place, or the Sequencer declares a deadlock.  The callback    *)
(* that frees its line also retries it, although the generator goes on     *)
(* sending and the line may be taken again (hitCallback, trySendRetries,   *)
(* doRetry).                                                               *)
(***************************************************************************)
EveryRetryEnds ==
  <>[](sq.retryPkt # None /\ ~panicked) => []<><<sq'.retryPkt # sq.retryPkt>>_sq
=============================================================================
