----------------------------- MODULE NiEjection -----------------------------
(***************************************************************************)
(* The ejection half of NetworkInterface::wakeup with the bounded protocol *)
(* buffers it delivers into.  A flit that arrives is put into the          *)
(* MessageBuffer of its vnet when that has a slot and no other message was *)
(* put into a buffer in this cycle; otherwise it waits in m_stall_queue    *)
(* and keeps its VC.  A controller that takes a message from a buffer with *)
(* a dequeue callback wakes the interface in the next cycle.               *)
(*                                                                         *)
(* A flit is named by its VC: the router sends on an idle output VC only,  *)
(* and the VC becomes idle again with the credit of that flit.  The two    *)
(* links of the ejection port are collapsed: Tick hands the interface a    *)
(* flit of an idle VC, and the credit link returns its credit at once.     *)
(*                                                                         *)
(* Times are relative to the current cycle: wake and linkWake hold how     *)
(* many cycles ahead the interface and the credit link are scheduled.      *)
(***************************************************************************)
EXTENDS Naturals, Sequences, FiniteSets

CONSTANTS
  Vnets,         \* virtual networks
  Vcs,           \* VCs of the ejection port
  VnetOf,        \* Vcs -> Vnets
  MaxSize,       \* m_max_size of the protocol buffers, 0 for unbounded
  NoFlit         \* no flit on the link

ASSUME EjectionAssumption ==
  /\ VnetOf \in [Vcs -> Vnets]
  /\ MaxSize \in Nat
  /\ NoFlit \notin Vcs

VARIABLES
  ovc,         \* state of the router's output VCs towards the interface
  arrived,     \* the flit that inNetLink has ready in this cycle
  wake,        \* scheduled wakeups of the interface
  buf,         \* the MessageBuffer of every vnet
  stall,       \* m_stall_queue
  stallCount,  \* m_stall_count
  callback,    \* whether the vnet's buffer has a dequeue callback
  credits,     \* outCreditQueue
  linkWake,    \* scheduled wakeups of outCreditLink
  busy         \* whether other work wakes the interface again and again

vars == <<ovc, arrived, wake, buf, stall, stallCount, callback, credits, linkWake>>

(***************************************************************************)
(* Messages enqueued in this cycle (fresh) can be dequeued from the next   *)
(* one on.  popped: a message was dequeued in this cycle, and start is     *)
(* m_size_at_cycle_start, the size before the first of them.               *)
(***************************************************************************)
Buffer == [ready: Nat, fresh: Nat, popped: BOOLEAN, start: Nat]

\* Every message counts from the cycle it is enqueued in, and until the cycle
\* after it was dequeued.
CurrentSize(n) ==
  (IF buf[n].popped THEN buf[n].start ELSE buf[n].ready) + buf[n].fresh

\* Mutant of areNSlotsAvailable: off by one.
SlotWhenFull(n) == MaxSize = 0 \/ CurrentSize(n) <= MaxSize

areNSlotsAvailable(n) == MaxSize = 0 \/ CurrentSize(n) + 1 <= MaxSize

Init ==
  /\ ovc = [v \in Vcs |-> "IDLE"]
  /\ arrived = NoFlit
  /\ wake = {}
  /\ buf = [n \in Vnets |-> [ready |-> 0, fresh |-> 0, popped |-> FALSE, start |-> 0]]
  /\ stall = <<>>
  /\ stallCount = [n \in Vnets |-> 0]
  /\ callback = [n \in Vnets |-> FALSE]
  /\ credits = <<>>
  /\ linkWake = {}
  /\ busy \in BOOLEAN

-----------------------------------------------------------------------------
\* Mutant of Deliver: the credit is not sent back.
DeliverNoCredit(v) ==
  /\ buf' = [buf EXCEPT ![VnetOf[v]].fresh = @ + 1]
  /\ UNCHANGED <<credits, linkWake>>

\* MessageBuffer::enqueue, sendCredit and the scheduling of the credit link
\* at the end of the wakeup.
Deliver(v) ==
  /\ buf' = [buf EXCEPT ![VnetOf[v]].fresh = @ + 1]
  /\ credits' = Append(credits, v)
  /\ linkWake' = linkWake \union {1}

\* Mutant of StallArrival: no dequeue callback is registered.
StallSilently(queue, count, registered) ==
  IF arrived = NoFlit
  THEN /\ stall' = queue
       /\ stallCount' = count
       /\ callback' = registered
  ELSE /\ stall' = Append(queue, arrived)
       /\ stallCount' = [count EXCEPT ![VnetOf[arrived]] = @ + 1]
       /\ callback' = registered

\* A flit that arrived goes to the stall queue; what checkStallQueue left of
\* the queue, the counters and the callbacks is passed in.
StallArrival(queue, count, registered) ==
  IF arrived = NoFlit
  THEN /\ stall' = queue
       /\ stallCount' = count
       /\ callback' = registered
  ELSE /\ stall' = Append(queue, arrived)
       /\ stallCount' = [count EXCEPT ![VnetOf[arrived]] = @ + 1]
       /\ callback' = [registered EXCEPT ![VnetOf[arrived]] = TRUE]

HasSlot(v) == areNSlotsAvailable(VnetOf[v])

\* Mutant of FirstFitting: the queue is searched from its end.
LastFitting(i) ==
  /\ i \in DOMAIN stall
  /\ HasSlot(stall[i])
  /\ \A j \in i + 1 .. Len(stall) : ~HasSlot(stall[j])

\* checkStallQueue takes the first stalled flit whose buffer has a slot.
FirstFitting(i) ==
  /\ i \in DOMAIN stall
  /\ HasSlot(stall[i])
  /\ \A j \in 1 .. i - 1 : ~HasSlot(stall[j])

NothingFits == \A i \in DOMAIN stall : ~HasSlot(stall[i])

RemoveNth(queue, i) == SubSeq(queue, 1, i - 1) \o SubSeq(queue, i + 1, Len(queue))

\* A stalled flit is delivered; a flit that arrives in the same cycle is
\* stalled whether or not there is a slot for it.
UnstallFlit(i) ==
  LET n == VnetOf[stall[i]]
      count == [stallCount EXCEPT ![n] = @ - 1]
  IN  /\ FirstFitting(i)
      /\ Deliver(stall[i])
      /\ StallArrival(RemoveNth(stall, i), count,
                      [callback EXCEPT ![n] = @ /\ count[n] # 0])

\* Nothing was unstalled and the arriving flit has a slot.
EjectFlit ==
  /\ NothingFits
  /\ arrived # NoFlit
  /\ HasSlot(arrived)
  /\ Deliver(arrived)
  /\ UNCHANGED <<stall, stallCount, callback>>

\* Nothing is delivered; credits that are still queued schedule the link.
EjectNothing ==
  /\ NothingFits
  /\ arrived # NoFlit => ~HasSlot(arrived)
  /\ StallArrival(stall, stallCount, callback)
  /\ linkWake' = IF credits = <<>> THEN linkWake ELSE linkWake \union {1}
  /\ UNCHANGED <<buf, credits>>

\* The handler; checkReschedule may ask for another wakeup in the next cycle.
Wakeup(again) ==
  /\ 0 \in wake
  /\ wake' = IF again THEN {1} ELSE wake \ {0}
  /\ arrived' = NoFlit
  /\ \/ \E i \in DOMAIN stall : UnstallFlit(i)
     \/ EjectFlit
     \/ EjectNothing
  /\ UNCHANGED ovc

\* outCreditLink moves one credit of its source queue; it frees the VC.
CreditLinkWakeup ==
  /\ 0 \in linkWake
  /\ linkWake' = linkWake \ {0}
  /\ IF credits = <<>>
     THEN UNCHANGED <<ovc, credits>>
     ELSE /\ ovc' = [ovc EXCEPT ![Head(credits)] = "IDLE"]
          /\ credits' = Tail(credits)
  /\ UNCHANGED <<arrived, wake, buf, stall, stallCount, callback>>

\* A controller takes a message; dequeue calls the callback, which schedules
\* the interface for the next cycle.
Dequeue(n) ==
  /\ buf[n].ready > 0
  /\ buf' = [buf EXCEPT ![n] =
       [ready  |-> @.ready - 1,
        fresh  |-> @.fresh,
        popped |-> TRUE,
        start  |-> IF @.popped THEN @.start ELSE @.ready + @.fresh]]
  /\ wake' = IF callback[n] THEN wake \union {1} ELSE wake
  /\ UNCHANGED <<ovc, arrived, stall, stallCount, callback, credits, linkWake>>

\* The next cycle: a flit of an idle VC, or none, arrives, and the interface
\* may be woken for its other work.
Tick(v, woken) ==
  /\ 0 \notin wake /\ 0 \notin linkWake
  /\ v # NoFlit => ovc[v] = "IDLE"
  /\ ovc' = IF v = NoFlit THEN ovc ELSE [ovc EXCEPT ![v] = "ACTIVE"]
  /\ arrived' = v
  /\ wake' = IF 1 \in wake \/ v # NoFlit \/ woken THEN {0} ELSE {}
  /\ linkWake' = IF 1 \in linkWake THEN {0} ELSE {}
  /\ buf' = [n \in Vnets |-> [ready  |-> buf[n].ready + buf[n].fresh,
                              fresh  |-> 0, popped |-> FALSE, start |-> 0]]
  /\ UNCHANGED <<stall, stallCount, callback, credits>>

\* A controller enqueues a message to inject: the interface is scheduled.
OtherMessage ==
  /\ wake' = wake \union {1}
  /\ UNCHANGED <<ovc, arrived, buf, stall, stallCount, callback, credits, linkWake>>

Next ==
  /\ \/ \E again \in BOOLEAN : Wakeup(again)
     \/ CreditLinkWakeup
     \/ OtherMessage
     \/ \E n \in Vnets : Dequeue(n)
     \/ \E v \in Vcs \union {NoFlit}, woken \in BOOLEAN : Tick(v, woken)
  /\ UNCHANGED busy

Spec == Init /\ [][Next]_<<vars, busy>>

-----------------------------------------------------------------------------
\* The values every variable ranges over.
TypeOK ==
  /\ ovc \in [Vcs -> {"IDLE", "ACTIVE"}]
  /\ arrived \in Vcs \union {NoFlit}
  /\ wake \subseteq {0, 1}
  /\ buf \in [Vnets -> Buffer]
  /\ stall \in Seq(Vcs)
  /\ stallCount \in [Vnets -> Nat]
  /\ callback \in [Vnets -> BOOLEAN]
  /\ credits \in Seq(Vcs)
  /\ linkWake \subseteq {0, 1}
  /\ busy \in BOOLEAN

\* A bounded protocol buffer never holds more than m_max_size messages, though
\* controllers take messages and the interface puts them in one cycle.
CapacityHeld ==
  MaxSize # 0 => \A n \in Vnets : buf[n].ready + buf[n].fresh <= MaxSize

\* Every flit the router has sent and has no credit for yet is in one place:
\* on the link, in the stall queue or, as a credit, in outCreditQueue.  So no
\* credit is lost or sent twice, through any sequence of stalls.
Held == (IF arrived = NoFlit THEN <<>> ELSE <<arrived>>) \o stall \o credits

CreditOnce ==
  /\ \A v \in Vcs : Cardinality({ i \in DOMAIN Held : Held[i] = v })
                      = IF ovc[v] = "ACTIVE" THEN 1 ELSE 0

\* m_stall_count counts the stalled flits of a vnet, and the vnet's buffer has
\* a callback exactly while there are some.
StallsOf(n) == { i \in DOMAIN stall : VnetOf[stall[i]] = n }

StallsCounted ==
  \A n \in Vnets : /\ stallCount[n] = Cardinality(StallsOf(n))
                   /\ callback[n] <=> StallsOf(n) # {}

\* v and w wait for a slot, and v arrived before w.
Waits(v) == v = arrived \/ \E i \in DOMAIN stall : stall[i] = v

Ahead(v, w) ==
  \E i \in DOMAIN stall :
    stall[i] = v /\ (w = arrived \/ \E j \in DOMAIN stall : i < j /\ stall[j] = w)

\* Messages of a vnet reach the protocol in the order in which their flits
\* arrived: as long as a flit waits, those of its vnet that came after it wait
\* behind it, whether they were stalled too (checkStallQueue) or arrive now.
EjectsInOrder ==
  [][\A v, w \in Vcs :
       VnetOf[v] = VnetOf[w] /\ Ahead(v, w) /\ Waits(v)' => Ahead(v, w)']_vars

\* In a busy interface every output VC that the router ejects over becomes idle
\* again when controllers take messages: "Stat update and flit pointer deletion
\* will occur upon unstall", however often its flit is passed over.
EveryVcIsFreed == busy => \A v \in Vcs : ovc[v] = "ACTIVE" ~> ovc[v] = "IDLE"
=============================================================================
