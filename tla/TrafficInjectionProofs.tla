----------------------- MODULE TrafficInjectionProofs -----------------------
(***************************************************************************)
(* The way from the traffic generator into the network, for any number of  *)
(* destinations and packets and any size of the tables and buffers: what   *)
(* the generator, the Sequencer and the cache controller each remember of  *)
(* a packet agrees, and the deadlock check comes in time.                  *)
(***************************************************************************)
EXTENDS TrafficInjection, FiniteSetTheorems, SequenceTheorems, WellFoundedInduction, TLAPS

Tables == {"read", "write"}

Queued == [pkt : Packets, ready : BOOLEAN]

\* The Sequencer, its port, its controller's queue and retryPkt.
Sequencers ==
  [retryPkt  : Packets \union {None},
   retryList : BOOLEAN,
   read      : [Dests -> Requests \union {None}],
   write     : [Dests -> Requests \union {None}],
   mandatory : Seq(Queued),
   check     : 0 .. DeadlockThreshold \union {None}]

\* Two of them with the same fields are the same.
LEMMA SameFields ==
  ASSUME NEW s \in Sequencers, NEW u \in Sequencers,
         s.retryPkt = u.retryPkt, s.retryList = u.retryList, s.read = u.read,
         s.write = u.write, s.mandatory = u.mandatory, s.check = u.check
  PROVE  s = u
  BY DEF Sequencers

LEMMA FieldTypes ==
  ASSUME NEW s \in Sequencers
  PROVE  /\ s.retryPkt \in Packets \union {None}
         /\ s.retryList \in BOOLEAN
         /\ s.read \in [Dests -> Requests \union {None}]
         /\ s.write \in [Dests -> Requests \union {None}]
         /\ s.mandatory \in Seq(Queued)
         /\ s.check \in 0 .. DeadlockThreshold \union {None}
         /\ \A t \in Tables, d \in Dests : s[t][d] \in Requests \union {None}
  BY DEF Sequencers, Tables

LEMMA PacketFields ==
  ASSUME NEW p \in Packets
  PROVE  /\ p.id \in Ids /\ p.vnet \in Vnets /\ p.dst \in Dests
         /\ TableOf(p) \in Tables
         /\ p # None
  BY InjectionAssumption DEF Packets, TableOf, Tables

LEMMA QueueTypes ==
  ASSUME NEW s \in Sequencers
  PROVE  /\ Len(s.mandatory) \in Nat
         /\ DOMAIN s.mandatory = 1 .. Len(s.mandatory)
         /\ \A i \in 1 .. Len(s.mandatory) :
              s.mandatory[i] \in Queued /\ s.mandatory[i].pkt \in Packets
<1>1. s.mandatory \in Seq(Queued)
  BY FieldTypes
<1>2. Len(s.mandatory) \in Nat /\ DOMAIN s.mandatory = 1 .. Len(s.mandatory)
  BY <1>1, LenProperties
<1>3. \A i \in 1 .. Len(s.mandatory) : s.mandatory[i] \in Queued
  BY <1>1, ElementOfSeq
<1> QED
  BY <1>2, <1>3 DEF Queued

\* An entry is put into a table, or taken out.
LEMMA EntrySet ==
  ASSUME NEW s \in Sequencers, NEW p \in Packets, NEW x \in Requests \union {None}
  PROVE  LET u == [s EXCEPT ![TableOf(p)][p.dst] = x]
         IN  /\ u \in Sequencers
             /\ u.retryPkt = s.retryPkt /\ u.retryList = s.retryList
             /\ u.mandatory = s.mandatory /\ u.check = s.check
             /\ u[TableOf(p)][p.dst] = x
             /\ \A t \in Tables, d \in Dests :
                  t # TableOf(p) \/ d # p.dst => u[t][d] = s[t][d]
<1>1. p.dst \in Dests
  BY PacketFields
<1>2. CASE p.vnet = 2
  <2>1. TableOf(p) = "write"
    BY <1>2 DEF TableOf
  <2> QED
    BY <1>1, <2>1 DEF Sequencers, Tables
<1>3. CASE p.vnet # 2
  <2>1. TableOf(p) = "read"
    BY <1>3 DEF TableOf
  <2> QED
    BY <1>1, <2>1 DEF Sequencers, Tables
<1> QED
  BY <1>2, <1>3

LEMMA EntryCleared ==
  ASSUME NEW s \in Sequencers, NEW p \in Packets
  PROVE  LET u == [s EXCEPT ![TableOf(p)][p.dst] = None]
         IN  /\ u \in Sequencers
             /\ u.retryPkt = s.retryPkt /\ u.retryList = s.retryList
             /\ u.mandatory = s.mandatory /\ u.check = s.check
             /\ u[TableOf(p)][p.dst] = None
             /\ \A t \in Tables, d \in Dests :
                  t # TableOf(p) \/ d # p.dst => u[t][d] = s[t][d]
<1>1. None \in Requests \union {None}
  OBVIOUS
<1> QED
  BY <1>1, EntrySet

-----------------------------------------------------------------------------
\* The check that insertRequest leaves scheduled.
LEMMA ArmedType ==
  ASSUME NEW k \in 0 .. DeadlockThreshold \union {None}
  PROVE  /\ Armed(k) \in 0 .. DeadlockThreshold
         /\ Armed(k) # None
         /\ k # None => Armed(k) = k
  BY InjectionAssumption DEF Armed

LEMMA IssueFields ==
  ASSUME NEW s \in Sequencers, NEW p \in Packets
  PROVE  LET u == Issue(s, p)
         IN  /\ u \in Sequencers
             /\ u.retryPkt = s.retryPkt /\ u.retryList = s.retryList
             /\ u.mandatory = Append(s.mandatory, [pkt |-> p, ready |-> FALSE])
             /\ u.check = Armed(s.check)
             /\ u[TableOf(p)][p.dst] = [pkt |-> p, age |-> 0]
             /\ \A t \in Tables, d \in Dests :
                  t # TableOf(p) \/ d # p.dst => u[t][d] = s[t][d]
<1> DEFINE x == [pkt |-> p, age |-> 0]
           m == [pkt |-> p, ready |-> FALSE]
           v == [s EXCEPT ![TableOf(p)][p.dst] = x]
           u == [v EXCEPT !.mandatory = Append(s.mandatory, m), !.check = Armed(s.check)]
<1>1. x \in Requests /\ m \in Queued
  BY DEF Requests, Queued
<1> HIDE DEF x, m
<1>2. /\ v \in Sequencers
      /\ v.retryPkt = s.retryPkt /\ v.retryList = s.retryList
      /\ v.mandatory = s.mandatory /\ v.check = s.check
      /\ v[TableOf(p)][p.dst] = x
      /\ \A t \in Tables, d \in Dests : t # TableOf(p) \/ d # p.dst => v[t][d] = s[t][d]
  BY <1>1, EntrySet
<1>3. Append(s.mandatory, m) \in Seq(Queued) /\ Armed(s.check) \in 0 .. DeadlockThreshold
  BY <1>1, FieldTypes, AppendProperties, ArmedType
<1>4. Issue(s, p) = u
  <2>1. CASE TableOf(p) = "read"
    BY <2>1 DEF Issue, x, m, Sequencers
  <2>2. CASE TableOf(p) = "write"
    BY <2>2 DEF Issue, x, m, Sequencers
  <2> QED
    BY <2>1, <2>2, PacketFields DEF Tables
<1> HIDE DEF v
<1>5. /\ u \in Sequencers
      /\ u.retryPkt = v.retryPkt /\ u.retryList = v.retryList
      /\ u.read = v.read /\ u.write = v.write
      /\ u.mandatory = Append(s.mandatory, m)
      /\ u.check = Armed(s.check)
  BY <1>2, <1>3 DEF Sequencers
<1> HIDE DEF u
<1>6. \A t \in Tables : u[t] = v[t]
  BY <1>5 DEF Tables
<1>7. u[TableOf(p)] = v[TableOf(p)]
  BY <1>6, PacketFields
<1>8. /\ u.retryPkt = s.retryPkt /\ u.retryList = s.retryList
      /\ u[TableOf(p)][p.dst] = x
      /\ \A t \in Tables, d \in Dests : t # TableOf(p) \/ d # p.dst => u[t][d] = s[t][d]
  BY <1>2, <1>5, <1>6, <1>7
<1> QED
  BY <1>4, <1>5, <1>8 DEF x, m

\* A refused request: the port is on the retry list.
LEMMA RefuseFields ==
  ASSUME NEW s \in Sequencers, NEW p \in Packets, ~Issues(s, p)
  PROVE  LET u == recvTimingReq(s, p)
         IN  /\ u \in Sequencers
             /\ u.retryPkt = s.retryPkt /\ u.retryList = TRUE
             /\ u.read = s.read /\ u.write = s.write
             /\ u.mandatory = s.mandatory
             /\ u.check = IF Full(s) THEN s.check ELSE Armed(s.check)
<1>1. recvTimingReq(s, p) = [s EXCEPT !.retryList = TRUE,
                                      !.check = IF Full(s) THEN @ ELSE Armed(@)]
  BY DEF recvTimingReq
<1>2. (IF Full(s) THEN s.check ELSE Armed(s.check)) \in 0 .. DeadlockThreshold \union {None}
  BY FieldTypes, ArmedType
<1> QED
  BY <1>1, <1>2 DEF Sequencers

-----------------------------------------------------------------------------
(***************************************************************************)
(* What holds between any two steps of the Sequencer: a message of the     *)
(* queue has its entry and an entry its message, no two packets share an   *)
(* id, the ids are those of the packets on their way (on), and an entry is *)
(* so young that the scheduled check will find it before it is twice the   *)
(* threshold old.                                                          *)
(***************************************************************************)
Recorded(s) ==
  \A i \in 1 .. Len(s.mandatory) :
    LET p == s.mandatory[i].pkt
    IN  s[TableOf(p)][p.dst] # None /\ s[TableOf(p)][p.dst].pkt = p

InQueue(s) ==
  \A t \in Tables, d \in Dests :
    s[t][d] # None =>
      \E i \in 1 .. Len(s.mandatory) :
        LET p == s.mandatory[i].pkt IN TableOf(p) = t /\ p.dst = d

Young(s) ==
  \A t \in Tables, d \in Dests :
    s[t][d] # None => s.check # None /\ s[t][d].age + s.check < 2 * DeadlockThreshold

DistinctIds(s) ==
  \A i, j \in 1 .. Len(s.mandatory) : s.mandatory[i].pkt.id = s.mandatory[j].pkt.id => i = j

NotQueued(s, id) == \A i \in 1 .. Len(s.mandatory) : s.mandatory[i].pkt.id # id

IsRetry(s, id) == s.retryPkt # None /\ s.retryPkt.id = id

IdsPlaced(s, on) ==
  /\ \A i \in 1 .. Len(s.mandatory) : s.mandatory[i].pkt.id \in on
  /\ s.retryPkt # None => s.retryPkt.id \in on /\ NotQueued(s, s.retryPkt.id)
  /\ \A x \in on : NotQueued(s, x) => IsRetry(s, x)

Coherent(s, on) ==
  /\ s \in Sequencers
  /\ s.retryList <=> s.retryPkt # None
  /\ Recorded(s)
  /\ InQueue(s)
  /\ Young(s)
  /\ DistinctIds(s)
  /\ IdsPlaced(s, on)

\* A request that is issued: its line had no entry.
LEMMA IssueCoherent ==
  ASSUME NEW s, NEW on, Coherent(s, on), NEW p \in Packets, Issues(s, p), p.id \notin on
  PROVE  Coherent(Issue(s, p), on \union {p.id})
<1> DEFINE u == Issue(s, p)
           m == [pkt |-> p, ready |-> FALSE]
           x == [pkt |-> p, age |-> 0]
           N == Len(s.mandatory)
<1>1. s \in Sequencers
  BY DEF Coherent
<1>2. /\ u \in Sequencers
      /\ u.retryPkt = s.retryPkt /\ u.retryList = s.retryList
      /\ u.mandatory = Append(s.mandatory, m)
      /\ u.check = Armed(s.check)
      /\ u[TableOf(p)][p.dst] = x
      /\ \A t \in Tables, d \in Dests : t # TableOf(p) \/ d # p.dst => u[t][d] = s[t][d]
  BY <1>1, IssueFields
<1> HIDE DEF u
<1>3. s.mandatory \in Seq(Queued) /\ m \in Queued /\ m.pkt = p
  BY <1>1, FieldTypes DEF Queued
<1>4. N \in Nat /\ \A i \in 1 .. N : s.mandatory[i].pkt \in Packets
  BY <1>1, QueueTypes
<1> HIDE DEF m
<1>5. /\ Len(u.mandatory) = N + 1
      /\ \A i \in 1 .. N : u.mandatory[i] = s.mandatory[i]
      /\ u.mandatory[N + 1].pkt = p
  BY <1>2, <1>3, AppendProperties
<1> HIDE DEF N
<1>6. /\ \A i \in 1 .. N + 1 : i \in 1 .. N \/ i = N + 1
      /\ \A i \in 1 .. N : i \in 1 .. N + 1
      /\ N + 1 \in 1 .. N + 1
  BY <1>4
<1>7. p.dst \in Dests /\ TableOf(p) \in Tables
  BY PacketFields
<1>8. x \in Requests /\ x # None /\ x.pkt = p /\ x.age = 0
  BY InjectionAssumption DEF Requests
<1> HIDE DEF x
<1>9. s[TableOf(p)][p.dst] = None
  BY <1>7 DEF Issues, Aliased, Tables
<1>10. u.retryList <=> u.retryPkt # None
  BY <1>2 DEF Coherent
<1>11. Recorded(u)
  <2> SUFFICES ASSUME NEW i \in 1 .. N + 1
               PROVE  LET q == u.mandatory[i].pkt
                      IN  u[TableOf(q)][q.dst] # None /\ u[TableOf(q)][q.dst].pkt = q
    BY <1>5 DEF Recorded
  <2>1. CASE i = N + 1
    BY <1>2, <1>5, <1>8, <2>1
  <2>2. CASE i \in 1 .. N
    <3> DEFINE q == s.mandatory[i].pkt
    <3>1. q \in Packets /\ u.mandatory[i].pkt = q
      BY <1>4, <1>5, <2>2
    <3>2. s[TableOf(q)][q.dst] # None /\ s[TableOf(q)][q.dst].pkt = q
      BY <2>2 DEF Coherent, Recorded, N
    <3> HIDE DEF q
    <3>3. TableOf(q) \in Tables /\ q.dst \in Dests
      BY <3>1, PacketFields
    <3>4. u[TableOf(q)][q.dst] = s[TableOf(q)][q.dst]
      BY <1>2, <1>9, <3>2, <3>3
    <3> QED
      BY <3>1, <3>2, <3>4
  <2> QED
    BY <1>6, <2>1, <2>2
<1>12. InQueue(u)
  <2> SUFFICES ASSUME NEW t \in Tables, NEW d \in Dests, u[t][d] # None
               PROVE  \E i \in 1 .. N + 1 :
                        TableOf(u.mandatory[i].pkt) = t /\ u.mandatory[i].pkt.dst = d
    BY <1>5 DEF InQueue
  <2>1. CASE t = TableOf(p) /\ d = p.dst
    BY <1>5, <1>6, <2>1
  <2>2. CASE ~(t = TableOf(p) /\ d = p.dst)
    <3>1. s[t][d] # None
      BY <1>2, <2>2
    <3>2. PICK i \in 1 .. N : TableOf(s.mandatory[i].pkt) = t /\ s.mandatory[i].pkt.dst = d
      BY <3>1 DEF Coherent, InQueue, N
    <3> QED
      BY <1>5, <1>6, <3>2
  <2> QED
    BY <2>1, <2>2
<1>13. Young(u)
  <2> SUFFICES ASSUME NEW t \in Tables, NEW d \in Dests, u[t][d] # None
               PROVE  u.check # None /\ u[t][d].age + u.check < 2 * DeadlockThreshold
    BY DEF Young
  <2>1. /\ u.check \in 0 .. DeadlockThreshold /\ u.check # None
        /\ s.check # None => u.check = s.check
    <3>1. s.check \in 0 .. DeadlockThreshold \union {None}
      BY <1>1, FieldTypes
    <3> QED
      BY <1>2, <3>1, ArmedType
  <2>2. CASE t = TableOf(p) /\ d = p.dst
    <3>1. u[t][d].age = 0
      BY <1>2, <1>8, <2>2
    <3> QED
      BY <2>1, <3>1, InjectionAssumption
  <2>3. CASE ~(t = TableOf(p) /\ d = p.dst)
    <3>1. u[t][d] = s[t][d] /\ s[t][d] # None
      BY <1>2, <2>3
    <3>2. s.check # None /\ s[t][d].age + s.check < 2 * DeadlockThreshold
      BY <3>1 DEF Coherent, Young
    <3> QED
      BY <2>1, <3>1, <3>2
  <2> QED
    BY <2>2, <2>3
<1>14. \A i \in 1 .. N : s.mandatory[i].pkt.id # p.id /\ s.mandatory[i].pkt.id \in on
  BY DEF Coherent, IdsPlaced, N
<1>15. DistinctIds(u)
  <2>1. \A i, j \in 1 .. N : s.mandatory[i].pkt.id = s.mandatory[j].pkt.id => i = j
    BY DEF Coherent, DistinctIds, N
  <2>2. \A i, j \in 1 .. N + 1 : u.mandatory[i].pkt.id = u.mandatory[j].pkt.id => i = j
    BY <1>5, <1>6, <1>14, <2>1
  <2> QED
    BY <1>5, <2>2 DEF DistinctIds
<1>16. IdsPlaced(u, on \union {p.id})
  <2>1. \A i \in 1 .. N + 1 : u.mandatory[i].pkt.id \in on \union {p.id}
    BY <1>5, <1>6, <1>14
  <2>2. ASSUME u.retryPkt # None
        PROVE  /\ u.retryPkt.id \in on \union {p.id}
               /\ \A i \in 1 .. N + 1 : u.mandatory[i].pkt.id # u.retryPkt.id
    <3>1. /\ s.retryPkt.id \in on /\ s.retryPkt.id # p.id
          /\ \A i \in 1 .. N : s.mandatory[i].pkt.id # s.retryPkt.id
      BY <1>2, <2>2 DEF Coherent, IdsPlaced, NotQueued, N
    <3> QED
      BY <1>2, <1>5, <1>6, <3>1
  <2>3. ASSUME NEW id \in on \union {p.id}, \A i \in 1 .. N + 1 : u.mandatory[i].pkt.id # id
        PROVE  IsRetry(u, id)
    <3>1. id # p.id /\ id \in on /\ \A i \in 1 .. N : s.mandatory[i].pkt.id # id
      BY <1>5, <1>6, <2>3
    <3>2. IsRetry(s, id)
      BY <3>1 DEF Coherent, IdsPlaced, NotQueued, N
    <3> QED
      BY <1>2, <3>2 DEF IsRetry
  <2> QED
    BY <1>5, <2>1, <2>2, <2>3 DEF IdsPlaced, NotQueued
<1> QED
  BY <1>2, <1>10, <1>11, <1>12, <1>13, <1>15, <1>16 DEF Coherent, u

\* The port and the generator may change what they keep, as long as it agrees.
LEMMA PortCoherent ==
  ASSUME NEW s, NEW on, NEW on2, Coherent(s, on), NEW u \in Sequencers,
         u.read = s.read, u.write = s.write, u.mandatory = s.mandatory,
         s.check # None => u.check = s.check,
         u.retryList <=> u.retryPkt # None,
         IdsPlaced(u, on2)
  PROVE  Coherent(u, on2)
<1>1. \A t \in Tables : u[t] = s[t]
  BY DEF Tables
<1>2. Recorded(u)
  <2>1. s \in Sequencers
    BY DEF Coherent
  <2> SUFFICES ASSUME NEW i \in 1 .. Len(s.mandatory)
               PROVE  LET p == s.mandatory[i].pkt
                      IN  u[TableOf(p)][p.dst] # None /\ u[TableOf(p)][p.dst].pkt = p
    BY DEF Recorded
  <2>2. TableOf(s.mandatory[i].pkt) \in Tables
    BY <2>1, QueueTypes, PacketFields
  <2>3. LET p == s.mandatory[i].pkt
        IN  s[TableOf(p)][p.dst] # None /\ s[TableOf(p)][p.dst].pkt = p
    BY DEF Coherent, Recorded
  <2> QED
    BY <1>1, <2>2, <2>3
<1>3. InQueue(u)
  BY <1>1 DEF Coherent, InQueue
<1>4. Young(u)
  BY <1>1 DEF Coherent, Young
<1>5. DistinctIds(u)
  BY DEF Coherent, DistinctIds
<1> QED
  BY <1>2, <1>3, <1>4, <1>5 DEF Coherent

\* The generator sends a new packet: it is issued, or it replaces the one that
\* waits.
LEMMA SendCoherent ==
  ASSUME NEW s, NEW on, Coherent(s, on), NEW p \in Packets, p.id \notin on
  PROVE  Coherent(sendPkt(s, p), (on \ Replaced(s, p)) \union {p.id})
<1>1. s \in Sequencers
  BY DEF Coherent
<1>6. CASE Issues(s, p)
  <2>1. sendPkt(s, p) = Issue(s, p) /\ on \ Replaced(s, p) = on
    BY <1>6 DEF sendPkt, recvTimingReq, Replaced
  <2> QED
    BY <1>6, <2>1, IssueCoherent
<1>7. CASE ~Issues(s, p)
  <2> DEFINE r == recvTimingReq(s, p)
             u == sendPkt(s, p)
  <2>1. u = [r EXCEPT !.retryPkt = p]
    BY <1>7 DEF sendPkt
  <2>2. /\ r \in Sequencers /\ r.retryList = TRUE
        /\ r.read = s.read /\ r.write = s.write /\ r.mandatory = s.mandatory
        /\ r.check = s.check \/ r.check = Armed(s.check)
    BY <1>1, <1>7, RefuseFields
  <2>3. s.check # None => r.check = s.check
    BY <1>1, <2>2, FieldTypes, ArmedType
  <2> HIDE DEF r
  <2>4. /\ u \in Sequencers /\ u.retryList = TRUE /\ u.retryPkt = p
        /\ u.read = s.read /\ u.write = s.write /\ u.mandatory = s.mandatory
        /\ u.check = r.check
    BY <2>1, <2>2 DEF Sequencers
  <2>5. p # None
    BY PacketFields
  <2> HIDE DEF u
  <2> DEFINE on2 == (on \ Replaced(s, p)) \union {p.id}
  <2>6. IdsPlaced(u, on2)
    <3>1. /\ \A i \in 1 .. Len(s.mandatory) : s.mandatory[i].pkt.id \in on
          /\ s.retryPkt # None => NotQueued(s, s.retryPkt.id)
          /\ \A x \in on : NotQueued(s, x) => IsRetry(s, x)
      BY DEF Coherent, IdsPlaced
    <3>2. Replaced(s, p) = IF s.retryPkt = None THEN {} ELSE {s.retryPkt.id}
      BY <1>7 DEF Replaced
    <3>3. \A i \in 1 .. Len(s.mandatory) : s.mandatory[i].pkt.id \in on2
      BY <3>1, <3>2 DEF NotQueued
    <3>4. NotQueued(u, p.id) /\ p.id \in on2
      BY <2>4, <3>1 DEF NotQueued
    <3>5. ASSUME NEW x \in on2, NotQueued(u, x) PROVE x = p.id
      <4>1. NotQueued(s, x)
        BY <2>4, <3>5 DEF NotQueued
      <4>2. x \in on => x \in Replaced(s, p)
        BY <3>1, <3>2, <4>1 DEF IsRetry
      <4> QED
        BY <3>5, <4>2
    <3> HIDE DEF on2
    <3> QED
      BY <2>4, <2>5, <3>3, <3>4, <3>5 DEF IdsPlaced, IsRetry
  <2> HIDE DEF on2
  <2>7. Coherent(u, on2)
    BY <2>3, <2>4, <2>5, <2>6, PortCoherent
  <2> QED
    BY <2>7 DEF u, on2
<1> QED
  BY <1>6, <1>7

-----------------------------------------------------------------------------
\* The head of the queue is completed: its entry and its message are gone.
LEMMA CompleteCoherent ==
  ASSUME NEW s, NEW on, Coherent(s, on), s.mandatory # <<>>,
         NEW u \in Sequencers,
         NEW p, p = s.mandatory[1].pkt,
         u.retryPkt = s.retryPkt, u.retryList = s.retryList, u.check = s.check,
         u.mandatory = Tail(s.mandatory),
         u[TableOf(p)][p.dst] = None,
         \A t \in Tables, d \in Dests : t # TableOf(p) \/ d # p.dst => u[t][d] = s[t][d]
  PROVE  Coherent(u, on \ {p.id})
<1> DEFINE N == Len(s.mandatory)
<1>1. s \in Sequencers
  BY DEF Coherent
<1>2. N \in Nat /\ \A i \in 1 .. N : s.mandatory[i].pkt \in Packets
  BY <1>1, QueueTypes
<1>3. /\ s.mandatory \in Seq(Queued) /\ N # 0
  BY <1>1, FieldTypes, EmptySeq
<1>4. Len(u.mandatory) = N - 1 /\ \A i \in 1 .. N - 1 : u.mandatory[i] = s.mandatory[i + 1]
  BY <1>3, HeadTailProperties
<1> HIDE DEF N
<1>5. /\ 1 \in 1 .. N
      /\ \A i \in 1 .. N - 1 : i + 1 \in 1 .. N /\ i + 1 # 1
      /\ \A i \in 1 .. N : i # 1 => i - 1 \in 1 .. N - 1 /\ (i - 1) + 1 = i
      /\ \A i, j \in 1 .. N - 1 : i + 1 = j + 1 => i = j
  BY <1>2, <1>3
<1>6. \A i, j \in 1 .. N : s.mandatory[i].pkt.id = s.mandatory[j].pkt.id => i = j
  BY DEF Coherent, DistinctIds, N
<1>7. \A i \in 1 .. N - 1 : s.mandatory[i + 1].pkt.id # p.id
  BY <1>5, <1>6
<1>8. \A i \in 1 .. N : s.mandatory[i].pkt.id \in on
  BY DEF Coherent, IdsPlaced, N
<1>9. p \in Packets
  BY <1>2, <1>5
<1>10. \A i \in 1 .. N : LET q == s.mandatory[i].pkt
                         IN  s[TableOf(q)][q.dst] # None /\ s[TableOf(q)][q.dst].pkt = q
  BY DEF Coherent, Recorded, N
<1>11. u.retryList <=> u.retryPkt # None
  BY DEF Coherent
<1>12. Recorded(u)
  <2> SUFFICES ASSUME NEW i \in 1 .. N - 1
               PROVE  LET q == u.mandatory[i].pkt
                      IN  u[TableOf(q)][q.dst] # None /\ u[TableOf(q)][q.dst].pkt = q
    BY <1>4 DEF Recorded
  <2> DEFINE q == s.mandatory[i + 1].pkt
  <2>0. u.mandatory[i].pkt = q
    BY <1>4
  <2>1. q \in Packets /\ q.id # p.id
    BY <1>2, <1>5, <1>7
  <2>2. s[TableOf(q)][q.dst] # None /\ s[TableOf(q)][q.dst].pkt = q
    BY <1>5, <1>10
  <2>3. s[TableOf(p)][p.dst].pkt = p
    BY <1>5, <1>10
  <2> HIDE DEF q
  <2>4. TableOf(q) # TableOf(p) \/ q.dst # p.dst
    BY <2>1, <2>2, <2>3
  <2>5. TableOf(q) \in Tables /\ q.dst \in Dests
    BY <2>1, PacketFields
  <2>6. u[TableOf(q)][q.dst] = s[TableOf(q)][q.dst]
    BY <2>4, <2>5
  <2> QED
    BY <2>0, <2>2, <2>6
<1>13. InQueue(u)
  <2> SUFFICES ASSUME NEW t \in Tables, NEW d \in Dests, u[t][d] # None
               PROVE  \E i \in 1 .. N - 1 :
                        TableOf(u.mandatory[i].pkt) = t /\ u.mandatory[i].pkt.dst = d
    BY <1>4 DEF InQueue
  <2>1. ~(t = TableOf(p) /\ d = p.dst)
    OBVIOUS
  <2>2. s[t][d] # None
    BY <2>1
  <2>3. PICK i \in 1 .. N : TableOf(s.mandatory[i].pkt) = t /\ s.mandatory[i].pkt.dst = d
    BY <2>2 DEF Coherent, InQueue, N
  <2>4. i # 1
    BY <2>1, <2>3
  <2>5. u.mandatory[i - 1] = s.mandatory[i] /\ i - 1 \in 1 .. N - 1
    BY <1>4, <1>5, <2>4
  <2> QED
    BY <2>3, <2>5
<1>14. Young(u)
  <2> SUFFICES ASSUME NEW t \in Tables, NEW d \in Dests, u[t][d] # None
               PROVE  u.check # None /\ u[t][d].age + u.check < 2 * DeadlockThreshold
    BY DEF Young
  <2>1. u[t][d] = s[t][d]
    OBVIOUS
  <2> QED
    BY <2>1 DEF Coherent, Young
<1>15. DistinctIds(u)
  <2>1. \A i, j \in 1 .. N - 1 : u.mandatory[i].pkt.id = u.mandatory[j].pkt.id => i = j
    BY <1>4, <1>5, <1>6
  <2> QED
    BY <1>4, <2>1 DEF DistinctIds
<1>16. IdsPlaced(u, on \ {p.id})
  <2>1. \A i \in 1 .. N - 1 : u.mandatory[i].pkt.id \in on \ {p.id}
    BY <1>4, <1>5, <1>7, <1>8
  <2>2. ASSUME u.retryPkt # None
        PROVE  /\ u.retryPkt.id \in on \ {p.id}
               /\ \A i \in 1 .. N - 1 : u.mandatory[i].pkt.id # u.retryPkt.id
    <3>1. /\ s.retryPkt.id \in on
          /\ \A i \in 1 .. N : s.mandatory[i].pkt.id # s.retryPkt.id
      BY <2>2 DEF Coherent, IdsPlaced, NotQueued, N
    <3> QED
      BY <1>4, <1>5, <3>1
  <2>3. ASSUME NEW x \in on \ {p.id}, \A i \in 1 .. N - 1 : u.mandatory[i].pkt.id # x
        PROVE  IsRetry(u, x)
    <3>1. \A i \in 1 .. N : s.mandatory[i].pkt.id # x
      <4> TAKE i \in 1 .. N
      <4>1. CASE i = 1
        BY <4>1
      <4>2. CASE i # 1
        <5>1. i - 1 \in 1 .. N - 1 /\ (i - 1) + 1 = i
          BY <1>5, <4>2
        <5>2. u.mandatory[i - 1] = s.mandatory[i]
          BY <1>4, <5>1
        <5> QED
          BY <2>3, <5>1, <5>2
      <4> QED
        BY <4>1, <4>2
    <3>2. IsRetry(s, x)
      BY <3>1 DEF Coherent, IdsPlaced, NotQueued, N
    <3> QED
      BY <3>2 DEF IsRetry
  <2> QED
    BY <1>4, <2>1, <2>2, <2>3 DEF IdsPlaced, NotQueued
<1> QED
  BY <1>11, <1>12, <1>13, <1>14, <1>15, <1>16 DEF Coherent

\* A retry of the waiting packet, if there is one.
LEMMA RetryCoherent ==
  ASSUME NEW s, NEW on, Coherent(s, on)
  PROVE  Coherent(trySendRetries(s), on)
<1>1. s \in Sequencers
  BY DEF Coherent
<1>2. CASE ~s.retryList
  BY <1>2 DEF trySendRetries
<1>3. CASE s.retryList
  <2> DEFINE p == s.retryPkt
             off == [s EXCEPT !.retryList = FALSE]
             taken == [off EXCEPT !.retryPkt = None]
             r == recvTimingReq(off, p)
  <2>1. p \in Packets /\ p # None /\ p.id \in on /\ NotQueued(s, p.id)
    BY <1>1, <1>3, FieldTypes DEF Coherent, IdsPlaced
  <2>2. /\ off \in Sequencers /\ off.retryPkt = p /\ off.retryList = FALSE
        /\ off.read = s.read /\ off.write = s.write
        /\ off.mandatory = s.mandatory /\ off.check = s.check
    BY <1>1 DEF Sequencers
  <2>3. trySendRetries(s) = IF Issues(off, p) THEN [r EXCEPT !.retryPkt = None] ELSE r
    BY <1>3, <2>2 DEF trySendRetries, doRetry
  <2>4. CASE Issues(off, p)
    <3>1. r = Issue(off, p)
      BY <2>4 DEF recvTimingReq
    <3>2. /\ taken \in Sequencers /\ taken.retryPkt = None /\ taken.retryList = FALSE
          /\ taken.read = s.read /\ taken.write = s.write
          /\ taken.mandatory = s.mandatory /\ taken.check = s.check
      BY <2>2 DEF Sequencers
    <3>3. [r EXCEPT !.retryPkt = None] = Issue(taken, p)
      <4> DEFINE a == Issue(off, p)
                 b == Issue(taken, p)
                 c == [a EXCEPT !.retryPkt = None]
      <4>1. /\ a \in Sequencers /\ a.retryList = FALSE
            /\ a.mandatory = Append(s.mandatory, [pkt |-> p, ready |-> FALSE])
            /\ a.check = Armed(s.check)
            /\ a[TableOf(p)][p.dst] = [pkt |-> p, age |-> 0]
            /\ \A t \in Tables, d \in Dests : t # TableOf(p) \/ d # p.dst => a[t][d] = off[t][d]
        BY <2>1, <2>2, IssueFields
      <4>2. /\ b \in Sequencers /\ b.retryPkt = None /\ b.retryList = FALSE
            /\ b.mandatory = Append(s.mandatory, [pkt |-> p, ready |-> FALSE])
            /\ b.check = Armed(s.check)
            /\ b[TableOf(p)][p.dst] = [pkt |-> p, age |-> 0]
            /\ \A t \in Tables, d \in Dests : t # TableOf(p) \/ d # p.dst => b[t][d] = taken[t][d]
        BY <2>1, <3>2, IssueFields
      <4> HIDE DEF a, b, off, taken
      <4>3. /\ c \in Sequencers /\ c.retryPkt = None /\ c.retryList = FALSE
            /\ c.read = a.read /\ c.write = a.write
            /\ c.mandatory = a.mandatory /\ c.check = a.check
        BY <4>1 DEF Sequencers
      <4>4. \A t \in Tables, d \in Dests : a[t][d] = b[t][d]
        BY <2>2, <3>2, <4>1, <4>2 DEF Tables
      <4>5. a.read = b.read /\ a.write = b.write
        <5>1. \A d \in Dests : a.read[d] = b.read[d] /\ a.write[d] = b.write[d]
          BY <4>4 DEF Tables
        <5>2. /\ a.read \in [Dests -> Requests \union {None}]
              /\ a.write \in [Dests -> Requests \union {None}]
              /\ b.read \in [Dests -> Requests \union {None}]
              /\ b.write \in [Dests -> Requests \union {None}]
          BY <4>1, <4>2, FieldTypes
        <5> QED
          BY <5>1, <5>2
      <4> HIDE DEF c
      <4>6. c = b
        BY <4>1, <4>2, <4>3, <4>5, SameFields
      <4> QED
        BY <3>1, <4>6 DEF a, b, c
    <3>4. IdsPlaced(taken, on \ {p.id})
      <4>1. /\ \A i \in 1 .. Len(s.mandatory) : s.mandatory[i].pkt.id \in on
            /\ \A x \in on : NotQueued(s, x) => IsRetry(s, x)
        BY DEF Coherent, IdsPlaced
      <4> HIDE DEF taken, off
      <4>2. \A x : NotQueued(taken, x) <=> NotQueued(s, x)
        BY <3>2 DEF NotQueued
      <4>3. \A i \in 1 .. Len(taken.mandatory) : taken.mandatory[i].pkt.id \in on \ {p.id}
        BY <2>1, <3>2, <4>1 DEF NotQueued
      <4>4. \A x \in on \ {p.id} : ~NotQueued(taken, x)
        BY <4>1, <4>2 DEF IsRetry
      <4> QED
        BY <3>2, <4>3, <4>4 DEF IdsPlaced
    <3>5. Issues(taken, p)
      BY <2>2, <2>4, <3>2 DEF Issues, Full, Aliased, Outstanding
    <3> HIDE DEF taken, p
    <3>6. Coherent(taken, on \ {p.id})
      BY <3>2, <3>4, PortCoherent
    <3>7. Coherent(Issue(taken, p), on)
      <4>1. (on \ {p.id}) \union {p.id} = on /\ p.id \notin on \ {p.id}
        BY <2>1
      <4>2. Coherent(Issue(taken, p), (on \ {p.id}) \union {p.id})
        BY <2>1, <3>5, <3>6, <4>1, IssueCoherent
      <4> QED
        BY <4>1, <4>2
    <3> QED
      BY <2>3, <2>4, <3>3, <3>7
  <2>5. CASE ~Issues(off, p)
    <3>1. /\ r \in Sequencers /\ r.retryPkt = p /\ r.retryList = TRUE
          /\ r.read = s.read /\ r.write = s.write /\ r.mandatory = s.mandatory
          /\ r.check = s.check \/ r.check = Armed(s.check)
      BY <2>1, <2>2, <2>5, RefuseFields
    <3>2. s.check # None => r.check = s.check
      BY <1>1, <3>1, FieldTypes, ArmedType
    <3> HIDE DEF r
    <3>4. IdsPlaced(r, on)
      BY <3>1 DEF Coherent, IdsPlaced, NotQueued, IsRetry
    <3> HIDE DEF p
    <3>3. Coherent(r, on)
      BY <2>1, <3>1, <3>2, <3>4, PortCoherent
    <3> QED
      BY <2>3, <2>5, <3>3
  <2> QED
    BY <2>4, <2>5
<1> QED
  BY <1>2, <1>3

-----------------------------------------------------------------------------
\* Whether a request is issued depends on the tables alone.
LEMMA IssuesByTables ==
  ASSUME NEW s, NEW u, NEW p, u.read = s.read, u.write = s.write
  PROVE  (Full(u) <=> Full(s)) /\ (Issues(u, p) <=> Issues(s, p))
<1>1. Outstanding(u) = Outstanding(s)
  BY DEF Outstanding
<1> QED
  BY <1>1 DEF Full, Issues, Aliased

LEMMA RetryFields ==
  ASSUME NEW s \in Sequencers, s.retryList, s.retryPkt \in Packets
  PROVE  LET r == trySendRetries(s)
             p == s.retryPkt
         IN  /\ r \in Sequencers
             /\ Issues(s, p) =>
                  /\ r.retryPkt = None /\ r.retryList = FALSE
                  /\ r.mandatory = Append(s.mandatory, [pkt |-> p, ready |-> FALSE])
                  /\ r.check = Armed(s.check)
                  /\ r[TableOf(p)][p.dst] = [pkt |-> p, age |-> 0]
                  /\ \A t \in Tables, d \in Dests :
                       t # TableOf(p) \/ d # p.dst => r[t][d] = s[t][d]
             /\ ~Issues(s, p) =>
                  /\ r.retryPkt = p /\ r.retryList = TRUE
                  /\ r.read = s.read /\ r.write = s.write
                  /\ r.mandatory = s.mandatory
                  /\ r.check = IF Full(s) THEN s.check ELSE Armed(s.check)
<1> DEFINE p == s.retryPkt
           off == [s EXCEPT !.retryList = FALSE]
           a == recvTimingReq(off, p)
<1>1. /\ off \in Sequencers /\ off.retryPkt = p /\ off.retryList = FALSE
      /\ off.read = s.read /\ off.write = s.write
      /\ off.mandatory = s.mandatory /\ off.check = s.check
  BY DEF Sequencers
<1>2. trySendRetries(s) = IF Issues(off, p) THEN [a EXCEPT !.retryPkt = None] ELSE a
  BY <1>1 DEF trySendRetries, doRetry
<1>3. (Full(off) <=> Full(s)) /\ (Issues(off, p) <=> Issues(s, p))
  BY <1>1, IssuesByTables
<1>4. \A t \in Tables : off[t] = s[t]
  BY <1>1 DEF Tables
<1>0. p \in Packets
  OBVIOUS
<1> HIDE DEF off, p
<1>5. CASE Issues(s, p)
  <2> DEFINE r == [a EXCEPT !.retryPkt = None]
  <2>1. a = Issue(off, p)
    BY <1>3, <1>5 DEF recvTimingReq
  <2>2. /\ a \in Sequencers /\ a.retryList = FALSE
        /\ a.mandatory = Append(s.mandatory, [pkt |-> p, ready |-> FALSE])
        /\ a.check = Armed(s.check)
        /\ a[TableOf(p)][p.dst] = [pkt |-> p, age |-> 0]
        /\ \A t \in Tables, d \in Dests : t # TableOf(p) \/ d # p.dst => a[t][d] = s[t][d]
    <3>1. /\ a \in Sequencers /\ a.retryList = off.retryList
          /\ a.mandatory = Append(off.mandatory, [pkt |-> p, ready |-> FALSE])
          /\ a.check = Armed(off.check)
          /\ a[TableOf(p)][p.dst] = [pkt |-> p, age |-> 0]
          /\ \A t \in Tables, d \in Dests : t # TableOf(p) \/ d # p.dst => a[t][d] = off[t][d]
      BY <1>0, <1>1, <2>1, IssueFields
    <3> HIDE DEF a
    <3> QED
      BY <1>1, <1>4, <3>1
  <2> HIDE DEF a
  <2>3. /\ r \in Sequencers /\ r.retryPkt = None /\ r.retryList = FALSE
        /\ r.read = a.read /\ r.write = a.write
        /\ r.mandatory = a.mandatory /\ r.check = a.check
    BY <2>2 DEF Sequencers
  <2>4. \A t \in Tables : r[t] = a[t]
    BY <2>3 DEF Tables
  <2>5. TableOf(p) \in Tables
    BY PacketFields DEF p
  <2>6. trySendRetries(s) = r
    BY <1>2, <1>3, <1>5
  <2> HIDE DEF r
  <2> QED
    BY <1>5, <2>2, <2>3, <2>4, <2>5, <2>6 DEF p
<1>6. CASE ~Issues(s, p)
  <2>1. trySendRetries(s) = a
    BY <1>2, <1>3, <1>6
  <2>2. /\ a \in Sequencers /\ a.retryPkt = p /\ a.retryList = TRUE
        /\ a.read = s.read /\ a.write = s.write /\ a.mandatory = s.mandatory
        /\ a.check = IF Full(s) THEN s.check ELSE Armed(s.check)
    <3>1. /\ a \in Sequencers /\ a.retryPkt = off.retryPkt /\ a.retryList = TRUE
          /\ a.read = off.read /\ a.write = off.write /\ a.mandatory = off.mandatory
          /\ a.check = IF Full(off) THEN off.check ELSE Armed(off.check)
      BY <1>0, <1>1, <1>3, <1>6, RefuseFields
    <3> HIDE DEF a
    <3> QED
      BY <1>1, <1>3, <3>1
  <2> HIDE DEF a
  <2> QED
    BY <1>6, <2>1, <2>2 DEF p
<1> QED
  BY <1>5, <1>6

\* Popping the queue after a retry has appended to it, or before: the same.
LEMMA PopCommutes ==
  ASSUME NEW s \in Sequencers, s.mandatory # <<>>, s.retryList => s.retryPkt \in Packets
  PROVE  [trySendRetries(s) EXCEPT !.mandatory = Tail(@)]
           = trySendRetries([s EXCEPT !.mandatory = Tail(@)])
<1> DEFINE u == [s EXCEPT !.mandatory = Tail(@)]
           a == trySendRetries(s)
           b == trySendRetries(u)
           v == [a EXCEPT !.mandatory = Tail(@)]
           p == s.retryPkt
<1>1. s.mandatory \in Seq(Queued) /\ Tail(s.mandatory) \in Seq(Queued)
  BY FieldTypes, HeadTailProperties
<1>2. /\ u \in Sequencers /\ u.mandatory = Tail(s.mandatory)
      /\ u.retryPkt = s.retryPkt /\ u.retryList = s.retryList
      /\ u.read = s.read /\ u.write = s.write /\ u.check = s.check
  BY <1>1 DEF Sequencers
<1> HIDE DEF u
<1>3. CASE ~s.retryList
  BY <1>2, <1>3 DEF trySendRetries, u
<1>4. CASE s.retryList
  <2>1. (Full(u) <=> Full(s)) /\ (Issues(u, p) <=> Issues(s, p))
    BY <1>2, IssuesByTables
  <2>2. \A t \in Tables : u[t] = s[t]
    BY <1>2 DEF Tables
  <2>3. CASE Issues(s, p)
    <3> DEFINE m == [pkt |-> p, ready |-> FALSE]
    <3>1. /\ a \in Sequencers /\ a.retryPkt = None /\ a.retryList = FALSE
          /\ a.mandatory = Append(s.mandatory, m)
          /\ a.check = Armed(s.check)
          /\ a[TableOf(p)][p.dst] = [pkt |-> p, age |-> 0]
          /\ \A t \in Tables, d \in Dests : t # TableOf(p) \/ d # p.dst => a[t][d] = s[t][d]
      BY <1>4, <2>3, RetryFields
    <3>2. /\ b \in Sequencers /\ b.retryPkt = None /\ b.retryList = FALSE
          /\ b.mandatory = Append(Tail(s.mandatory), m)
          /\ b.check = Armed(s.check)
          /\ b[TableOf(p)][p.dst] = [pkt |-> p, age |-> 0]
          /\ \A t \in Tables, d \in Dests : t # TableOf(p) \/ d # p.dst => b[t][d] = s[t][d]
      <4> DEFINE q == u.retryPkt
      <4>1. u.retryList /\ q \in Packets /\ Issues(u, q) /\ q = p
        BY <1>2, <1>4, <2>1, <2>3
      <4>2. /\ b \in Sequencers /\ b.retryPkt = None /\ b.retryList = FALSE
            /\ b.mandatory = Append(u.mandatory, [pkt |-> q, ready |-> FALSE])
            /\ b.check = Armed(u.check)
            /\ b[TableOf(q)][q.dst] = [pkt |-> q, age |-> 0]
            /\ \A t \in Tables, d \in Dests : t # TableOf(q) \/ d # q.dst => b[t][d] = u[t][d]
        BY <1>2, <4>1, RetryFields
      <4> HIDE DEF b, q
      <4> QED
        BY <1>2, <2>2, <4>1, <4>2
    <3>3. m \in Queued
      BY <1>4 DEF Queued
    <3> HIDE DEF a, b, m
    <3>4. Tail(a.mandatory) = b.mandatory /\ b.mandatory \in Seq(Queued)
      BY <1>1, <3>1, <3>2, <3>3, HeadTailAppend, FieldTypes
    <3>5. /\ v \in Sequencers /\ v.mandatory = b.mandatory
          /\ v.retryPkt = a.retryPkt /\ v.retryList = a.retryList
          /\ v.read = a.read /\ v.write = a.write /\ v.check = a.check
      BY <3>1, <3>4 DEF Sequencers
    <3>6. \A t \in Tables, d \in Dests : a[t][d] = b[t][d]
      BY <3>1, <3>2
    <3>7. a.read = b.read /\ a.write = b.write
      <4>1. \A d \in Dests : a.read[d] = b.read[d] /\ a.write[d] = b.write[d]
        BY <3>6 DEF Tables
      <4>2. /\ a.read \in [Dests -> Requests \union {None}]
            /\ a.write \in [Dests -> Requests \union {None}]
            /\ b.read \in [Dests -> Requests \union {None}]
            /\ b.write \in [Dests -> Requests \union {None}]
        BY <3>1, <3>2, FieldTypes
      <4> QED
        BY <4>1, <4>2
    <3> HIDE DEF v
    <3>8. v = b
      BY <3>1, <3>2, <3>5, <3>7, SameFields
    <3> QED
      BY <3>8 DEF v, a, b, u
  <2>4. CASE ~Issues(s, p)
    <3>1. /\ a \in Sequencers /\ a.retryPkt = p /\ a.retryList = TRUE
          /\ a.read = s.read /\ a.write = s.write /\ a.mandatory = s.mandatory
          /\ a.check = IF Full(s) THEN s.check ELSE Armed(s.check)
      BY <1>4, <2>4, RetryFields
    <3>2. /\ b \in Sequencers /\ b.retryPkt = p /\ b.retryList = TRUE
          /\ b.read = s.read /\ b.write = s.write /\ b.mandatory = Tail(s.mandatory)
          /\ b.check = IF Full(s) THEN s.check ELSE Armed(s.check)
      BY <1>2, <1>4, <2>1, <2>4, RetryFields
    <3> HIDE DEF a, b
    <3>3. /\ v \in Sequencers /\ v.mandatory = Tail(s.mandatory)
          /\ v.retryPkt = a.retryPkt /\ v.retryList = a.retryList
          /\ v.read = a.read /\ v.write = a.write /\ v.check = a.check
      BY <1>1, <3>1 DEF Sequencers
    <3> HIDE DEF v
    <3>4. v = b
      BY <3>1, <3>2, <3>3, SameFields
    <3> QED
      BY <3>4 DEF v, a, b, u
  <2> QED
    BY <2>3, <2>4
<1> QED
  BY <1>3, <1>4

-----------------------------------------------------------------------------
(***************************************************************************)
(* The buffers towards the network: what is left of them in a cycle, with  *)
(* what was taken out still counted.                                       *)
(***************************************************************************)
Buffers == [size : 0 .. MaxSize, fresh : Nat, popped : BOOLEAN, start : Nat]

BuffersFit(o) ==
  /\ o \in [Vnets -> Buffers]
  /\ \A v \in Vnets : o[v].fresh <= o[v].size /\ (o[v].popped => o[v].size <= o[v].start + o[v].fresh)

\* A set of naturals that is not empty has a least element.
LEMMA LeastOne ==
  ASSUME NEW S \in SUBSET Nat, S # {}
  PROVE  \E x \in S : \A y \in S : x <= y
<1> DEFINE R == OpToRel(<, Nat)
<1>1. \E x \in S : \A y \in S : ~(<<y, x>> \in R)
  BY NatLessThanWellFounded, WFMin
<1>2. R = { ss \in Nat \X Nat : ss[1] < ss[2] }
  BY Zenon DEF OpToRel
<1> HIDE DEF R
<1>3. \A x, y \in S : ~(<<y, x>> \in R) => x <= y
  BY <1>2
<1> QED
  BY <1>1, <1>3

\* What the controller's loop carries along.
Controlled(c) == Coherent(c.s, c.live) /\ BuffersFit(c.out)

LEMMA TransitionControlled ==
  ASSUME NEW c, Controlled(c), HeadReady(c)
  PROVE  Controlled(Transition(c))
<1> DEFINE s == c.s
           p == Head(s.mandatory).pkt
           e == [s EXCEPT ![TableOf(p)][p.dst] = None]
           u == [e EXCEPT !.mandatory = Tail(@)]
           r == trySendRetries(u)
<1>1. s \in Sequencers /\ Coherent(s, c.live) /\ s.mandatory # <<>>
  BY DEF Controlled, Coherent, HeadReady
<1>2. s.mandatory \in Seq(Queued) /\ Head(s.mandatory) = s.mandatory[1] /\ Len(s.mandatory) # 0
  BY <1>1, FieldTypes, HeadTailProperties, EmptySeq
<1>3. p = s.mandatory[1].pkt /\ p \in Packets
  BY <1>1, <1>2, QueueTypes
<1> HIDE DEF p, s
<1>4. /\ e \in Sequencers
      /\ e.retryPkt = s.retryPkt /\ e.retryList = s.retryList
      /\ e.mandatory = s.mandatory /\ e.check = s.check
      /\ e[TableOf(p)][p.dst] = None
      /\ \A t \in Tables, d \in Dests : t # TableOf(p) \/ d # p.dst => e[t][d] = s[t][d]
  <2>1. s \in Sequencers /\ p \in Packets
    BY <1>1, <1>3
  <2> QED
    BY <2>1, EntryCleared
<1> HIDE DEF e
<1>5. Tail(e.mandatory) \in Seq(Queued)
  BY <1>1, <1>2, <1>4, HeadTailProperties
<1>6. /\ u \in Sequencers
      /\ u.retryPkt = s.retryPkt /\ u.retryList = s.retryList /\ u.check = s.check
      /\ u.mandatory = Tail(s.mandatory)
      /\ u.read = e.read /\ u.write = e.write
  BY <1>4, <1>5 DEF Sequencers
<1> HIDE DEF u
<1>7. \A t \in Tables : u[t] = e[t]
  BY <1>6 DEF Tables
<1>8. TableOf(p) \in Tables
  BY <1>3, PacketFields
<1>9. u[TableOf(p)][p.dst] = None
      /\ \A t \in Tables, d \in Dests : t # TableOf(p) \/ d # p.dst => u[t][d] = s[t][d]
  BY <1>4, <1>7, <1>8
<1>10. Coherent(u, c.live \ {p.id})
  BY <1>1, <1>3, <1>6, <1>9, CompleteCoherent
<1>11. Coherent(r, c.live \ {p.id})
  BY <1>10, RetryCoherent
<1>12. [hitCallback(s, p) EXCEPT !.mandatory = Tail(@)] = r
  <2>1. hitCallback(s, p) = trySendRetries(e)
    BY DEF hitCallback, e
  <2>2. e.mandatory # <<>> /\ (e.retryList => e.retryPkt \in Packets)
    BY <1>1, <1>4, FieldTypes DEF Coherent
  <2>3. [trySendRetries(e) EXCEPT !.mandatory = Tail(@)] = trySendRetries([e EXCEPT !.mandatory = Tail(@)])
    BY <1>4, <2>2, PopCommutes
  <2> QED
    BY <2>1, <2>3 DEF u
<1> DEFINE o == [c.out EXCEPT ![p.vnet].size = @ + 1, ![p.vnet].fresh = @ + 1]
<1>13. Transition(c) = [s |-> r, out |-> o, live |-> c.live \ {p.id}]
  BY <1>12 DEF Transition, s, p
<1>14. BuffersFit(o)
  <2> DEFINE b == c.out[p.vnet]
             b1 == [b EXCEPT !.size = @ + 1, !.fresh = @ + 1]
  <2>1. p.vnet \in Vnets
    BY <1>3, PacketFields
  <2>2. /\ c.out \in [Vnets -> Buffers]
        /\ \A v \in Vnets : /\ c.out[v].fresh <= c.out[v].size
                            /\ c.out[v].popped => c.out[v].size <= c.out[v].start + c.out[v].fresh
    BY DEF Controlled, BuffersFit
  <2>3. SlotAvailable(b)
    BY DEF HeadReady, s, p
  <2>4. b \in Buffers
    BY <2>1, <2>2
  <2>5. b.fresh <= b.size /\ (b.popped => b.size <= b.start + b.fresh)
    BY <2>1, <2>2
  <2> HIDE DEF b
  <2>6. b.size + 1 <= MaxSize
    <3>1. /\ b.size \in Nat /\ b.fresh \in Nat /\ b.start \in Nat /\ b.popped \in BOOLEAN
          /\ MaxSize \in Nat
      BY <2>4, InjectionAssumption DEF Buffers
    <3>2. CASE b.popped
      BY <2>3, <2>5, <3>1, <3>2 DEF SlotAvailable
    <3>3. CASE ~b.popped
      BY <2>3, <3>3 DEF SlotAvailable
    <3> QED
      BY <3>2, <3>3
  <2>7. /\ b1 \in Buffers /\ b1.size = b.size + 1 /\ b1.fresh = b.fresh + 1
        /\ b1.popped = b.popped /\ b1.start = b.start
    <3>1. b.size + 1 \in 0 .. MaxSize /\ b.fresh + 1 \in Nat
      BY <2>4, <2>6, InjectionAssumption DEF Buffers
    <3> QED
      BY <2>4, <3>1 DEF Buffers
  <2>8. o = [c.out EXCEPT ![p.vnet] = b1]
    BY <2>1, <2>2, <2>4 DEF Buffers, b
  <2> HIDE DEF b1
  <2>9. o \in [Vnets -> Buffers] /\ o[p.vnet] = b1 /\ \A v \in Vnets : v # p.vnet => o[v] = c.out[v]
    BY <2>1, <2>2, <2>7, <2>8
  <2>10. b1.fresh <= b1.size /\ (b1.popped => b1.size <= b1.start + b1.fresh)
    BY <2>4, <2>5, <2>7 DEF Buffers
  <2> HIDE DEF o
  <2> QED
    BY <2>2, <2>9, <2>10 DEF BuffersFit
<1> HIDE DEF r, o
<1> QED
  BY <1>11, <1>13, <1>14 DEF Controlled

\* The loop of the controller keeps what each of its transitions keeps.
LEMMA LoopControlled ==
  ASSUME NEW c, Controlled(c)
  PROVE  Controlled(Loop(c))
<1> DEFINE T == TransitionsPerCycle
           Step(x) == IF HeadReady(x) THEN Transition(x) ELSE x
           Runs(g, k) == g = [j \in 0 .. k |-> IF j = 0 THEN c ELSE Step(g[j - 1])]
           after == CHOOSE g : Runs(g, T)
<1>1. Loop(c) = after[T]
  BY DEF Loop
<1>2. T \in Nat
  BY InjectionAssumption
<1>3. \A k \in 0 .. T : \E g : Runs(g, k)
  <2> DEFINE Bad == { k \in 0 .. T : ~\E g : Runs(g, k) }
  <2> SUFFICES ASSUME Bad # {} PROVE FALSE
    OBVIOUS
  <2>1. Bad \in SUBSET Nat
    OBVIOUS
  <2> HIDE DEF Bad
  <2>2. PICK k \in Bad : \A j \in Bad : k <= j
    BY <2>1, LeastOne
  <2>3. k \in 0 .. T /\ ~\E g : Runs(g, k)
    BY DEF Bad
  <2>4. CASE k = 0
    <3> DEFINE g == [j \in 0 .. 0 |-> c]
    <3>1. Runs(g, 0)
      OBVIOUS
    <3> QED
      BY <2>3, <2>4, <3>1
  <2>5. CASE k # 0
    <3>1. k - 1 \in 0 .. T /\ ~(k <= k - 1) /\ k \in Nat
      BY <1>2, <2>3, <2>5
    <3>2. PICK g : Runs(g, k - 1)
      BY <2>2, <3>1 DEF Bad
    <3> DEFINE h == [j \in 0 .. k |-> IF j = k THEN Step(g[k - 1]) ELSE g[j]]
    <3>3. \A j \in 0 .. k - 1 : g[j] = IF j = 0 THEN c ELSE Step(g[j - 1])
      BY <3>2
    <3> HIDE DEF Step
    <3>4. \A j \in 0 .. k - 1 : j \in 0 .. k /\ j # k
      BY <3>1
    <3>5. \A j \in 0 .. k - 1 : h[j] = g[j]
      BY <3>4
    <3>6. h[k] = Step(g[k - 1]) /\ k - 1 \in 0 .. k - 1
      BY <2>5, <3>1
    <3>7. \A j \in 0 .. k : h[j] = IF j = 0 THEN c ELSE Step(h[j - 1])
      <4> TAKE j \in 0 .. k
      <4>1. CASE j = k
        BY <2>5, <3>5, <3>6, <4>1
      <4>2. CASE j # k
        <5>1. j \in 0 .. k - 1 /\ (j # 0 => j - 1 \in 0 .. k - 1)
          BY <3>1, <4>2
        <5> QED
          BY <3>3, <3>5, <5>1
      <4> QED
        BY <4>1, <4>2
    <3>8. Runs(h, k)
      BY <3>7
    <3> QED
      BY <2>3, <3>8
  <2> QED
    BY <2>4, <2>5
<1>4. Runs(after, T)
  <2>1. T \in 0 .. T
    BY <1>2
  <2>2. \E g : Runs(g, T)
    BY <1>3, <2>1
  <2> HIDE DEF Runs
  <2> QED
    BY <2>2, Zenon
<1> HIDE DEF after
<1>5. \A k \in 0 .. T : after[k] = IF k = 0 THEN c ELSE Step(after[k - 1])
  BY <1>4
<1>6. \A k \in 0 .. T : Controlled(after[k])
  <2> DEFINE Bad == { k \in 0 .. T : ~Controlled(after[k]) }
  <2> SUFFICES ASSUME Bad # {} PROVE FALSE
    OBVIOUS
  <2>1. Bad \in SUBSET Nat
    OBVIOUS
  <2> HIDE DEF Bad
  <2>2. PICK k \in Bad : \A j \in Bad : k <= j
    BY <2>1, LeastOne
  <2>3. k \in 0 .. T /\ ~Controlled(after[k])
    BY DEF Bad
  <2>4. k # 0
    BY <1>5, <2>3
  <2>5. k - 1 \in 0 .. T /\ ~(k <= k - 1)
    BY <1>2, <2>3, <2>4
  <2>6. Controlled(after[k - 1])
    BY <2>2, <2>5 DEF Bad
  <2>7. after[k] = Step(after[k - 1])
    BY <1>5, <2>3, <2>4
  <2> QED
    BY <2>3, <2>6, <2>7, TransitionControlled
<1> QED
  BY <1>1, <1>2, <1>6

-----------------------------------------------------------------------------
\* The entries grow older, the check comes nearer, the messages become ready.
LEMMA ClockCoherent ==
  ASSUME NEW s, NEW on, Coherent(s, on), s.check # 0
  PROVE  Coherent([s EXCEPT !.read = Older(@),
                            !.write = Older(@),
                            !.check = IF @ = None THEN None ELSE @ - 1,
                            !.mandatory = [i \in DOMAIN @ |-> [@[i] EXCEPT !.ready = TRUE]]],
                  on)
<1> DEFINE k == IF s.check = None THEN None ELSE s.check - 1
           m == [i \in DOMAIN s.mandatory |-> [s.mandatory[i] EXCEPT !.ready = TRUE]]
           u == [s EXCEPT !.read = Older(@), !.write = Older(@), !.check = k, !.mandatory = m]
           N == Len(s.mandatory)
<1>1. s \in Sequencers
  BY DEF Coherent
<1>2. /\ N \in Nat /\ DOMAIN s.mandatory = 1 .. N
      /\ \A i \in 1 .. N : s.mandatory[i] \in Queued /\ s.mandatory[i].pkt \in Packets
  BY <1>1, QueueTypes
<1>3. m \in Seq(Queued) /\ Len(m) = N /\ \A i \in 1 .. N : m[i].pkt = s.mandatory[i].pkt
  <2>1. m \in [1 .. N -> Queued] /\ \A i \in 1 .. N : m[i].pkt = s.mandatory[i].pkt
    BY <1>2 DEF Queued
  <2> HIDE DEF m
  <2> QED
    BY <1>2, <2>1
<1>4. /\ k \in 0 .. DeadlockThreshold \union {None}
      /\ s.check # None => k # None /\ k = s.check - 1 /\ s.check \in Nat
  <2>1. s.check \in 0 .. DeadlockThreshold \union {None}
    BY <1>1, FieldTypes
  <2>2. CASE s.check = None
    BY <2>2
  <2>3. CASE s.check # None
    <3>1. s.check \in Nat /\ s.check - 1 \in 0 .. DeadlockThreshold
      BY <2>1, <2>3, InjectionAssumption
    <3> QED
      BY <2>3, <3>1, InjectionAssumption
  <2> QED
    BY <2>2, <2>3
<1> HIDE DEF k, m
<1>5. ASSUME NEW f \in [Dests -> Requests \union {None}]
      PROVE  /\ Older(f) \in [Dests -> Requests \union {None}]
             /\ \A d \in Dests : /\ f[d] = None <=> Older(f)[d] = None
                                 /\ f[d] # None => /\ f[d].age \in Nat
                                                   /\ Older(f)[d].pkt = f[d].pkt
                                                   /\ Older(f)[d].age = f[d].age + 1
  <2>1. ASSUME NEW d \in Dests, f[d] # None
        PROVE  /\ [f[d] EXCEPT !.age = @ + 1] \in Requests /\ f[d].age \in Nat
               /\ [f[d] EXCEPT !.age = @ + 1].pkt = f[d].pkt
               /\ [f[d] EXCEPT !.age = @ + 1].age = f[d].age + 1
    BY <2>1 DEF Requests
  <2>2. \A x \in Requests : x # None
    BY InjectionAssumption
  <2> QED
    BY <2>1, <2>2 DEF Older
<1>6. /\ u \in Sequencers
      /\ u.retryPkt = s.retryPkt /\ u.retryList = s.retryList
      /\ u.read = Older(s.read) /\ u.write = Older(s.write)
      /\ u.mandatory = m /\ u.check = k
  <2>1. s.read \in [Dests -> Requests \union {None}] /\ s.write \in [Dests -> Requests \union {None}]
    BY <1>1, FieldTypes
  <2>2. Older(s.read) \in [Dests -> Requests \union {None}] /\ Older(s.write) \in [Dests -> Requests \union {None}]
    BY <1>5, <2>1
  <2> QED
    BY <1>1, <1>3, <1>4, <2>2 DEF Sequencers
<1> HIDE DEF u
<1>7. \A t \in Tables, d \in Dests :
        /\ s[t][d] = None <=> u[t][d] = None
        /\ s[t][d] # None => /\ s[t][d].age \in Nat
                             /\ u[t][d].pkt = s[t][d].pkt
                             /\ u[t][d].age = s[t][d].age + 1
  BY <1>1, <1>5, <1>6, FieldTypes DEF Tables
<1> HIDE DEF N
<1>8. u.retryList <=> u.retryPkt # None
  BY <1>6 DEF Coherent
<1>9. Recorded(u)
  <2> SUFFICES ASSUME NEW i \in 1 .. N
               PROVE  LET p == s.mandatory[i].pkt
                      IN  u[TableOf(p)][p.dst] # None /\ u[TableOf(p)][p.dst].pkt = p
    BY <1>3, <1>6 DEF Recorded
  <2> DEFINE p == s.mandatory[i].pkt
  <2>1. TableOf(p) \in Tables /\ p.dst \in Dests
    BY <1>2, PacketFields
  <2>2. s[TableOf(p)][p.dst] # None /\ s[TableOf(p)][p.dst].pkt = p
    BY DEF Coherent, Recorded, N
  <2> HIDE DEF p
  <2>3. u[TableOf(p)][p.dst] # None /\ u[TableOf(p)][p.dst].pkt = p
    BY <1>7, <2>1, <2>2
  <2> QED
    BY <2>3 DEF p
<1>10. InQueue(u)
  <2> SUFFICES ASSUME NEW t \in Tables, NEW d \in Dests, u[t][d] # None
               PROVE  \E i \in 1 .. N : TableOf(m[i].pkt) = t /\ m[i].pkt.dst = d
    BY <1>3, <1>6 DEF InQueue
  <2>1. PICK i \in 1 .. N : TableOf(s.mandatory[i].pkt) = t /\ s.mandatory[i].pkt.dst = d
    BY <1>7 DEF Coherent, InQueue, N
  <2> QED
    BY <1>3, <2>1
<1>11. Young(u)
  <2> SUFFICES ASSUME NEW t \in Tables, NEW d \in Dests, u[t][d] # None
               PROVE  u.check # None /\ u[t][d].age + u.check < 2 * DeadlockThreshold
    BY DEF Young
  <2>1. s[t][d] # None /\ s[t][d].age \in Nat /\ u[t][d].age = s[t][d].age + 1
    BY <1>7
  <2>2. s.check # None /\ s[t][d].age + s.check < 2 * DeadlockThreshold
    BY <2>1 DEF Coherent, Young
  <2> QED
    BY <1>4, <1>6, <2>1, <2>2, InjectionAssumption
<1>12. DistinctIds(u)
  <2>1. \A i, j \in 1 .. N : s.mandatory[i].pkt.id = s.mandatory[j].pkt.id => i = j
    BY DEF Coherent, DistinctIds, N
  <2> QED
    BY <1>3, <1>6, <2>1 DEF DistinctIds
<1>13. IdsPlaced(u, on)
  BY <1>3, <1>6 DEF Coherent, IdsPlaced, NotQueued, IsRetry, N
<1>14. Coherent(u, on)
  BY <1>6, <1>8, <1>9, <1>10, <1>11, <1>12, <1>13 DEF Coherent
<1> QED
  BY <1>14 DEF u, k, m

\* The deadlock check that finds nothing is scheduled again, if it has to be.
LEMMA CheckCoherent ==
  ASSUME NEW s, NEW on, Coherent(s, on),
         ~\E a \in Ages(s) : a >= DeadlockThreshold
  PROVE  Coherent([s EXCEPT !.check = CheckAgain(s)], on)
<1> DEFINE k == CheckAgain(s)
           u == [s EXCEPT !.check = k]
<1>1. s \in Sequencers
  BY DEF Coherent
<1>2. k \in 0 .. DeadlockThreshold \union {None}
  BY InjectionAssumption DEF CheckAgain
<1>3. Outstanding(s) # {} => k = DeadlockThreshold
  BY DEF CheckAgain
<1> HIDE DEF k
<1>4. /\ u \in Sequencers
      /\ u.retryPkt = s.retryPkt /\ u.retryList = s.retryList
      /\ u.read = s.read /\ u.write = s.write /\ u.mandatory = s.mandatory
      /\ u.check = k
  BY <1>1, <1>2 DEF Sequencers
<1> HIDE DEF u
<1>5. \A t \in Tables : u[t] = s[t]
  BY <1>4 DEF Tables
<1>6. Recorded(u)
  <2> SUFFICES ASSUME NEW i \in 1 .. Len(s.mandatory)
               PROVE  LET p == s.mandatory[i].pkt
                      IN  u[TableOf(p)][p.dst] # None /\ u[TableOf(p)][p.dst].pkt = p
    BY <1>4 DEF Recorded
  <2>1. TableOf(s.mandatory[i].pkt) \in Tables
    BY <1>1, QueueTypes, PacketFields
  <2>2. LET p == s.mandatory[i].pkt
        IN  s[TableOf(p)][p.dst] # None /\ s[TableOf(p)][p.dst].pkt = p
    BY DEF Coherent, Recorded
  <2> QED
    BY <1>5, <2>1, <2>2
<1>7. InQueue(u)
  BY <1>4, <1>5 DEF Coherent, InQueue
<1>8. Young(u)
  <2> SUFFICES ASSUME NEW t \in Tables, NEW d \in Dests, s[t][d] # None
               PROVE  k # None /\ s[t][d].age + k < 2 * DeadlockThreshold
    BY <1>4, <1>5 DEF Young
  <2>1. <<t, d>> \in Outstanding(s)
    BY DEF Outstanding, Tables
  <2>2. s[t][d].age \in Ages(s)
    BY <2>1 DEF Ages
  <2>3. s[t][d].age \in Nat
    <3>1. s[t][d] \in Requests
      BY <1>1, FieldTypes
    <3> QED
      BY <3>1 DEF Requests
  <2>4. s[t][d].age < DeadlockThreshold /\ k = DeadlockThreshold
    BY <1>3, <2>1, <2>2, <2>3, InjectionAssumption
  <2> QED
    BY <2>3, <2>4, InjectionAssumption
<1>9. DistinctIds(u)
  BY <1>4 DEF Coherent, DistinctIds
<1>10. IdsPlaced(u, on)
  BY <1>4 DEF Coherent, IdsPlaced, NotQueued, IsRetry
<1>11. u.retryList <=> u.retryPkt # None
  BY <1>4 DEF Coherent
<1>12. Coherent(u, on)
  BY <1>4, <1>6, <1>7, <1>8, <1>9, <1>10, <1>11 DEF Coherent
<1> QED
  BY <1>12 DEF u, k

\* What sendPkt leaves scheduled is not due in this cycle.
LEMMA SendCheck ==
  ASSUME NEW s \in Sequencers, NEW p \in Packets, s.check # 0
  PROVE  sendPkt(s, p).check # 0
<1>1. Armed(s.check) # 0
  BY InjectionAssumption DEF Armed
<1>2. CASE Issues(s, p)
  <2>1. sendPkt(s, p) = Issue(s, p)
    BY <1>2 DEF sendPkt, recvTimingReq
  <2> QED
    BY <1>1, <2>1, IssueFields
<1>3. CASE ~Issues(s, p)
  <2> DEFINE r == recvTimingReq(s, p)
  <2>1. r \in Sequencers /\ r.check = IF Full(s) THEN s.check ELSE Armed(s.check)
    BY <1>3, RefuseFields
  <2>2. sendPkt(s, p) = [r EXCEPT !.retryPkt = p]
    BY <1>3 DEF sendPkt
  <2> HIDE DEF r
  <2>3. sendPkt(s, p).check = r.check
    BY <2>1, <2>2 DEF Sequencers
  <2> QED
    BY <1>1, <2>1, <2>3
<1> QED
  BY <1>2, <1>3

-----------------------------------------------------------------------------
InjectionInv ==
  /\ live \subseteq Ids
  /\ ran \in BOOLEAN /\ ticked \in BOOLEAN /\ panicked \in BOOLEAN
  /\ Coherent(sq, live)
  /\ BuffersFit(out)
  /\ ticked => sq.check # 0

LEMMA InjectionInit == Init => InjectionInv
<1> SUFFICES ASSUME Init PROVE InjectionInv
  OBVIOUS
<1>1. sq \in Sequencers
  <2>1. <<>> \in Seq(Queued)
    BY EmptySeq
  <2>2. sq = [retryPkt  |-> None, retryList |-> FALSE,
              read      |-> [d \in Dests |-> None], write |-> [d \in Dests |-> None],
              mandatory |-> <<>>, check |-> None]
    BY DEF Init
  <2> QED
    BY <2>1, <2>2 DEF Sequencers
<1>2. Len(sq.mandatory) = 0 /\ sq.retryPkt = None /\ sq.retryList = FALSE
  BY DEF Init
<1>3. \A t \in Tables, d \in Dests : sq[t][d] = None
  BY DEF Init, Tables
<1>4. Recorded(sq) /\ DistinctIds(sq)
  BY <1>2 DEF Recorded, DistinctIds
<1>5. InQueue(sq) /\ Young(sq)
  BY <1>3 DEF InQueue, Young
<1>6. IdsPlaced(sq, live)
  BY <1>2 DEF IdsPlaced, Init
<1>7. Coherent(sq, live)
  BY <1>1, <1>2, <1>4, <1>5, <1>6 DEF Coherent
<1>8. BuffersFit(out)
  <2>1. 0 \in 0 .. MaxSize
    BY InjectionAssumption
  <2> QED
    BY <2>1 DEF Init, BuffersFit, Buffers
<1> QED
  BY <1>7, <1>8 DEF Init, InjectionInv

\* The packets on their way have names.
LEMMA PlacedIds ==
  ASSUME NEW s, NEW on, Coherent(s, on)
  PROVE  on \subseteq Ids
<1>1. s \in Sequencers /\ \A x \in on : NotQueued(s, x) => IsRetry(s, x)
  BY DEF Coherent, IdsPlaced
<1>2. \A i \in 1 .. Len(s.mandatory) : s.mandatory[i].pkt.id \in Ids
  BY <1>1, QueueTypes, PacketFields
<1>3. s.retryPkt # None => s.retryPkt.id \in Ids
  BY <1>1, FieldTypes, PacketFields
<1> QED
  BY <1>1, <1>2, <1>3 DEF NotQueued, IsRetry

LEMMA InjectionNext == InjectionInv /\ [Next]_vars => InjectionInv'
<1> SUFFICES ASSUME InjectionInv, [Next]_vars PROVE InjectionInv'
  OBVIOUS
<1>1. Coherent(sq, live) /\ BuffersFit(out) /\ sq \in Sequencers /\ live \subseteq Ids
  BY DEF InjectionInv, Coherent
<1>2. CASE ControllerWakeup
  <2> DEFINE c == [s |-> sq, out |-> out, live |-> live]
             r == Loop(c)
  <2>1. Controlled(c)
    BY <1>1 DEF Controlled
  <2>2. Controlled(r)
    BY <1>1, <2>1, LoopControlled
  <2>3. /\ sq' = r.s /\ out' = r.out /\ live' = r.live
        /\ ~ticked /\ ran' = TRUE
        /\ ticked' = ticked /\ panicked' = panicked
    BY <1>2 DEF ControllerWakeup
  <2> HIDE DEF r
  <2>4. Coherent(sq', live') /\ BuffersFit(out')
    BY <2>2, <2>3 DEF Controlled
  <2>5. live' \subseteq Ids
    BY <2>4, PlacedIds
  <2> QED
    BY <2>3, <2>4, <2>5 DEF InjectionInv
<1>3. ASSUME NEW v \in Vnets, NiDequeue(v) PROVE InjectionInv'
  <2> DEFINE b == out[v]
             b1 == [b EXCEPT !.size = @ - 1, !.popped = TRUE,
                             !.start = IF b.popped THEN @ ELSE b.size]
  <2>1. /\ b.size > b.fresh
        /\ out' = [out EXCEPT ![v] = b1]
        /\ UNCHANGED <<sq, live, ran, ticked, panicked>>
    BY <1>3, Zenon DEF NiDequeue
  <2>2. /\ out \in [Vnets -> Buffers]
        /\ \A w \in Vnets : /\ out[w].fresh <= out[w].size
                            /\ out[w].popped => out[w].size <= out[w].start + out[w].fresh
    BY <1>1 DEF BuffersFit
  <2>3. b \in Buffers /\ (b.popped => b.size <= b.start + b.fresh)
    BY <2>2
  <2> HIDE DEF b
  <2>4. /\ b.size \in 0 .. MaxSize /\ b.fresh \in Nat /\ b.start \in Nat /\ b.popped \in BOOLEAN
        /\ MaxSize \in Nat
    BY <2>3, InjectionAssumption DEF Buffers
  <2>5. b.size - 1 \in 0 .. MaxSize
    BY <2>1, <2>4
  <2>6. /\ b1 \in Buffers /\ b1.size = b.size - 1 /\ b1.fresh = b.fresh /\ b1.popped = TRUE
        /\ b1.start = IF b.popped THEN b.start ELSE b.size
    <3>1. (IF b.popped THEN b.start ELSE b.size) \in Nat
      BY <2>4
    <3> QED
      BY <2>3, <2>5, <3>1 DEF Buffers
  <2> HIDE DEF b1
  <2>7. b1.fresh <= b1.size /\ b1.size <= b1.start + b1.fresh
    BY <2>1, <2>3, <2>4, <2>6
  <2>8. /\ out' \in [Vnets -> Buffers] /\ out'[v] = b1
        /\ \A w \in Vnets : w # v => out'[w] = out[w]
    BY <2>1, <2>2, <2>6
  <2>9. BuffersFit(out')
    BY <2>2, <2>7, <2>8 DEF BuffersFit
  <2> QED
    BY <2>1, <2>9 DEF InjectionInv
<1>4. CASE SequencerWakeup
  <2>1. /\ ~ticked /\ ticked' = ticked /\ panicked' \in BOOLEAN
        /\ UNCHANGED <<out, live, ran>>
    BY <1>4 DEF SequencerWakeup
  <2>2. Coherent(sq', live)
    <3>1. CASE \E a \in Ages(sq) : a >= DeadlockThreshold
      BY <1>1, <1>4, <3>1 DEF SequencerWakeup
    <3>2. CASE ~\E a \in Ages(sq) : a >= DeadlockThreshold
      <4>1. sq' = [sq EXCEPT !.check = CheckAgain(sq)]
        BY <1>4, <3>2 DEF SequencerWakeup
      <4>2. Coherent([sq EXCEPT !.check = CheckAgain(sq)], live)
        BY <1>1, <3>2, CheckCoherent
      <4> QED
        BY <4>1, <4>2
    <3> QED
      BY <3>1, <3>2
  <2> QED
    BY <2>1, <2>2 DEF InjectionInv
<1>5. ASSUME NEW v \in Vnets, NEW d \in Dests, TickSends(v, d) PROVE InjectionInv'
  <2>1. PICK id : id = CHOOSE i \in Ids : i \notin live
    OBVIOUS
  <2> DEFINE p == [id |-> id, vnet |-> v, dst |-> d]
  <2>2. /\ sq.check # 0 /\ \E i \in Ids : i \notin live
        /\ sq' = sendPkt(sq, p)
        /\ live' = (live \ Replaced(sq, p)) \union {id}
        /\ ticked' = TRUE
        /\ UNCHANGED <<out, ran, panicked>>
    BY <1>5, <2>1 DEF TickSends, CycleWorkDone
  <2>3. id \in Ids /\ id \notin live
    BY <2>1, <2>2
  <2>4. p \in Packets /\ p.id = id
    BY <2>3 DEF Packets
  <2> HIDE DEF p
  <2>5. Coherent(sq', live')
    BY <1>1, <2>2, <2>3, <2>4, SendCoherent
  <2>6. sq'.check # 0
    BY <1>1, <2>2, <2>4, SendCheck
  <2>7. live' \subseteq Ids
    BY <1>1, <2>2, <2>3
  <2> QED
    BY <2>2, <2>5, <2>6, <2>7 DEF InjectionInv
<1>6. CASE TickIdle
  BY <1>6 DEF TickIdle, CycleWorkDone, InjectionInv
<1>7. CASE NextCycle
  <2> DEFINE u == [sq EXCEPT !.read = Older(@),
                             !.write = Older(@),
                             !.check = IF @ = None THEN None ELSE @ - 1,
                             !.mandatory = [i \in DOMAIN @ |-> [@[i] EXCEPT !.ready = TRUE]]]
  <2>1. sq.check # 0
    BY <1>7 DEF NextCycle, InjectionInv
  <2>2. Coherent(u, live)
    BY <1>1, <2>1, ClockCoherent
  <2>3. sq' = u
    BY <1>7 DEF NextCycle
  <2> HIDE DEF u
  <2>4. /\ out' = [v \in Vnets |-> [out[v] EXCEPT !.fresh = 0, !.popped = FALSE, !.start = 0]]
        /\ ran' = FALSE /\ ticked' = FALSE
        /\ UNCHANGED <<live, panicked>>
    BY <1>7 DEF NextCycle
  <2>5. BuffersFit(out')
    <3>1. out \in [Vnets -> Buffers]
      BY <1>1 DEF BuffersFit
    <3>2. \A b \in Buffers :
            LET b1 == [b EXCEPT !.fresh = 0, !.popped = FALSE, !.start = 0]
            IN  b1 \in Buffers /\ b1.fresh <= b1.size /\ ~b1.popped
      <4> TAKE b \in Buffers
      <4> DEFINE b1 == [b EXCEPT !.fresh = 0, !.popped = FALSE, !.start = 0]
      <4>1. b.size \in Nat
        BY InjectionAssumption DEF Buffers
      <4>2. b1 \in Buffers /\ b1.fresh = 0 /\ b1.size = b.size /\ b1.popped = FALSE
        BY DEF Buffers
      <4> HIDE DEF b1
      <4>3. b1.fresh <= b1.size /\ ~b1.popped
        BY <4>1, <4>2
      <4> QED
        BY <4>2, <4>3 DEF b1
    <3> QED
      BY <2>4, <3>1, <3>2 DEF BuffersFit
  <2> QED
    BY <2>2, <2>3, <2>4, <2>5 DEF InjectionInv
<1>8. CASE UNCHANGED vars
  BY <1>8 DEF vars, InjectionInv
<1> QED
  BY <1>2, <1>3, <1>4, <1>5, <1>6, <1>7, <1>8 DEF Next

LEMMA InjectionAlways == Spec => []InjectionInv
  BY InjectionInit, InjectionNext, PTL DEF Spec

-----------------------------------------------------------------------------
\* The values every variable ranges over; SlotAvailable, which still counts
\* what the interface took out in this cycle, keeps the controller from
\* overfilling a buffer.
THEOREM InjectionTyped == Spec => []TypeOK
<1>1. InjectionInv => TypeOK
  <2> SUFFICES ASSUME InjectionInv PROVE TypeOK
    OBVIOUS
  <2>1. sq \in Sequencers /\ live \subseteq Ids
    BY DEF InjectionInv, Coherent
  <2>2. \A t \in Tables, d \in Dests : sq[t][d] = None \/ sq[t][d].pkt \in Packets
    <3>1. \A t \in Tables, d \in Dests : sq[t][d] \in Requests \union {None}
      BY <2>1, FieldTypes
    <3>2. \A x \in Requests : x.pkt \in Packets
      BY DEF Requests
    <3> QED
      BY <3>1, <3>2
  <2>3. \A v \in Vnets : out[v].size \in 0 .. MaxSize
    <3>1. out \in [Vnets -> Buffers]
      BY DEF InjectionInv, BuffersFit
    <3>2. \A b \in Buffers : b.size \in 0 .. MaxSize
      BY DEF Buffers
    <3> QED
      BY <3>1, <3>2
  <2>5. /\ sq.retryPkt \in Packets \union {None} /\ sq.retryList \in BOOLEAN
        /\ sq.check \in 0 .. DeadlockThreshold \union {None}
    BY <2>1, FieldTypes
  <2> QED
    BY <2>1, <2>2, <2>3, <2>5 DEF TypeOK, InjectionInv, Tables
<1> QED
  BY <1>1, InjectionAlways, PTL

\* The port is on the retry list exactly while a packet waits: also when the
\* retry inside a callback is refused again.
THEOREM PortRemembersRetry == Spec => []RetryListed
<1>1. InjectionInv => RetryListed
  BY DEF InjectionInv, Coherent, RetryListed
<1> QED
  BY <1>1, InjectionAlways, PTL

\* There are as many entries as messages: the entry of a message tells which.
LEMMA AsManyEntries ==
  ASSUME NEW s, NEW on, Coherent(s, on)
  PROVE  Len(s.mandatory) = Cardinality(Outstanding(s))
<1> DEFINE N == Len(s.mandatory)
           A == 1 .. N
           B == Outstanding(s)
           P(i) == s.mandatory[i].pkt
           f == [i \in A |-> <<TableOf(P(i)), P(i).dst>>]
<1>1. s \in Sequencers
  BY DEF Coherent
<1>2. N \in Nat /\ \A i \in A : P(i) \in Packets
  BY <1>1, QueueTypes
<1>3. \A i \in A : TableOf(P(i)) \in Tables /\ P(i).dst \in Dests
  BY <1>2, PacketFields
<1>4. \A i \in A : s[TableOf(P(i))][P(i).dst] # None /\ s[TableOf(P(i))][P(i).dst].pkt = P(i)
  BY DEF Coherent, Recorded
<1>5. \A t \in Tables, d \in Dests :
        s[t][d] # None => \E i \in A : TableOf(P(i)) = t /\ P(i).dst = d
  BY DEF Coherent, InQueue
<1>6. \A i, j \in A : P(i).id = P(j).id => i = j
  BY DEF Coherent, DistinctIds
<1>7. B = { td \in Tables \X Dests : s[td[1]][td[2]] # None }
  BY DEF Outstanding, Tables
<1> HIDE DEF A, B, P, N
<1>8. \A i \in A : f[i] \in B
  BY <1>3, <1>4, <1>7
<1>9. ASSUME NEW i \in A, NEW j \in A, f[i] = f[j]
      PROVE  i = j
  <2>1. TableOf(P(i)) = TableOf(P(j)) /\ P(i).dst = P(j).dst
    BY <1>9
  <2>2. s[TableOf(P(i))][P(i).dst].pkt = P(i) /\ s[TableOf(P(j))][P(j).dst].pkt = P(j)
    BY <1>4
  <2>3. P(i) = P(j)
    BY <2>1, <2>2
  <2> QED
    BY <1>6, <2>3
<1>10. \A b \in B : \E i \in A : f[i] = b
  BY <1>5, <1>7
<1>11. f \in Bijection(A, B)
  <2>1. f \in [A -> B]
    BY <1>8
  <2> HIDE DEF f
  <2>2. f \in Injection(A, B)
    BY <1>9, <2>1 DEF Injection, IsInjective
  <2>3. f \in Surjection(A, B)
    BY <1>10, <2>1 DEF Surjection
  <2> QED
    BY <2>2, <2>3 DEF Bijection
<1>12. IsFiniteSet(A) /\ Cardinality(A) = N
  BY <1>2, FS_Interval DEF A
<1>13. Cardinality(B) = Cardinality(A)
  BY <1>11, <1>12, FS_Bijection DEF ExistsBijection
<1> QED
  BY <1>12, <1>13 DEF B, N

\* Until it is injected a packet is in one place, unless a later refused one
\* replaces it in retryPkt, however the retries fall between the callbacks: the
\* asserts of readCallback and writeCallback hold, no packet is injected twice
\* and none but the replaced ones is lost.
THEOREM PacketInOnePlace == Spec => []EveryPacketOnce
<1>1. InjectionInv => EveryPacketOnce
  <2> SUFFICES ASSUME InjectionInv PROVE EveryPacketOnce
    OBVIOUS
  <2> DEFINE N == Len(sq.mandatory)
  <2>1. Coherent(sq, live) /\ sq \in Sequencers
    BY DEF InjectionInv, Coherent
  <2>2. DOMAIN sq.mandatory = 1 .. N
    BY <2>1, QueueTypes
  <2>3. N = Cardinality(Outstanding(sq))
    BY <2>1, AsManyEntries
  <2>4. CallbacksMatch
    BY <2>1, <2>2, <2>3 DEF CallbacksMatch, Coherent, Recorded
  <2>5. \A i \in 1 .. N : PacketIds(sq)[i] = sq.mandatory[i].pkt.id
    BY <2>2 DEF PacketIds
  <2>6. OnePlaceEach
    <3>1. \A i, j \in 1 .. N : sq.mandatory[i].pkt.id = sq.mandatory[j].pkt.id => i = j
      BY <2>1 DEF Coherent, DistinctIds
    <3>2. \A i \in 1 .. N : sq.mandatory[i].pkt.id \in live
      BY <2>1 DEF Coherent, IdsPlaced
    <3>3. sq.retryPkt # None =>
            sq.retryPkt.id \in live /\ \A i \in 1 .. N : sq.mandatory[i].pkt.id # sq.retryPkt.id
      BY <2>1 DEF Coherent, IdsPlaced, NotQueued
    <3>4. \A x \in live : (\E i \in 1 .. N : sq.mandatory[i].pkt.id = x) \/ IsRetry(sq, x)
      BY <2>1 DEF Coherent, IdsPlaced, NotQueued
    <3> DEFINE queued == { PacketIds(sq)[i] : i \in DOMAIN sq.mandatory }
               retry  == IF sq.retryPkt = None THEN {} ELSE {sq.retryPkt.id}
    <3>5. \A x : x \in queued <=> \E i \in 1 .. N : sq.mandatory[i].pkt.id = x
      BY <2>2, <2>5
    <3>6. \A x : x \in retry <=> IsRetry(sq, x)
      BY DEF IsRetry
    <3>7. \A x : x \in live <=> x \in queued \/ x \in retry
      BY <3>2, <3>3, <3>4, <3>5, <3>6 DEF IsRetry
    <3> HIDE DEF queued, retry
    <3>8. live = queued \union retry
      BY <3>7
    <3> QED
      BY <2>2, <2>5, <3>1, <3>3, <3>8 DEF OnePlaceEach, queued, retry
  <2> QED
    BY <2>4, <2>6 DEF EveryPacketOnce
<1> QED
  BY <1>1, InjectionAlways, PTL

\* The deadlock check is late by less than one period: an entry's age and the
\* cycles until the next check stay below twice the threshold together.
THEOREM DeadlockFoundInTime == Spec => []DeadlockNoticed
<1>1. InjectionInv => DeadlockNoticed
  <2> SUFFICES ASSUME InjectionInv, NEW td \in Outstanding(sq)
               PROVE  sq[td[1]][td[2]].age < 2 * DeadlockThreshold
    BY DEF DeadlockNoticed, Ages
  <2>1. sq \in Sequencers /\ Young(sq)
    BY DEF InjectionInv, Coherent
  <2>2. td[1] \in Tables /\ td[2] \in Dests /\ sq[td[1]][td[2]] # None
    BY DEF Outstanding, Tables
  <2>3. sq[td[1]][td[2]] \in Requests /\ sq.check \in 0 .. DeadlockThreshold \union {None}
    BY <2>1, <2>2, FieldTypes
  <2>4. sq[td[1]][td[2]].age \in Nat
    BY <2>3 DEF Requests
  <2>5. sq.check # None /\ sq[td[1]][td[2]].age + sq.check < 2 * DeadlockThreshold
    BY <2>1, <2>2 DEF Young
  <2> QED
    BY <2>3, <2>4, <2>5, InjectionAssumption
<1> QED
  BY <1>1, InjectionAlways, PTL
=============================================================================
