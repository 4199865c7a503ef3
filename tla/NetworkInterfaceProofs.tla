----------------------- MODULE NetworkInterfaceProofs -----------------------
(***************************************************************************)
(* The ejection half of NetworkInterface::wakeup keeps its books right for *)
(* every number of vnets and VCs and every buffer size, first by itself    *)
(* (Spec) and then with the injection half around it (NiSpec).  The        *)
(* injection half then does the same for every workload.                   *)
(***************************************************************************)
EXTENDS NetworkInterface, FiniteSetTheorems, SequenceTheorems,
        NaturalsInduction, WellFoundedInduction, TLAPS

\* m_size_at_cycle_start is never below what is left of the buffer.
SizeAtStart == \A n \in Vnets : buf[n].popped => buf[n].ready <= buf[n].start

Distinct(queue) == \A i, j \in DOMAIN queue : queue[i] = queue[j] => i = j
In(v, queue) == \E i \in DOMAIN queue : queue[i] = v

\* A flit is on the link, in m_stall_queue or in outCreditQueue, once.
OnePlace ==
  /\ Distinct(stall) /\ Distinct(credits)
  /\ \A v \in Vcs : ~(In(v, stall) /\ In(v, credits))
  /\ ~In(arrived, stall) /\ ~In(arrived, credits)
  /\ \A v \in Vcs : ovc[v] = "ACTIVE" <=> v = arrived \/ In(v, stall) \/ In(v, credits)

\* The interface is awake in the cycle in which a flit arrives.
AwakeForFlit == arrived # NoFlit => 0 \in wake

EjectionInv ==
  /\ TypeOK
  /\ CapacityHeld
  /\ SizeAtStart
  /\ StallsCounted
  /\ OnePlace
  /\ AwakeForFlit

-----------------------------------------------------------------------------
\* A part of a queue, which may be empty.
LEMMA PartOf ==
  ASSUME NEW S, NEW q \in Seq(S), NEW m \in Int, NEW n \in Int,
         1 <= m, n <= Len(q), m <= n + 1
  PROVE  /\ SubSeq(q, m, n) \in Seq(S)
         /\ Len(SubSeq(q, m, n)) = n - m + 1
         /\ \A j \in 1 .. n - m + 1 : SubSeq(q, m, n)[j] = q[m + j - 1]
<1>1. \A j \in m .. n : q[j] \in S
  BY ElementOfSeq, LenProperties
<1> QED
  BY <1>1, SubSeqProperties

\* The queue without its i-th element.
LEMMA RemoveNthProperties ==
  ASSUME NEW S, NEW q \in Seq(S), NEW i \in DOMAIN q
  PROVE  /\ RemoveNth(q, i) \in Seq(S)
         /\ Len(RemoveNth(q, i)) = Len(q) - 1
         /\ \A j \in 1 .. Len(q) - 1 :
              RemoveNth(q, i)[j] = IF j < i THEN q[j] ELSE q[j + 1]
<1> DEFINE a == SubSeq(q, 1, i - 1)
           b == SubSeq(q, i + 1, Len(q))
<1>1. /\ i \in 1 .. Len(q) /\ Len(q) \in Nat /\ Len(q) \in Int
      /\ i \in Int /\ i - 1 \in Int /\ i + 1 \in Int
  BY LenProperties
<1>2. /\ a \in Seq(S) /\ Len(a) = i - 1
      /\ \A j \in 1 .. i - 1 : a[j] = q[j]
  BY <1>1, PartOf
<1>3. /\ b \in Seq(S) /\ Len(b) = Len(q) - i
      /\ \A j \in 1 .. Len(q) - i : b[j] = q[i + j]
  <2> DEFINE m == i + 1
             n == Len(q)
  <2>1. m \in Int /\ n \in Int /\ 1 <= m /\ n <= Len(q) /\ m <= n + 1
    BY <1>1
  <2> HIDE DEF m, n
  <2>2. /\ SubSeq(q, m, n) \in Seq(S)
        /\ Len(SubSeq(q, m, n)) = n - m + 1
        /\ \A j \in 1 .. n - m + 1 : SubSeq(q, m, n)[j] = q[m + j - 1]
    BY <2>1, PartOf
  <2>3. b = SubSeq(q, m, n)
    BY DEF m, n
  <2> HIDE DEF b
  <2>4. n - m + 1 = Len(q) - i /\ \A j \in Int : m + j - 1 = i + j
    BY <1>1 DEF m, n
  <2>5. \A j \in 1 .. Len(q) - i : b[j] = q[i + j]
    <3> TAKE j \in 1 .. Len(q) - i
    <3>1. j \in Int
      BY <1>1
    <3>2. b[j] = q[m + j - 1]
      BY <2>2, <2>3, <2>4, Zenon
    <3> QED
      BY <2>4, <3>1, <3>2, Zenon
  <2> QED
    BY <2>2, <2>3, <2>4, <2>5, Zenon
<1> HIDE DEF a, b
<1>4. /\ a \o b \in Seq(S)
      /\ Len(a \o b) = Len(a) + Len(b)
      /\ \A j \in 1 .. Len(a) + Len(b) : (a \o b)[j] = IF j <= Len(a) THEN a[j] ELSE b[j - Len(a)]
  BY <1>2, <1>3, ConcatProperties
<1>5. RemoveNth(q, i) = a \o b
  BY DEF RemoveNth, a, b
<1>6. Len(a) + Len(b) = Len(q) - 1
  BY <1>1, <1>2, <1>3
<1>7. ASSUME NEW j \in 1 .. Len(q) - 1
      PROVE  (a \o b)[j] = IF j < i THEN q[j] ELSE q[j + 1]
  <2>1. (a \o b)[j] = IF j <= i - 1 THEN a[j] ELSE b[j - (i - 1)]
    BY <1>2, <1>4, <1>6
  <2>2. CASE j < i
    BY <1>1, <1>2, <2>1, <2>2
  <2>3. CASE ~(j < i)
    <3>1. j - (i - 1) \in 1 .. Len(q) - i /\ i + (j - (i - 1)) = j + 1
      BY <1>1, <2>3
    <3>2. b[j - (i - 1)] = q[j + 1]
      BY <1>3, <3>1
    <3> QED
      BY <1>1, <2>1, <2>3, <3>2
  <2> QED
    BY <2>2, <2>3
<1> QED
  BY <1>4, <1>5, <1>6, <1>7

\* What the queue holds after an element is taken out or put in.
LEMMA RemovedFrom ==
  ASSUME NEW S, NEW q \in Seq(S), NEW i \in DOMAIN q, Distinct(q)
  PROVE  /\ Distinct(RemoveNth(q, i))
         /\ \A v : In(v, RemoveNth(q, i)) <=> In(v, q) /\ v # q[i]
<1> DEFINE r == RemoveNth(q, i)
<1>1. /\ i \in 1 .. Len(q) /\ Len(q) \in Nat /\ DOMAIN q = 1 .. Len(q)
      /\ DOMAIN r = 1 .. Len(q) - 1
      /\ \A j \in 1 .. Len(q) - 1 : r[j] = IF j < i THEN q[j] ELSE q[j + 1]
  BY LenProperties, RemoveNthProperties
<1> HIDE DEF r
<1>2. Distinct(r)
  <2> SUFFICES ASSUME NEW j \in 1 .. Len(q) - 1, NEW k \in 1 .. Len(q) - 1, r[j] = r[k]
               PROVE  j = k
    BY <1>1 DEF Distinct
  <2> DEFINE Old(m) == IF m < i THEN m ELSE m + 1
  <2>1. r[j] = q[Old(j)] /\ r[k] = q[Old(k)] /\ Old(j) \in 1 .. Len(q) /\ Old(k) \in 1 .. Len(q)
    BY <1>1
  <2>2. Old(j) = Old(k)
    BY <1>1, <2>1 DEF Distinct
  <2> QED
    BY <1>1, <2>2
<1>3. ASSUME NEW v, In(v, r) PROVE In(v, q) /\ v # q[i]
  <2>1. PICK j \in 1 .. Len(q) - 1 : r[j] = v
    BY <1>1, <1>3 DEF In
  <2>2. CASE j < i
    BY <1>1, <2>1, <2>2 DEF In, Distinct
  <2>3. CASE ~(j < i)
    BY <1>1, <2>1, <2>3 DEF In, Distinct
  <2> QED
    BY <2>2, <2>3
<1>4. ASSUME NEW v, In(v, q), v # q[i] PROVE In(v, r)
  <2>1. PICK j \in 1 .. Len(q) : q[j] = v /\ j # i
    BY <1>1, <1>4 DEF In
  <2>2. CASE j < i
    BY <1>1, <2>1, <2>2 DEF In
  <2>3. CASE j > i
    <3>1. j - 1 \in 1 .. Len(q) - 1 /\ r[j - 1] = v
      BY <1>1, <2>1, <2>3
    <3> QED
      BY <1>1, <3>1 DEF In
  <2> QED
    BY <1>1, <2>1, <2>2, <2>3
<1> QED
  BY <1>2, <1>3, <1>4 DEF r

LEMMA AppendedTo ==
  ASSUME NEW S, NEW q \in Seq(S), NEW x \in S
  PROVE  /\ \A v : In(v, Append(q, x)) <=> In(v, q) \/ v = x
         /\ Distinct(q) /\ ~In(x, q) => Distinct(Append(q, x))
<1> DEFINE r == Append(q, x)
<1>1. /\ Len(q) \in Nat /\ DOMAIN q = 1 .. Len(q) /\ DOMAIN r = 1 .. Len(q) + 1
      /\ \A j \in 1 .. Len(q) : r[j] = q[j]
      /\ r[Len(q) + 1] = x
  BY LenProperties, AppendProperties
<1> HIDE DEF r
<1>2. \A j \in DOMAIN r : j \in DOMAIN q \/ j = Len(q) + 1
  BY <1>1
<1>3. Len(q) + 1 \in DOMAIN r /\ \A j \in DOMAIN q : j \in DOMAIN r
  BY <1>1
<1>4. \A v : In(v, r) <=> In(v, q) \/ v = x
  BY <1>1, <1>2, <1>3 DEF In
<1>5. Distinct(q) /\ ~In(x, q) => Distinct(r)
  BY <1>1, <1>2, <1>3 DEF In, Distinct
<1> QED
  BY <1>4, <1>5 DEF r

\* The credit link takes the oldest credit.
LEMMA TakenFrom ==
  ASSUME NEW S, NEW q \in Seq(S), q # <<>>, Distinct(q)
  PROVE  /\ Distinct(Tail(q)) /\ In(Head(q), q)
         /\ \A v : In(v, Tail(q)) <=> In(v, q) /\ v # Head(q)
<1> DEFINE r == Tail(q)
           h == Head(q)
<1>1. /\ Len(q) \in Nat \ {0} /\ DOMAIN q = 1 .. Len(q) /\ DOMAIN r = 1 .. Len(q) - 1
      /\ \A j \in 1 .. Len(q) - 1 : r[j] = q[j + 1]
      /\ h = q[1]
  BY LenProperties, EmptySeq, HeadTailProperties
<1> HIDE DEF r, h
<1>2. Distinct(r)
  BY <1>1 DEF Distinct
<1>3. 1 \in DOMAIN q
  BY <1>1
<1>4. ASSUME NEW v, In(v, r) PROVE In(v, q) /\ v # h
  BY <1>1, <1>4 DEF In, Distinct
<1>5. ASSUME NEW v, In(v, q), v # h PROVE In(v, r)
  <2>1. PICK j \in 1 .. Len(q) : q[j] = v /\ j # 1
    BY <1>1, <1>5 DEF In
  <2>2. j - 1 \in 1 .. Len(q) - 1 /\ r[j - 1] = v
    BY <1>1, <2>1
  <2> QED
    BY <1>1, <2>2 DEF In
<1> QED
  BY <1>1, <1>2, <1>3, <1>4, <1>5 DEF r, h, In

-----------------------------------------------------------------------------
(***************************************************************************)
(* Counting stalls: the indices of the flits of a vnet in a queue.         *)
(***************************************************************************)
IndicesOf(n, q) == { i \in DOMAIN q : VnetOf[q[i]] = n }

LEMMA IndicesFinite ==
  ASSUME NEW q \in Seq(Vcs), NEW n
  PROVE  /\ IsFiniteSet(IndicesOf(n, q))
         /\ Cardinality(IndicesOf(n, q)) \in Nat
         /\ Cardinality(IndicesOf(n, q)) = 0 <=> IndicesOf(n, q) = {}
<1>1. Len(q) \in Nat /\ DOMAIN q = 1 .. Len(q)
  BY LenProperties
<1>2. IsFiniteSet(1 .. Len(q))
  BY <1>1, FS_Interval
<1>3. IndicesOf(n, q) \in SUBSET (1 .. Len(q))
  BY <1>1 DEF IndicesOf
<1>4. IsFiniteSet(IndicesOf(n, q))
  BY <1>2, <1>3, FS_Subset
<1> QED
  BY <1>4, FS_CardinalityType, FS_EmptySet

\* Stalling a flit adds one to the count of its vnet.
LEMMA IndicesAppended ==
  ASSUME NEW q \in Seq(Vcs), NEW x \in Vcs, NEW n
  PROVE  Cardinality(IndicesOf(n, Append(q, x)))
           = Cardinality(IndicesOf(n, q)) + (IF VnetOf[x] = n THEN 1 ELSE 0)
<1> DEFINE r == Append(q, x)
<1>1. /\ Len(q) \in Nat /\ DOMAIN q = 1 .. Len(q) /\ DOMAIN r = 1 .. Len(q) + 1
      /\ \A j \in 1 .. Len(q) : r[j] = q[j]
      /\ r[Len(q) + 1] = x
  BY LenProperties, AppendProperties
<1> HIDE DEF r
<1>2. CASE VnetOf[x] = n
  <2>1. IndicesOf(n, r) = IndicesOf(n, q) \cup {Len(q) + 1} /\ Len(q) + 1 \notin IndicesOf(n, q)
    BY <1>1, <1>2 DEF IndicesOf
  <2>2. IsFiniteSet(IndicesOf(n, q))
    BY IndicesFinite
  <2>3. Cardinality(IndicesOf(n, r)) = Cardinality(IndicesOf(n, q)) + 1
    BY <2>1, <2>2, FS_AddElement
  <2> QED
    BY <1>2, <2>3 DEF r
<1>3. CASE VnetOf[x] # n
  <2>1. IndicesOf(n, r) = IndicesOf(n, q)
    BY <1>1, <1>3 DEF IndicesOf
  <2> QED
    BY <1>3, <2>1, IndicesFinite DEF r
<1> QED
  BY <1>2, <1>3

\* Unstalling one takes one off: the flits behind it move up by one place.
LEMMA IndicesRemoved ==
  ASSUME NEW q \in Seq(Vcs), NEW i \in DOMAIN q, NEW n
  PROVE  Cardinality(IndicesOf(n, RemoveNth(q, i)))
           = Cardinality(IndicesOf(n, q)) - (IF VnetOf[q[i]] = n THEN 1 ELSE 0)
<1> DEFINE r == RemoveNth(q, i)
           A == IndicesOf(n, r)
           B == IndicesOf(n, q) \ {i}
           f == [j \in A |-> IF j < i THEN j ELSE j + 1]
<1>1. /\ i \in 1 .. Len(q) /\ Len(q) \in Nat /\ DOMAIN q = 1 .. Len(q)
      /\ DOMAIN r = 1 .. Len(q) - 1
      /\ \A j \in 1 .. Len(q) - 1 : r[j] = IF j < i THEN q[j] ELSE q[j + 1]
      /\ r \in Seq(Vcs)
  BY LenProperties, RemoveNthProperties
<1> HIDE DEF r
<1>2. A \subseteq 1 .. Len(q) - 1 /\ B \subseteq 1 .. Len(q)
  BY <1>1 DEF IndicesOf
<1>3. \A j \in A : f[j] \in B
  BY <1>1 DEF IndicesOf
<1>4. \A j, k \in A : f[j] = f[k] => j = k
  BY <1>2, <1>1
<1>5. ASSUME NEW k \in B PROVE \E j \in A : f[j] = k
  <2>1. k \in 1 .. Len(q) /\ k # i /\ VnetOf[q[k]] = n
    BY <1>2 DEF IndicesOf
  <2>2. CASE k < i
    <3>1. k \in A
      BY <1>1, <2>1, <2>2 DEF IndicesOf
    <3> QED
      BY <2>2, <3>1
  <2>3. CASE k > i
    <3>1. k - 1 \in 1 .. Len(q) - 1 /\ ~(k - 1 < i) /\ k - 1 + 1 = k
      BY <1>1, <2>1, <2>3
    <3>2. k - 1 \in A
      BY <1>1, <2>1, <3>1 DEF IndicesOf
    <3> QED
      BY <3>1, <3>2
  <2>4. k < i \/ k > i
    BY <1>1, <2>1
  <2> QED
    BY <2>2, <2>3, <2>4, Zenon
<1> HIDE DEF A, B
<1>6. f \in Bijection(A, B)
  <2>1. f \in [A -> B]
    BY <1>3
  <2> HIDE DEF f
  <2>2. f \in Injection(A, B)
    BY <1>4, <2>1 DEF Injection, IsInjective
  <2>3. f \in Surjection(A, B)
    BY <1>5, <2>1 DEF Surjection
  <2> QED
    BY <2>2, <2>3 DEF Bijection
<1>7. IsFiniteSet(A)
  BY <1>1, IndicesFinite DEF A
<1>8. Cardinality(B) = Cardinality(A)
  BY <1>6, <1>7, FS_Bijection DEF ExistsBijection
<1>9. Cardinality(B) = IF i \in IndicesOf(n, q) THEN Cardinality(IndicesOf(n, q)) - 1
                                                ELSE Cardinality(IndicesOf(n, q))
  BY IndicesFinite, FS_RemoveElement DEF B
<1>10. i \in IndicesOf(n, q) <=> VnetOf[q[i]] = n
  BY DEF IndicesOf
<1> QED
  BY <1>8, <1>9, <1>10, IndicesFinite DEF A, r

-----------------------------------------------------------------------------
\* The counters and callbacks of a queue are right.
Counted(queue, count, registered) ==
  /\ queue \in Seq(Vcs) /\ count \in [Vnets -> Nat] /\ registered \in [Vnets -> BOOLEAN]
  /\ \A n \in Vnets : /\ count[n] = Cardinality(IndicesOf(n, queue))
                      /\ registered[n] <=> IndicesOf(n, queue) # {}

LEMMA CountedIsStallsCounted ==
  ASSUME stall \in Seq(Vcs), stallCount \in [Vnets -> Nat], callback \in [Vnets -> BOOLEAN]
  PROVE  StallsCounted <=> Counted(stall, stallCount, callback)
<1>1. \A n : StallsOf(n) = IndicesOf(n, stall)
  BY DEF StallsOf, IndicesOf
<1>2. StallsCounted <=>
        \A n \in Vnets : /\ stallCount[n] = Cardinality(IndicesOf(n, stall))
                         /\ callback[n] <=> IndicesOf(n, stall) # {}
  BY <1>1, SMT DEF StallsCounted
<1> QED
  BY <1>2 DEF Counted

\* The three parts of it, for the provers.
LEMMA CountedParts ==
  ASSUME NEW queue, NEW count, NEW registered
  PROVE  Counted(queue, count, registered) <=>
           /\ queue \in Seq(Vcs)
           /\ count \in [Vnets -> Nat]
           /\ registered \in [Vnets -> BOOLEAN]
           /\ \A n \in Vnets : count[n] = Cardinality(IndicesOf(n, queue))
           /\ \A n \in Vnets : registered[n] = (IndicesOf(n, queue) # {})
<1>1. ASSUME registered \in [Vnets -> BOOLEAN], NEW n \in Vnets
      PROVE  registered[n] \in BOOLEAN
  BY <1>1
<1>2. ASSUME registered \in [Vnets -> BOOLEAN], NEW n \in Vnets
      PROVE  (registered[n] <=> IndicesOf(n, queue) # {})
               <=> registered[n] = (IndicesOf(n, queue) # {})
  BY <1>1, <1>2, Zenon
<1>3. CASE Counted(queue, count, registered)
  <2>1. ASSUME NEW n \in Vnets PROVE registered[n] = (IndicesOf(n, queue) # {})
    BY <1>2, <1>3 DEF Counted
  <2> QED
    BY <1>3, <2>1 DEF Counted
<1>4. CASE /\ queue \in Seq(Vcs)
           /\ count \in [Vnets -> Nat]
           /\ registered \in [Vnets -> BOOLEAN]
           /\ \A n \in Vnets : count[n] = Cardinality(IndicesOf(n, queue))
           /\ \A n \in Vnets : registered[n] = (IndicesOf(n, queue) # {})
  BY <1>2, <1>4, Zenon DEF Counted
<1> QED
  BY <1>3, <1>4, Zenon

\* Stalling the flit that arrived keeps them right.
LEMMA StallArrivalCounts ==
  ASSUME NEW queue, NEW count, NEW registered, Counted(queue, count, registered),
         arrived \in Vcs \cup {NoFlit}, StallArrival(queue, count, registered)
  PROVE  Counted(stall', stallCount', callback')
<1>1. CASE arrived = NoFlit
  BY <1>1 DEF StallArrival
<1>2. CASE arrived # NoFlit
  <2> DEFINE u == VnetOf[arrived]
  <2>1. arrived \in Vcs /\ u \in Vnets /\ queue \in Seq(Vcs)
    BY <1>2, EjectionAssumption, CountedParts
  <2>2. /\ stall' = Append(queue, arrived)
        /\ stallCount' = [count EXCEPT ![u] = @ + 1]
        /\ callback' = [registered EXCEPT ![u] = TRUE]
    BY <1>2 DEF StallArrival
  <2>3. stall' \in Seq(Vcs)
    BY <2>1, <2>2, AppendProperties
  <2>4. \A n \in Vnets : Cardinality(IndicesOf(n, stall'))
                         = Cardinality(IndicesOf(n, queue)) + (IF u = n THEN 1 ELSE 0)
    BY <2>1, <2>2, IndicesAppended
  <2> HIDE DEF u
  <2>5. stallCount' \in [Vnets -> Nat] /\ callback' \in [Vnets -> BOOLEAN]
    BY <2>1, <2>2, CountedParts
  <2>6. ASSUME NEW n \in Vnets
        PROVE  stallCount'[n] = Cardinality(IndicesOf(n, stall'))
    BY <2>1, <2>2, <2>4, CountedParts
  <2>7. ASSUME NEW n \in Vnets
        PROVE  callback'[n] <=> IndicesOf(n, stall') # {}
    <3>1. IndicesOf(n, stall') # {} <=> stallCount'[n] # 0
      BY <2>3, <2>6, IndicesFinite
    <3>2. IndicesOf(n, queue) # {} <=> count[n] # 0
      BY <2>1, IndicesFinite, CountedParts
    <3>3. CASE n = u
      BY <2>1, <2>2, <3>1, <3>3, CountedParts
    <3>4. CASE n # u
      BY <2>1, <2>2, <3>1, <3>2, <3>4, CountedParts
    <3> QED
      BY <3>3, <3>4
  <2> QED
    BY <2>3, <2>5, <2>6, <2>7, CountedParts
<1> QED
  BY <1>1, <1>2

\* So does taking a stalled flit out of the queue, which drops the callback
\* with the last stalled flit of the vnet.
LEMMA UnstallCounts ==
  ASSUME Counted(stall, stallCount, callback), NEW i \in DOMAIN stall
  PROVE  LET n == VnetOf[stall[i]]
             count == [stallCount EXCEPT ![n] = @ - 1]
         IN  Counted(RemoveNth(stall, i), count, [callback EXCEPT ![n] = @ /\ count[n] # 0])
<1> DEFINE u == VnetOf[stall[i]]
           count == [stallCount EXCEPT ![u] = @ - 1]
           reg == [callback EXCEPT ![u] = @ /\ count[u] # 0]
           r == RemoveNth(stall, i)
<1>1. stall \in Seq(Vcs) /\ r \in Seq(Vcs) /\ stall[i] \in Vcs
  BY RemoveNthProperties, ElementOfSeq, LenProperties, CountedParts
<1>2. u \in Vnets /\ u \in DOMAIN stallCount /\ u \in DOMAIN callback
  BY <1>1, EjectionAssumption, CountedParts
<1>3. \A n \in Vnets : Cardinality(IndicesOf(n, r))
                       = Cardinality(IndicesOf(n, stall)) - (IF u = n THEN 1 ELSE 0)
  BY <1>1, IndicesRemoved
<1>4. \A n \in Vnets : /\ Cardinality(IndicesOf(n, r)) \in Nat
                       /\ Cardinality(IndicesOf(n, r)) = 0 <=> IndicesOf(n, r) = {}
                       /\ Cardinality(IndicesOf(n, stall)) \in Nat
                       /\ Cardinality(IndicesOf(n, stall)) = 0 <=> IndicesOf(n, stall) = {}
  BY <1>1, IndicesFinite
<1> HIDE DEF u, r
<1>5. \A n \in Vnets : count[n] = Cardinality(IndicesOf(n, r))
  BY <1>2, <1>3, <1>4, CountedParts
<1>6. count \in [Vnets -> Nat]
  <2>1. count \in [Vnets -> Int]
    BY <1>2, CountedParts
  <2> HIDE DEF count
  <2> QED
    BY <1>4, <1>5, <2>1
<1>7. reg \in [Vnets -> BOOLEAN]
  BY <1>2, CountedParts
<1>8. ASSUME NEW n \in Vnets
      PROVE  reg[n] <=> IndicesOf(n, r) # {}
  <2>1. CASE n = u
    <3>1. reg[n] <=> callback[n] /\ count[n] # 0
      BY <1>2, <2>1, CountedParts
    <3>2. callback[n] <=> IndicesOf(n, stall) # {}
      BY CountedParts
    <3> HIDE DEF count, reg
    <3>3. count[n] # 0 <=> IndicesOf(n, r) # {}
      BY <1>4, <1>5
    <3>4. IndicesOf(n, r) # {} => IndicesOf(n, stall) # {}
      BY <1>3, <1>4, <2>1
    <3> QED
      BY <3>1, <3>2, <3>3, <3>4
  <2>2. CASE n # u
    <3>1. reg[n] = callback[n]
      BY <1>2, <2>2, CountedParts
    <3>2. callback[n] <=> IndicesOf(n, stall) # {}
      BY CountedParts
    <3> HIDE DEF count, reg
    <3>3. IndicesOf(n, r) # {} <=> IndicesOf(n, stall) # {}
      BY <1>3, <1>4, <2>2
    <3> QED
      BY <3>1, <3>2, <3>3
  <2> QED
    BY <2>1, <2>2
<1> HIDE DEF count, reg
<1>9. Counted(r, count, reg)
  BY <1>1, <1>5, <1>6, <1>7, <1>8, CountedParts
<1> QED
  BY <1>9 DEF u, r, count, reg

-----------------------------------------------------------------------------
\* A slot that areNSlotsAvailable found is there when the message is put in.
LEMMA DeliverFits ==
  ASSUME TypeOK, CapacityHeld, SizeAtStart, NEW v \in Vcs, HasSlot(v),
         buf' = [buf EXCEPT ![VnetOf[v]].fresh = @ + 1]
  PROVE  buf' \in [Vnets -> Buffer] /\ CapacityHeld' /\ SizeAtStart'
<1> DEFINE u == VnetOf[v]
<1>1. u \in Vnets /\ MaxSize \in Nat
  BY EjectionAssumption
<1>2. /\ buf \in [Vnets -> Buffer]
      /\ \A n \in Vnets : /\ buf[n].ready \in Nat /\ buf[n].fresh \in Nat
                          /\ buf[n].start \in Nat /\ buf[n].popped \in BOOLEAN
  BY DEF TypeOK, Buffer
<1> DEFINE b == [ready |-> buf[u].ready, fresh |-> buf[u].fresh + 1,
                 popped |-> buf[u].popped, start |-> buf[u].start]
<1>3. MaxSize = 0 \/ (IF buf[u].popped THEN buf[u].start ELSE buf[u].ready)
                        + buf[u].fresh + 1 <= MaxSize
  BY DEF HasSlot, areNSlotsAvailable, CurrentSize
<1>4. buf' = [buf EXCEPT ![u] = b] /\ b \in Buffer
  <2>1. buf[u] \in Buffer /\ b = [buf[u] EXCEPT !.fresh = @ + 1] /\ b \in Buffer
    BY <1>1, <1>2 DEF Buffer
  <2> HIDE DEF u, b
  <2>2. buf' = [buf EXCEPT ![u].fresh = @ + 1]
    BY DEF u
  <2> QED
    BY <1>1, <1>2, <2>1, <2>2
<1> HIDE DEF u
<1>5. /\ buf' \in [Vnets -> Buffer]
      /\ \A n \in Vnets : /\ buf'[n].ready = buf[n].ready
                          /\ buf'[n].start = buf[n].start
                          /\ buf'[n].popped = buf[n].popped
                          /\ buf'[n].fresh = IF n = u THEN buf[n].fresh + 1 ELSE buf[n].fresh
  <2>1. \A n \in Vnets : buf'[n] = IF n = u THEN b ELSE buf[n]
    BY <1>1, <1>2, <1>4
  <2>2. buf' \in [Vnets -> Buffer]
    BY <1>2, <1>4
  <2>3. /\ b.ready = buf[u].ready /\ b.start = buf[u].start
        /\ b.popped = buf[u].popped /\ b.fresh = buf[u].fresh + 1
    OBVIOUS
  <2> HIDE DEF b
  <2>4. ASSUME NEW n \in Vnets
        PROVE  /\ buf'[n].ready = buf[n].ready
               /\ buf'[n].start = buf[n].start
               /\ buf'[n].popped = buf[n].popped
               /\ buf'[n].fresh = IF n = u THEN buf[n].fresh + 1 ELSE buf[n].fresh
    <3>1. CASE n = u
      BY <2>1, <2>3, <3>1, Zenon
    <3>2. CASE n # u
      <4>1. buf'[n] = buf[n]
        BY <2>1, <3>2
      <4>2. /\ buf'[n].ready = buf[n].ready /\ buf'[n].start = buf[n].start
            /\ buf'[n].popped = buf[n].popped /\ buf'[n].fresh = buf[n].fresh
        BY <4>1, Zenon
      <4> QED
        BY <3>2, <4>2
    <3> QED
      BY <3>1, <3>2
  <2> QED
    BY <2>2, <2>4
<1>6. MaxSize # 0 => buf[u].ready + buf[u].fresh + 1 <= MaxSize
  BY <1>1, <1>2, <1>3 DEF SizeAtStart
<1>7. CapacityHeld'
  BY <1>1, <1>2, <1>5, <1>6 DEF CapacityHeld
<1>8. SizeAtStart'
  BY <1>5 DEF SizeAtStart
<1> QED
  BY <1>5, <1>7, <1>8

\* A controller that takes a message leaves fewer of them.
LEMMA DequeueFits ==
  ASSUME TypeOK, CapacityHeld, SizeAtStart, NEW m \in Vnets, Dequeue(m)
  PROVE  buf' \in [Vnets -> Buffer] /\ CapacityHeld' /\ SizeAtStart'
<1>1. /\ buf \in [Vnets -> Buffer] /\ MaxSize \in Nat
      /\ \A n \in Vnets : /\ buf[n].ready \in Nat /\ buf[n].fresh \in Nat
                          /\ buf[n].start \in Nat /\ buf[n].popped \in BOOLEAN
  BY EjectionAssumption DEF TypeOK, Buffer
<1> DEFINE b == [ready  |-> buf[m].ready - 1,
                 fresh  |-> buf[m].fresh,
                 popped |-> TRUE,
                 start  |-> IF buf[m].popped THEN buf[m].start ELSE buf[m].ready + buf[m].fresh]
<1>2. buf' = [buf EXCEPT ![m] = b] /\ buf[m].ready > 0
  BY <1>1 DEF Dequeue
<1>3. b \in Buffer
  BY <1>1, <1>2 DEF Buffer
<1>4. b.ready <= b.start /\ b.ready + b.fresh <= buf[m].ready + buf[m].fresh
  BY <1>1, <1>2 DEF SizeAtStart
<1>5. b.ready \in Nat /\ b.fresh \in Nat
  BY <1>1, <1>2
<1> HIDE DEF b
<1>6. \A n \in Vnets : buf'[n] = IF n = m THEN b ELSE buf[n]
  BY <1>1, <1>2
<1>7. buf' \in [Vnets -> Buffer]
  BY <1>1, <1>2, <1>3
<1>8. CapacityHeld'
  BY <1>1, <1>4, <1>5, <1>6 DEF CapacityHeld
<1>9. SizeAtStart'
  BY <1>1, <1>4, <1>6 DEF SizeAtStart
<1> QED
  BY <1>7, <1>8, <1>9

\* A new cycle makes what was enqueued in the last one ready.
LEMMA TickFits ==
  ASSUME TypeOK, CapacityHeld, NEW v, NEW woken, Tick(v, woken)
  PROVE  buf' \in [Vnets -> Buffer] /\ CapacityHeld' /\ SizeAtStart'
<1>1. \A n \in Vnets : buf[n].ready \in Nat /\ buf[n].fresh \in Nat
  BY DEF TypeOK, Buffer
<1>2. buf' = [n \in Vnets |-> [ready  |-> buf[n].ready + buf[n].fresh,
                               fresh  |-> 0, popped |-> FALSE, start |-> 0]]
  BY DEF Tick
<1>3. buf' \in [Vnets -> Buffer]
  BY <1>1, <1>2 DEF Buffer
<1>4. \A n \in Vnets : /\ buf'[n].ready = buf[n].ready + buf[n].fresh
                       /\ buf'[n].fresh = 0 /\ ~buf'[n].popped
  BY <1>2
<1>5. CapacityHeld'
  BY <1>1, <1>4 DEF CapacityHeld
<1>6. SizeAtStart'
  BY <1>4 DEF SizeAtStart
<1> QED
  BY <1>3, <1>5, <1>6

-----------------------------------------------------------------------------
\* The interface, its link and the controllers start with nothing to do.
LEMMA InitEjection == Init => EjectionInv
<1> SUFFICES ASSUME Init PROVE EjectionInv
  OBVIOUS
<1> USE EjectionAssumption
<1>1. TypeOK
  <2>1. buf \in [Vnets -> Buffer]
    BY DEF Init, Buffer
  <2>2. stall \in Seq(Vcs) /\ credits \in Seq(Vcs)
    BY EmptySeq DEF Init
  <2> QED
    BY <2>1, <2>2 DEF Init, TypeOK
<1>2. \A n \in Vnets : buf[n] = [ready |-> 0, fresh |-> 0, popped |-> FALSE, start |-> 0]
  BY DEF Init
<1>3. CapacityHeld /\ SizeAtStart
  BY <1>2 DEF CapacityHeld, SizeAtStart
<1>4. DOMAIN stall = {} /\ DOMAIN credits = {}
  BY DEF Init
<1>5. StallsCounted
  <2>1. \A n \in Vnets : StallsOf(n) = {} /\ stallCount[n] = 0 /\ callback[n] = FALSE
    BY <1>4 DEF StallsOf, Init
  <2> QED
    BY <2>1, FS_EmptySet DEF StallsCounted
<1>6. OnePlace
  BY <1>4 DEF OnePlace, Distinct, In, Init
<1>7. AwakeForFlit
  BY DEF AwakeForFlit, Init
<1> QED
  BY <1>1, <1>3, <1>5, <1>6, <1>7 DEF EjectionInv

\* A stalled flit goes to its buffer, one that arrives takes a place at the
\* end of the stall queue.
LEMMA UnstallEjection ==
  ASSUME EjectionInv, NEW i \in DOMAIN stall, UnstallFlit(i), arrived' = NoFlit, ovc' = ovc
  PROVE  /\ buf' \in [Vnets -> Buffer] /\ CapacityHeld' /\ SizeAtStart'
         /\ Counted(stall', stallCount', callback')
         /\ credits' \in Seq(Vcs) /\ linkWake' \subseteq {0, 1}
         /\ OnePlace'
<1> DEFINE x == stall[i]
           r == RemoveNth(stall, i)
<1>1. TypeOK /\ OnePlace /\ stall \in Seq(Vcs) /\ credits \in Seq(Vcs)
  BY DEF EjectionInv, TypeOK
<1>2. x \in Vcs /\ r \in Seq(Vcs)
  BY <1>1, ElementOfSeq, LenProperties, RemoveNthProperties
<1>3. HasSlot(x) /\ Deliver(x)
  BY DEF UnstallFlit, FirstFitting
<1>4. buf' \in [Vnets -> Buffer] /\ CapacityHeld' /\ SizeAtStart'
  BY <1>1, <1>2, <1>3, DeliverFits DEF Deliver, EjectionInv
<1>5. Counted(stall, stallCount, callback)
  BY CountedIsStallsCounted DEF EjectionInv, TypeOK
<1>6. Counted(stall', stallCount', callback')
  BY <1>1, <1>5, UnstallCounts, StallArrivalCounts DEF UnstallFlit, TypeOK
<1>7. credits' = Append(credits, x) /\ linkWake' \subseteq {0, 1}
  BY <1>1, <1>3 DEF Deliver, TypeOK
<1>8. credits' \in Seq(Vcs)
  BY <1>1, <1>2, <1>7, AppendProperties
<1>9. IF arrived = NoFlit THEN stall' = r ELSE stall' = Append(r, arrived)
  BY DEF UnstallFlit, StallArrival
<1>10. arrived \in Vcs \cup {NoFlit}
  BY <1>1 DEF TypeOK
<1> HIDE DEF x, r
<1>11. /\ Distinct(r)
       /\ \A v : In(v, r) <=> In(v, stall) /\ v # x
  BY <1>1, RemovedFrom DEF OnePlace, x, r
<1>12. In(x, stall) /\ x # arrived /\ ~In(x, credits)
  BY <1>1, <1>2 DEF OnePlace, In, x
<1>13. /\ Distinct(credits')
       /\ \A v : In(v, credits') <=> In(v, credits) \/ v = x
  BY <1>1, <1>2, <1>7, <1>12, AppendedTo DEF OnePlace
<1>14. /\ Distinct(stall')
       /\ \A v \in Vcs : In(v, stall') <=> (In(v, stall) /\ v # x) \/ v = arrived
  <2>1. CASE arrived = NoFlit
    BY <1>9, <1>11, <2>1, EjectionAssumption
  <2>2. CASE arrived # NoFlit
    <3>1. arrived \in Vcs /\ stall' = Append(r, arrived) /\ ~In(arrived, r)
      BY <1>1, <1>9, <1>10, <1>11, <2>2 DEF OnePlace
    <3> QED
      BY <1>2, <1>11, <3>1, AppendedTo
  <2> QED
    BY <2>1, <2>2
<1>15. stall' \in Seq(Vcs)
  BY <1>6 DEF Counted
<1>16. ~In(NoFlit, stall') /\ ~In(NoFlit, credits')
  BY <1>8, <1>15, ElementOfSeq, LenProperties, EjectionAssumption DEF In
<1>17. OnePlace'
  <2>1. \A v \in Vcs : ~(In(v, stall') /\ In(v, credits'))
    BY <1>1, <1>12, <1>13, <1>14 DEF OnePlace
  <2>2. \A v \in Vcs : ovc[v] = "ACTIVE" <=> v = NoFlit \/ In(v, stall') \/ In(v, credits')
    BY <1>1, <1>12, <1>13, <1>14, EjectionAssumption DEF OnePlace
  <2> QED
    BY <1>13, <1>14, <1>16, <2>1, <2>2 DEF OnePlace, Distinct, In
<1> QED
  BY <1>4, <1>6, <1>7, <1>8, <1>17

\* A flit that finds a slot goes to its buffer at once.
LEMMA EjectFlitEjection ==
  ASSUME EjectionInv, EjectFlit, arrived' = NoFlit, ovc' = ovc
  PROVE  /\ buf' \in [Vnets -> Buffer] /\ CapacityHeld' /\ SizeAtStart'
         /\ Counted(stall', stallCount', callback')
         /\ credits' \in Seq(Vcs) /\ linkWake' \subseteq {0, 1}
         /\ OnePlace'
<1>1. TypeOK /\ OnePlace /\ stall \in Seq(Vcs) /\ credits \in Seq(Vcs)
  BY DEF EjectionInv, TypeOK
<1>2. arrived \in Vcs /\ HasSlot(arrived) /\ Deliver(arrived)
  BY <1>1 DEF EjectFlit, TypeOK
<1>3. buf' \in [Vnets -> Buffer] /\ CapacityHeld' /\ SizeAtStart'
  BY <1>1, <1>2, DeliverFits DEF Deliver, EjectionInv
<1>4. stall' = stall /\ stallCount' = stallCount /\ callback' = callback
  BY DEF EjectFlit
<1>5. Counted(stall', stallCount', callback')
  BY <1>4, CountedIsStallsCounted DEF EjectionInv, TypeOK
<1>6. credits' = Append(credits, arrived) /\ linkWake' \subseteq {0, 1}
  BY <1>1, <1>2 DEF Deliver, TypeOK
<1>7. credits' \in Seq(Vcs)
  BY <1>1, <1>2, <1>6, AppendProperties
<1>8. /\ Distinct(credits')
      /\ \A v : In(v, credits') <=> In(v, credits) \/ v = arrived
  BY <1>1, <1>2, <1>6, AppendedTo DEF OnePlace
<1>9. ~In(NoFlit, stall) /\ ~In(NoFlit, credits')
  BY <1>1, <1>7, ElementOfSeq, LenProperties, EjectionAssumption DEF In
<1>10. OnePlace'
  <2>1. \A v \in Vcs : ~(In(v, stall) /\ In(v, credits'))
    BY <1>1, <1>8 DEF OnePlace
  <2>2. \A v \in Vcs : ovc[v] = "ACTIVE" <=> v = NoFlit \/ In(v, stall) \/ In(v, credits')
    BY <1>1, <1>2, <1>8, EjectionAssumption DEF OnePlace
  <2> QED
    BY <1>1, <1>4, <1>8, <1>9, <2>1, <2>2 DEF OnePlace, Distinct, In
<1> QED
  BY <1>3, <1>5, <1>6, <1>7, <1>10

\* A flit that finds none joins the stall queue.
LEMMA EjectNothingEjection ==
  ASSUME EjectionInv, EjectNothing, arrived' = NoFlit, ovc' = ovc
  PROVE  /\ buf' \in [Vnets -> Buffer] /\ CapacityHeld' /\ SizeAtStart'
         /\ Counted(stall', stallCount', callback')
         /\ credits' \in Seq(Vcs) /\ linkWake' \subseteq {0, 1}
         /\ OnePlace'
<1>1. TypeOK /\ OnePlace /\ stall \in Seq(Vcs) /\ credits \in Seq(Vcs)
  BY DEF EjectionInv, TypeOK
<1>2. arrived \in Vcs \cup {NoFlit} /\ buf' = buf /\ credits' = credits
  BY <1>1 DEF EjectNothing, TypeOK
<1>3. buf' \in [Vnets -> Buffer] /\ CapacityHeld' /\ SizeAtStart'
  BY <1>1, <1>2 DEF EjectionInv, TypeOK, CapacityHeld, SizeAtStart
<1>4. Counted(stall', stallCount', callback')
  BY <1>2, CountedIsStallsCounted, StallArrivalCounts DEF EjectionInv, TypeOK, EjectNothing
<1>5. linkWake' \subseteq {0, 1}
  BY <1>1 DEF EjectNothing, TypeOK
<1>6. /\ Distinct(stall')
      /\ \A v \in Vcs : In(v, stall') <=> In(v, stall) \/ v = arrived
  <2>1. CASE arrived = NoFlit
    BY <1>1, <2>1, EjectionAssumption DEF EjectNothing, StallArrival, OnePlace
  <2>2. CASE arrived # NoFlit
    <3>1. arrived \in Vcs /\ stall' = Append(stall, arrived) /\ ~In(arrived, stall)
      BY <1>1, <1>2, <2>2 DEF EjectNothing, StallArrival, OnePlace
    <3> QED
      BY <1>1, <3>1, AppendedTo DEF OnePlace
  <2> QED
    BY <2>1, <2>2
<1>7. stall' \in Seq(Vcs)
  BY <1>4 DEF Counted
<1>8. ~In(NoFlit, stall') /\ ~In(NoFlit, credits)
  BY <1>1, <1>7, ElementOfSeq, LenProperties, EjectionAssumption DEF In
<1>9. OnePlace'
  <2>1. \A v \in Vcs : ~(In(v, stall') /\ In(v, credits))
    BY <1>1, <1>6 DEF OnePlace
  <2>2. \A v \in Vcs : ovc[v] = "ACTIVE" <=> v = NoFlit \/ In(v, stall') \/ In(v, credits)
    BY <1>1, <1>6, EjectionAssumption DEF OnePlace
  <2> QED
    BY <1>1, <1>2, <1>6, <1>8, <2>1, <2>2 DEF OnePlace, Distinct, In
<1> QED
  BY <1>1, <1>2, <1>3, <1>4, <1>5, <1>9

\* The handler, whether or not it asks for another wakeup.
LEMMA WakeupEjection ==
  ASSUME EjectionInv, NEW again, Wakeup(again), busy' = busy
  PROVE  EjectionInv'
<1>1. arrived' = NoFlit /\ ovc' = ovc
  BY DEF Wakeup
<1>2. /\ buf' \in [Vnets -> Buffer] /\ CapacityHeld' /\ SizeAtStart'
      /\ Counted(stall', stallCount', callback')
      /\ credits' \in Seq(Vcs) /\ linkWake' \subseteq {0, 1}
      /\ OnePlace'
  BY <1>1, UnstallEjection, EjectFlitEjection, EjectNothingEjection DEF Wakeup
<1>3. /\ stall' \in Seq(Vcs) /\ stallCount' \in [Vnets -> Nat]
      /\ callback' \in [Vnets -> BOOLEAN]
  BY <1>2 DEF Counted
<1>4. wake' \subseteq {0, 1}
  BY DEF Wakeup, EjectionInv, TypeOK
<1>5. TypeOK'
  <2>1. ovc' \in [Vcs -> {"IDLE", "ACTIVE"}] /\ busy' \in BOOLEAN /\ arrived' \in Vcs \cup {NoFlit}
    BY <1>1 DEF EjectionInv, TypeOK
  <2> QED
    BY <1>2, <1>3, <1>4, <2>1 DEF TypeOK
<1>6. \A n : StallsOf(n)' = IndicesOf(n, stall')
  BY DEF StallsOf, IndicesOf
<1>7. StallsCounted'
  BY <1>2, <1>6 DEF StallsCounted, Counted
<1>8. AwakeForFlit'
  BY <1>1 DEF AwakeForFlit
<1> QED
  BY <1>2, <1>5, <1>7, <1>8 DEF EjectionInv

\* The credit link gives the VC of the oldest credit back to the router.
LEMMA CreditLinkEjection ==
  ASSUME EjectionInv, CreditLinkWakeup, busy' = busy
  PROVE  EjectionInv'
<1>1. /\ arrived' = arrived /\ wake' = wake /\ buf' = buf /\ stall' = stall
      /\ stallCount' = stallCount /\ callback' = callback /\ linkWake' = linkWake \ {0}
  BY DEF CreditLinkWakeup
<1>2. TypeOK /\ OnePlace /\ credits \in Seq(Vcs)
  BY DEF EjectionInv, TypeOK
<1>3. credits' \in Seq(Vcs) /\ ovc' \in [Vcs -> {"IDLE", "ACTIVE"}] /\ OnePlace'
  <2>1. CASE credits = <<>>
    <3>1. credits' = credits /\ ovc' = ovc
      BY <2>1 DEF CreditLinkWakeup
    <3> QED
      BY <1>1, <1>2, <3>1 DEF TypeOK, OnePlace, Distinct, In
  <2>2. CASE credits # <<>>
    <3> DEFINE h == Head(credits)
    <3>1. ovc' = [ovc EXCEPT ![h] = "IDLE"] /\ credits' = Tail(credits)
      BY <2>2 DEF CreditLinkWakeup
    <3>2. credits' \in Seq(Vcs) /\ h \in Vcs
      BY <1>2, <2>2, <3>1, HeadTailProperties
    <3>3. /\ Distinct(credits') /\ In(h, credits)
          /\ \A v : In(v, credits') <=> In(v, credits) /\ v # h
      BY <1>2, <2>2, <3>1, TakenFrom DEF OnePlace
    <3> HIDE DEF h
    <3>4. /\ ovc' \in [Vcs -> {"IDLE", "ACTIVE"}]
          /\ \A v \in Vcs : ovc'[v] = IF v = h THEN "IDLE" ELSE ovc[v]
      BY <1>2, <3>1, <3>2 DEF TypeOK
    <3>5. ~In(h, stall) /\ h # arrived
      BY <1>2, <3>2, <3>3 DEF OnePlace
    <3>6. \A v \in Vcs : ovc'[v] = "ACTIVE" <=> v = arrived \/ In(v, stall) \/ In(v, credits')
      BY <1>2, <3>3, <3>4, <3>5 DEF OnePlace
    <3>7. OnePlace'
      BY <1>1, <1>2, <3>3, <3>6 DEF OnePlace, Distinct, In
    <3> QED
      BY <3>2, <3>4, <3>7
  <2> QED
    BY <2>1, <2>2
<1>4. TypeOK'
  BY <1>1, <1>2, <1>3 DEF TypeOK
<1>5. CapacityHeld' /\ SizeAtStart' /\ StallsCounted' /\ AwakeForFlit'
  BY <1>1
  DEF EjectionInv, CapacityHeld, SizeAtStart, StallsCounted, StallsOf, AwakeForFlit
<1> QED
  BY <1>3, <1>4, <1>5 DEF EjectionInv

\* A controller takes a message.
LEMMA DequeueEjection ==
  ASSUME EjectionInv, NEW m \in Vnets, Dequeue(m), busy' = busy
  PROVE  EjectionInv'
<1>1. /\ ovc' = ovc /\ arrived' = arrived /\ stall' = stall /\ stallCount' = stallCount
      /\ callback' = callback /\ credits' = credits /\ linkWake' = linkWake
      /\ wake' = IF callback[m] THEN wake \cup {1} ELSE wake
  BY DEF Dequeue
<1>2. buf' \in [Vnets -> Buffer] /\ CapacityHeld' /\ SizeAtStart'
  BY DequeueFits DEF EjectionInv
<1>3. TypeOK'
  BY <1>1, <1>2 DEF EjectionInv, TypeOK
<1>4. StallsCounted' /\ OnePlace'
  BY <1>1 DEF EjectionInv, StallsCounted, StallsOf, OnePlace, Distinct, In
<1>5. AwakeForFlit'
  BY <1>1 DEF EjectionInv, AwakeForFlit
<1> QED
  BY <1>2, <1>3, <1>4, <1>5 DEF EjectionInv

\* The next cycle brings a flit of an idle VC: the one of the last is in its
\* buffer or in the stall queue by then.
LEMMA TickEjection ==
  ASSUME EjectionInv, NEW v \in Vcs \cup {NoFlit}, NEW woken, Tick(v, woken), busy' = busy
  PROVE  EjectionInv'
<1>1. /\ stall' = stall /\ stallCount' = stallCount /\ callback' = callback
      /\ credits' = credits /\ arrived' = v
      /\ wake' = (IF 1 \in wake \/ v # NoFlit \/ woken THEN {0} ELSE {})
      /\ linkWake' = (IF 1 \in linkWake THEN {0} ELSE {})
  BY DEF Tick
<1>2. TypeOK /\ OnePlace
  BY DEF EjectionInv
<1>3. arrived = NoFlit
  BY DEF EjectionInv, AwakeForFlit, Tick
<1>4. buf' \in [Vnets -> Buffer] /\ CapacityHeld' /\ SizeAtStart'
  BY TickFits DEF EjectionInv
<1>5. /\ ovc' \in [Vcs -> {"IDLE", "ACTIVE"}]
      /\ \A w \in Vcs : ovc'[w] = IF w = v THEN "ACTIVE" ELSE ovc[w]
  BY <1>2, EjectionAssumption DEF TypeOK, Tick
<1>6. TypeOK'
  BY <1>1, <1>2, <1>4, <1>5 DEF TypeOK
<1>7. ~In(v, stall) /\ ~In(v, credits)
  <2>1. CASE v = NoFlit
    BY <1>2, <1>3, <2>1 DEF OnePlace
  <2>2. CASE v # NoFlit
    BY <1>2, <2>2 DEF OnePlace, Tick
  <2> QED
    BY <2>1, <2>2
<1>8. \A w \in Vcs : ovc'[w] = "ACTIVE" <=> w = v \/ In(w, stall) \/ In(w, credits)
  BY <1>2, <1>3, <1>5, EjectionAssumption DEF OnePlace
<1>9. OnePlace'
  BY <1>1, <1>2, <1>7, <1>8 DEF OnePlace, Distinct, In
<1>10. StallsCounted'
  BY <1>1 DEF EjectionInv, StallsCounted, StallsOf
<1>11. AwakeForFlit'
  BY <1>1 DEF AwakeForFlit
<1> QED
  BY <1>4, <1>6, <1>9, <1>10, <1>11 DEF EjectionInv

\* Another message for the interface only wakes it.
LEMMA OtherMessageEjection ==
  ASSUME EjectionInv, OtherMessage, busy' = busy
  PROVE  EjectionInv'
<1>1. /\ UNCHANGED <<ovc, arrived, buf, stall, stallCount, callback, credits, linkWake, busy>>
      /\ wake' = wake \cup {1}
  BY DEF OtherMessage
<1>2. TypeOK'
  BY <1>1 DEF EjectionInv, TypeOK
<1>3. CapacityHeld' /\ SizeAtStart' /\ AwakeForFlit'
  BY <1>1 DEF EjectionInv, CapacityHeld, SizeAtStart, AwakeForFlit
<1>4. StallsCounted'
  BY <1>1 DEF EjectionInv, StallsCounted, StallsOf
<1>5. OnePlace'
  BY <1>1 DEF EjectionInv, OnePlace, Distinct, In
<1> QED
  BY <1>2, <1>3, <1>4, <1>5 DEF EjectionInv

LEMMA UnchangedEjection ==
  ASSUME EjectionInv, UNCHANGED <<vars, busy>>
  PROVE  EjectionInv'
<1>1. UNCHANGED <<ovc, arrived, wake, buf, stall, stallCount, callback, credits, linkWake, busy>>
  BY DEF vars
<1>2. TypeOK' /\ CapacityHeld' /\ SizeAtStart' /\ AwakeForFlit'
  BY <1>1 DEF EjectionInv, TypeOK, CapacityHeld, SizeAtStart, AwakeForFlit
<1>3. StallsCounted'
  BY <1>1 DEF EjectionInv, StallsCounted, StallsOf
<1>4. OnePlace'
  BY <1>1 DEF EjectionInv, OnePlace, Distinct, In
<1> QED
  BY <1>2, <1>3, <1>4 DEF EjectionInv

LEMMA NextEjection ==
  ASSUME EjectionInv, [Next]_<<vars, busy>>
  PROVE  EjectionInv'
  BY WakeupEjection, CreditLinkEjection, OtherMessageEjection, DequeueEjection,
     TickEjection, UnchangedEjection DEF Next

\* Two queues one after the other.
LEMMA Joined ==
  ASSUME NEW S, NEW q \in Seq(S), NEW r \in Seq(S), Distinct(q), Distinct(r),
         \A v \in S : ~(In(v, q) /\ In(v, r))
  PROVE  /\ q \o r \in Seq(S) /\ Distinct(q \o r)
         /\ \A v : In(v, q \o r) <=> In(v, q) \/ In(v, r)
<1> DEFINE c == q \o r
           m == Len(q)
           n == Len(r)
<1>1. m \in Nat /\ n \in Nat /\ DOMAIN q = 1 .. m /\ DOMAIN r = 1 .. n
  BY LenProperties
<1>2. /\ c \in Seq(S) /\ Len(c) = m + n
      /\ \A i \in 1 .. m + n : c[i] = IF i <= m THEN q[i] ELSE r[i - m]
  BY ConcatProperties
<1>3. DOMAIN c = 1 .. m + n
  BY <1>2, LenProperties
<1>4. (\A i \in DOMAIN q : q[i] \in S) /\ (\A i \in DOMAIN r : r[i] \in S)
  BY <1>1, ElementOfSeq
<1> HIDE DEF c, m, n
<1>5. \A i \in DOMAIN c : \/ i \in DOMAIN q /\ c[i] = q[i]
                          \/ i - m \in DOMAIN r /\ c[i] = r[i - m]
  BY <1>1, <1>2, <1>3
<1>6. \A i \in DOMAIN q : i \in DOMAIN c /\ c[i] = q[i]
  BY <1>1, <1>2, <1>3
<1>7. \A i \in DOMAIN r : i + m \in DOMAIN c /\ c[i + m] = r[i]
  BY <1>1, <1>2, <1>3
<1>8. ASSUME NEW v PROVE In(v, c) <=> In(v, q) \/ In(v, r)
  <2>1. CASE In(v, c)
    BY <1>5, <2>1 DEF In
  <2>2. CASE In(v, q)
    BY <1>6, <2>2 DEF In
  <2>3. CASE In(v, r)
    BY <1>7, <2>3 DEF In
  <2> QED
    BY <2>1, <2>2, <2>3
<1>9. ASSUME NEW i \in DOMAIN c, NEW j \in DOMAIN c, c[i] = c[j]
      PROVE  i = j
  <2>1. i \in Int /\ j \in Int
    BY <1>1, <1>3
  <2>2. \A k \in DOMAIN q, l \in DOMAIN r : q[k] # r[l]
    BY <1>4 DEF In
  <2>3. CASE i \in DOMAIN q /\ c[i] = q[i]
    BY <1>5, <1>9, <2>2, <2>3 DEF Distinct
  <2>4. CASE i - m \in DOMAIN r /\ c[i] = r[i - m]
    <3>1. j - m \in DOMAIN r /\ c[j] = r[j - m]
      BY <1>5, <1>9, <2>2, <2>4
    <3>2. i - m = j - m
      BY <1>9, <2>4, <3>1 DEF Distinct
    <3> QED
      BY <1>1, <2>1, <3>2
  <2> QED
    BY <1>5, <2>3, <2>4
<1> QED
  BY <1>2, <1>8, <1>9 DEF c, Distinct

\* A flit that is in one place is counted once in Held.
LEMMA OnePlaceIsOnce ==
  ASSUME TypeOK, OnePlace
  PROVE  CreditOnce
<1> DEFINE a == IF arrived = NoFlit THEN <<>> ELSE <<arrived>>
           b == a \o stall
           c == b \o credits
<1>1. stall \in Seq(Vcs) /\ credits \in Seq(Vcs) /\ arrived \in Vcs \cup {NoFlit}
  BY DEF TypeOK
<1>2. a \in Seq(Vcs) /\ Distinct(a) /\ \A v \in Vcs : In(v, a) <=> v = arrived
  <2>1. CASE arrived = NoFlit
    BY <2>1, EjectionAssumption, EmptySeq DEF Distinct, In
  <2>2. CASE arrived # NoFlit
    <3>1. a = <<arrived>> /\ arrived \in Vcs
      BY <1>1, <2>2
    <3>2. a \in Seq(Vcs) /\ DOMAIN a = {1} /\ a[1] = arrived
      BY <3>1
    <3> HIDE DEF a
    <3> QED
      BY <3>2 DEF Distinct, In
  <2> QED
    BY <2>1, <2>2
<1> HIDE DEF a
<1>3. /\ b \in Seq(Vcs) /\ Distinct(b)
      /\ \A v : In(v, b) <=> In(v, a) \/ In(v, stall)
  <2>1. \A v \in Vcs : ~(In(v, a) /\ In(v, stall))
    BY <1>2 DEF OnePlace
  <2> QED
    BY <1>1, <1>2, <2>1, Joined DEF OnePlace
<1> HIDE DEF b
<1>4. /\ c \in Seq(Vcs) /\ Distinct(c)
      /\ \A v : In(v, c) <=> In(v, b) \/ In(v, credits)
  <2>1. \A v \in Vcs : ~(In(v, b) /\ In(v, credits))
    BY <1>2, <1>3 DEF OnePlace
  <2> QED
    BY <1>1, <1>3, <2>1, Joined DEF OnePlace
<1>5. Held = c
  BY DEF Held, a, b
<1> HIDE DEF c
<1>6. \A v \in Vcs : In(v, c) <=> ovc[v] = "ACTIVE"
  BY <1>2, <1>3, <1>4 DEF OnePlace
<1>7. ASSUME NEW v \in Vcs
      PROVE  Cardinality({ i \in DOMAIN c : c[i] = v }) = IF ovc[v] = "ACTIVE" THEN 1 ELSE 0
  <2>1. CASE ovc[v] = "ACTIVE"
    <3>1. PICK i \in DOMAIN c : c[i] = v
      BY <1>6, <2>1 DEF In
    <3>2. { k \in DOMAIN c : c[k] = v } = {i}
      BY <1>4, <3>1 DEF Distinct
    <3> QED
      BY <2>1, <3>2, FS_Singleton
  <2>2. CASE ovc[v] # "ACTIVE"
    <3>1. { k \in DOMAIN c : c[k] = v } = {}
      BY <1>6, <2>2 DEF In
    <3> QED
      BY <2>2, <3>1, FS_EmptySet
  <2> QED
    BY <2>1, <2>2
<1> QED
  BY <1>5, <1>7 DEF CreditOnce

-----------------------------------------------------------------------------
\* What the three kinds of wakeup do to the order of the waiting flits.
StaysAhead == \A v, w \in Vcs :
  VnetOf[v] = VnetOf[w] /\ Ahead(v, w) /\ Waits(v)' => Ahead(v, w)'

\* A flit is unstalled past no earlier flit of its vnet: had that found no slot,
\* neither would the later one.  The others keep their order.
LEMMA UnstallInOrder ==
  ASSUME EjectionInv, arrived' = NoFlit, NEW k \in DOMAIN stall, UnstallFlit(k)
  PROVE  StaysAhead
<1> DEFINE r == RemoveNth(stall, k)
<1>1. /\ stall \in Seq(Vcs) /\ Distinct(stall) /\ ~In(arrived, stall) /\ NoFlit \notin Vcs
      /\ arrived \in Vcs \union {NoFlit}
  BY EjectionAssumption DEF EjectionInv, TypeOK, OnePlace
<1>2. /\ k \in 1 .. Len(stall) /\ Len(stall) \in Nat /\ DOMAIN stall = 1 .. Len(stall)
      /\ r \in Seq(Vcs) /\ Len(r) = Len(stall) - 1 /\ DOMAIN r = 1 .. Len(stall) - 1
      /\ \A j \in 1 .. Len(stall) - 1 : r[j] = IF j < k THEN stall[j] ELSE stall[j + 1]
      /\ \A x : In(x, r) <=> In(x, stall) /\ x # stall[k]
  BY <1>1, LenProperties, RemoveNthProperties, RemovedFrom
<1>3. /\ HasSlot(stall[k]) /\ \A j \in 1 .. k - 1 : ~HasSlot(stall[j])
      /\ stall' = IF arrived = NoFlit THEN r ELSE Append(r, arrived)
  BY DEF UnstallFlit, FirstFitting, StallArrival
<1> HIDE DEF r
<1>4. /\ DOMAIN r \subseteq DOMAIN stall'
      /\ \A j \in DOMAIN r : stall'[j] = r[j]
      /\ arrived # NoFlit => /\ Len(stall) \in DOMAIN stall'
                             /\ stall'[Len(stall)] = arrived
  <2>1. CASE arrived = NoFlit
    BY <1>3, <2>1
  <2>2. CASE arrived # NoFlit
    <3>1. arrived \in Vcs
      BY <1>1, <2>2
    <3> DEFINE q == Append(r, arrived)
    <3>2. stall' = q
      BY <1>3, <2>2
    <3>3. /\ q \in Seq(Vcs) /\ Len(q) = Len(r) + 1
          /\ \A j \in 1 .. Len(r) : q[j] = r[j]
          /\ q[Len(r) + 1] = arrived
      <4>1. r \in Seq(Vcs)
        BY <1>2
      <4> QED
        BY ONLY <3>1, <4>1, AppendProperties
    <3> HIDE DEF q
    <3>4. Len(r) + 1 = Len(stall)
      BY <1>2
    <3>5. DOMAIN q = 1 .. Len(q)
      BY <3>3, LenProperties
    <3>6. /\ DOMAIN q = 1 .. Len(stall)
          /\ \A j \in 1 .. Len(r) : q[j] = r[j]
          /\ q[Len(stall)] = arrived
      BY <3>3, <3>4, <3>5
    <3>7. /\ DOMAIN r \subseteq DOMAIN q
          /\ \A j \in DOMAIN r : q[j] = r[j]
          /\ Len(stall) \in DOMAIN q
      BY <1>2, <3>6
    <3> QED
      BY <3>6, <3>2, <3>7, Zenon
  <2> QED
    BY <2>1, <2>2
<1> SUFFICES ASSUME NEW v \in Vcs, NEW w \in Vcs,
                    VnetOf[v] = VnetOf[w], Ahead(v, w), Waits(v)'
             PROVE  Ahead(v, w)'
  BY DEF StaysAhead
<1>5. PICK i \in DOMAIN stall :
        stall[i] = v /\ (w = arrived \/ \E j \in DOMAIN stall : i < j /\ stall[j] = w)
  BY DEF Ahead
<1>6. v # arrived /\ In(v, stall)
  BY <1>1, <1>5 DEF In
<1>7. In(v, stall')
  BY <1>1 DEF Waits, In
<1>8. v # stall[k]
  <2>1. CASE arrived = NoFlit
    BY <1>2, <1>3, <1>7, <2>1
  <2>2. CASE arrived # NoFlit
    <3>1. arrived \in Vcs
      BY <1>1, <2>2
    <3>2. In(v, r) \/ v = arrived
      BY <1>2, <1>3, <1>7, <2>2, <3>1, AppendedTo
    <3> QED
      BY <1>2, <1>6, <3>2
  <2> QED
    BY <2>1, <2>2
<1> DEFINE New(j) == IF j < k THEN j ELSE j - 1
<1>9. \A j \in DOMAIN stall : j # k => New(j) \in DOMAIN r /\ r[New(j)] = stall[j]
  BY <1>2
<1>10. New(i) \in DOMAIN stall' /\ stall'[New(i)] = v
  BY <1>4, <1>5, <1>8, <1>9
<1>11. CASE w = arrived
  <2>1. Len(stall) \in DOMAIN stall' /\ stall'[Len(stall)] = w
    BY <1>1, <1>4, <1>11
  <2>2. New(i) < Len(stall)
    BY <1>2, <1>5, <1>8, <1>9
  <2> QED
    BY <1>10, <2>1, <2>2 DEF Ahead
<1>12. CASE \E j \in DOMAIN stall : i < j /\ stall[j] = w
  <2>1. PICK j \in DOMAIN stall : i < j /\ stall[j] = w
    BY <1>12
  <2>2. HasSlot(v) <=> HasSlot(w)
    BY DEF HasSlot
  <2>3. j # k
    <3> SUFFICES ASSUME j = k PROVE FALSE
      OBVIOUS
    <3>1. i \in 1 .. k - 1
      BY <1>2, <2>1
    <3> QED
      BY <1>3, <1>5, <2>1, <2>2, <3>1
  <2>4. New(j) \in DOMAIN stall' /\ stall'[New(j)] = w
    BY <1>4, <1>9, <2>1, <2>3
  <2>5. i # k
    BY <1>5, <1>8
  <2>6. New(i) < New(j)
    BY <1>2, <2>1, <2>3, <2>5
  <2> QED
    BY <1>10, <2>4, <2>6 DEF Ahead
<1> QED
  BY <1>5, <1>11, <1>12

\* A flit that arrives goes to the end of the queue, or past it when the queue
\* holds no flit of its vnet.
LEMMA ArrivalInOrder ==
  ASSUME EjectionInv, arrived' = NoFlit, EjectFlit \/ EjectNothing
  PROVE  StaysAhead
<1>1. /\ stall \in Seq(Vcs) /\ NoFlit \notin Vcs /\ arrived \in Vcs \union {NoFlit}
      /\ Len(stall) \in Nat /\ DOMAIN stall = 1 .. Len(stall)
  BY EjectionAssumption, LenProperties DEF EjectionInv, TypeOK
<1> SUFFICES ASSUME NEW v \in Vcs, NEW w \in Vcs, VnetOf[v] = VnetOf[w], Ahead(v, w)
             PROVE  Ahead(v, w)'
  BY DEF StaysAhead
<1>2. PICK i \in DOMAIN stall :
        stall[i] = v /\ (w = arrived \/ \E j \in DOMAIN stall : i < j /\ stall[j] = w)
  BY DEF Ahead
<1>3. HasSlot(v) <=> HasSlot(w)
  BY DEF HasSlot
<1>4. CASE EjectFlit
  <2>1. stall' = stall /\ HasSlot(arrived) /\ ~HasSlot(v)
    BY <1>2, <1>4 DEF EjectFlit, NothingFits
  <2> QED
    BY <1>2, <1>3, <2>1 DEF Ahead
<1>5. CASE EjectNothing
  <2>1. CASE arrived = NoFlit
    <3>1. stall' = stall
      BY <1>5, <2>1 DEF EjectNothing, StallArrival
    <3> QED
      BY <1>1, <1>2, <2>1, <3>1 DEF Ahead
  <2>2. CASE arrived # NoFlit
    <3>1. stall' = Append(stall, arrived) /\ arrived \in Vcs
      BY <1>1, <1>5, <2>2 DEF EjectNothing, StallArrival
    <3>2. /\ DOMAIN stall' = 1 .. Len(stall) + 1
          /\ \A j \in 1 .. Len(stall) : stall'[j] = stall[j]
          /\ stall'[Len(stall) + 1] = arrived
      BY <1>1, <3>1, AppendProperties
    <3>3. i \in DOMAIN stall' /\ stall'[i] = v /\ i < Len(stall) + 1
      BY <1>1, <1>2, <3>2
    <3>4. CASE w = arrived
      <4>1. Len(stall) + 1 \in DOMAIN stall'
        BY <1>1, <3>2
      <4> QED
        BY <3>2, <3>3, <3>4, <4>1 DEF Ahead
    <3>5. CASE \E j \in DOMAIN stall : i < j /\ stall[j] = w
      <4>1. PICK j \in DOMAIN stall : i < j /\ stall[j] = w
        BY <3>5
      <4>2. j \in DOMAIN stall' /\ stall'[j] = w
        BY <1>1, <3>2, <4>1
      <4> QED
        BY <3>3, <4>1, <4>2 DEF Ahead
    <3> QED
      BY <1>2, <3>4, <3>5
  <2> QED
    BY <2>1, <2>2
<1> QED
  BY <1>4, <1>5

\* The values of the ejection half's variables stay in their ranges, in
\* particular no stall count goes below zero.
THEOREM EjectionTyped == Spec => []TypeOK
<1>1. Init => EjectionInv
  BY InitEjection
<1>2. EjectionInv /\ [Next]_<<vars, busy>> => EjectionInv'
  BY NextEjection
<1>3. EjectionInv => TypeOK
  BY DEF EjectionInv
<1> QED
  BY <1>1, <1>2, <1>3, PTL DEF Spec

\* In every interface the ejection half by itself overfills no protocol buffer,
\* gives back one credit for every flit, and keeps m_stall_count and the
\* dequeue callbacks in step with the stall queue.
THEOREM EjectionSafe == Spec => [](CapacityHeld /\ CreditOnce /\ StallsCounted)
<1>1. Init => EjectionInv
  BY InitEjection
<1>2. EjectionInv /\ [Next]_<<vars, busy>> => EjectionInv'
  BY NextEjection
<1>3. EjectionInv => CapacityHeld /\ CreditOnce /\ StallsCounted
  BY OnePlaceIsOnce DEF EjectionInv
<1> QED
  BY <1>1, <1>2, <1>3, PTL DEF Spec

-----------------------------------------------------------------------------
\* For the ejection half, a step of the whole interface is one of its own.
LEMMA NiNextEjection ==
  ASSUME EjectionInv, [NiNext]_<<nivars, busy, load>>
  PROVE  EjectionInv'
<1>1. CASE NiWakeup /\ UNCHANGED <<busy, load>>
  BY <1>1, WakeupEjection DEF NiWakeup
<1>2. CASE CreditLinkWakeup /\ UNCHANGED <<busy, load>>
  BY <1>2, CreditLinkEjection
<1>3. CASE (\E n \in Vnets : Dequeue(n)) /\ UNCHANGED <<busy, load>>
  BY <1>3, DequeueEjection
<1>4. CASE Enqueue /\ UNCHANGED <<busy, load>>
  BY <1>4, OtherMessageEjection DEF Enqueue, OtherMessage
<1>5. CASE SetLock /\ UNCHANGED <<busy, load>>
  BY <1>5, UnchangedEjection DEF SetLock
<1>6. CASE /\ \E v \in Vcs \union {NoFlit}, c \in InjVcs \union {NoVc}, other \in BOOLEAN :
                NiTick(v, c, other)
           /\ UNCHANGED <<busy, load>>
  BY <1>6, TickEjection DEF NiTick
<1>7. CASE UNCHANGED <<nivars, busy, load>>
  BY <1>7, UnchangedEjection DEF nivars
<1> QED
  BY <1>1, <1>2, <1>3, <1>4, <1>5, <1>6, <1>7 DEF NiNext

\* The whole interface, injecting, draining and ejecting at once, overfills no
\* protocol buffer, loses or repeats no credit, and counts every stall.
THEOREM InterfaceSafe == NiSpec => [](CapacityHeld /\ CreditOnce /\ StallsCounted)
<1>1. NiInit => EjectionInv
  BY InitEjection DEF NiInit
<1>2. EjectionInv /\ [NiNext]_<<nivars, busy, load>> => EjectionInv'
  BY NiNextEjection
<1>3. EjectionInv => CapacityHeld /\ CreditOnce /\ StallsCounted
  BY OnePlaceIsOnce DEF EjectionInv
<1> QED
  BY <1>1, <1>2, <1>3, PTL DEF NiSpec

\* A message is put into its buffer past no earlier one of its vnet, stalled or
\* arriving, whatever else the interface does in that wakeup.
THEOREM InterfaceInOrder == NiSpec => EjectsInOrder
<1>1. NiInit => EjectionInv
  BY InitEjection DEF NiInit
<1>2. EjectionInv /\ [NiNext]_<<nivars, busy, load>> => EjectionInv'
  BY NiNextEjection
<1>3. EjectionInv /\ [NiNext]_<<nivars, busy, load>> => [StaysAhead]_vars
  <2> SUFFICES ASSUME EjectionInv, NiNext
               PROVE  StaysAhead
    BY DEF nivars, vars
  <2>1. CASE NiWakeup
    <3>1. PICK again : Wakeup(again)
      BY <2>1 DEF NiWakeup
    <3>2. arrived' = NoFlit /\ ((\E i \in DOMAIN stall : UnstallFlit(i)) \/ EjectFlit \/ EjectNothing)
      BY <3>1 DEF Wakeup
    <3> QED
      BY <3>2, UnstallInOrder, ArrivalInOrder
  <2>2. CASE CreditLinkWakeup \/ Enqueue \/ SetLock \/ \E n \in Vnets : Dequeue(n)
    <3>1. UNCHANGED <<stall, arrived>>
      BY <2>2 DEF CreditLinkWakeup, Enqueue, SetLock, Dequeue, vars
    <3> QED
      BY <3>1 DEF StaysAhead, Ahead
  <2>3. CASE \E v \in Vcs \union {NoFlit}, c \in InjVcs \union {NoVc}, other \in BOOLEAN :
               NiTick(v, c, other)
    <3>1. arrived = NoFlit /\ stall' = stall
      BY <2>3 DEF NiTick, Tick, EjectionInv, AwakeForFlit
    <3> QED
      BY <3>1, EjectionAssumption DEF StaysAhead, Ahead
  <2> QED
    BY <2>1, <2>2, <2>3 DEF NiNext
<1> QED
  BY <1>1, <1>2, <1>3, PTL DEF NiSpec, EjectsInOrder, StaysAhead

-----------------------------------------------------------------------------
(***************************************************************************)
(* The injection half: every message becomes one flit per destination, no  *)
(* flit is overwritten, and ordered vnets leave in order.                  *)
(***************************************************************************)
\* The values the variables of the injection half range over.
InjectionTypes ==
  /\ load \in Workloads
  /\ lock \in BOOLEAN
  /\ unsent \in 1 .. Len(Messages) + 1
  /\ inNode \in [Vnets -> Seq([id: Ids, dests: SUBSET Dests, ready: BOOLEAN])]
  /\ niVc \in [InjVcs -> [id: Ids \union {0}, dest: Dests \union {0}]]
  /\ outState \in [InjVcs -> {"IDLE", "ACTIVE"}]
  /\ outCred \in [InjVcs -> 0 .. BufDepth]
  /\ older \in [InjVcs -> SUBSET InjVcs]
  /\ vcAlloc \in [Vnets -> 0 .. VcPerVnet - 1]
  /\ vcRound \in InjVcs
  /\ creditIn \in InjVcs \union {NoVc}
  /\ flits \in [Ids \X Dests -> Nat]
  /\ sent \subseteq Ids \X Dests

\* An idle VC holds nothing and has all its credits; an ACTIVE one has lost one
\* when its flit is at the router, and only then a credit can be on its way.
VcsHeld ==
  /\ \A v \in InjVcs :
       /\ outState[v] = "IDLE" => niVc[v] = Empty
       /\ outCred[v] = IF outState[v] = "ACTIVE" /\ niVc[v] = Empty
                       THEN BufDepth - 1 ELSE BufDepth
  /\ creditIn # NoVc => creditIn \in AtRouter

\* A buffer holds messages of its vnet, in the order of their numbers, each
\* with a part of its destinations.
InOrder ==
  \A n \in Vnets : \A i \in 1 .. Len(inNode[n]) :
    /\ inNode[n][i].id < unsent
    /\ Messages[inNode[n][i].id].vnet = n
    /\ inNode[n][i].dests \subseteq Messages[inNode[n][i].id].dests
    /\ \A j \in 1 .. Len(inNode[n]) : i < j => inNode[n][i].id < inNode[n][j].id

\* The flit of message m for d is still to be made.
Pending(m, d) ==
  \/ m >= unsent
  \/ \E i \in 1 .. Len(inNode[Messages[m].vnet]) :
       inNode[Messages[m].vnet][i].id = m /\ d \in inNode[Messages[m].vnet][i].dests

MadeOnce ==
  \A m \in Ids : \A d \in Messages[m].dests :
    flits[<<m, d>>] = IF Pending(m, d) THEN 0 ELSE 1

\* A queued flit is one of a message that was enqueued, in a VC that serves
\* the message's vnet, and no older message of the vnet is still in the buffer.
QueuedFlits ==
  \A v \in Queued(niVc) :
    LET m == niVc[v].id IN
    /\ m \in 1 .. unsent - 1
    /\ niVc[v].dest \in Messages[m].dests
    /\ get_vnet(v) = InjVnet(Messages[m].vnet)
    /\ \A i \in 1 .. Len(inNode[Messages[m].vnet]) : m <= inNode[Messages[m].vnet][i].id

\* A flit that was made is in one VC or has left; one that was not is nowhere.
KeptOnce ==
  \A m \in Ids : \A d \in Messages[m].dests :
    LET f == [id |-> m, dest |-> d] IN
    /\ \A v, w \in InjVcs : niVc[v] = f /\ niVc[w] = f => v = w
    /\ \A v \in InjVcs : niVc[v] = f => <<m, d>> \notin sent
    /\ flits[<<m, d>>] = 1 <=> <<m, d>> \in sent \/ \E v \in InjVcs : niVc[v] = f

\* Of two queued flits of a vnet, the one of the older message was picked up
\* in an earlier cycle.
OlderFirst ==
  \A v, w \in Queued(niVc) :
    /\ Messages[niVc[v].id].vnet = Messages[niVc[w].id].vnet
    /\ niVc[v].id < niVc[w].id
    => v \in older[w]

\* What left was not younger than what is still in the buffer, ...
LeftBefore ==
  \A x \in sent :
    /\ x[1] < unsent
    /\ \A i \in 1 .. Len(inNode[Messages[x[1]].vnet]) :
         x[1] <= inNode[Messages[x[1]].vnet][i].id

\* ... and in an ordered vnet than what is queued for the same destination.
LeftInOrder ==
  \A v \in Queued(niVc), x \in sent :
    /\ Messages[x[1]].vnet = Messages[niVc[v].id].vnet
    /\ Messages[x[1]].vnet \in Ordered
    /\ x[2] = niVc[v].dest
    => x[1] <= niVc[v].id

-----------------------------------------------------------------------------
\* A set of naturals that is not empty has a least element, and Min is it.
LEMMA MinIsLeast ==
  ASSUME NEW S \in SUBSET Nat, S # {}
  PROVE  Min(S) \in S /\ \A y \in S : Min(S) <= y
<1> DEFINE R == OpToRel(<, Nat)
<1>1. \E x \in S : \A y \in S : ~(<<y, x>> \in R)
  BY NatLessThanWellFounded, WFMin
<1>2. R = { ss \in Nat \X Nat : ss[1] < ss[2] }
  BY Zenon DEF OpToRel
<1> HIDE DEF R
<1>3. \A x, y \in S : ~(<<y, x>> \in R) => x <= y
  BY <1>2
<1>4. \E x \in S : \A y \in S : x <= y
  BY <1>1, <1>3
<1> QED
  BY <1>4 DEF Min

\* A set of naturals up to N that is not empty contains its maximum.
LEMMA MaxIsIn ==
  ASSUME NEW N \in Nat, NEW S \in SUBSET (0 .. N), S # {}
  PROVE  Max(S) \in S
<1> DEFINE T == { N - x : x \in S }
<1>1. T \in SUBSET Nat /\ T # {}
  <2>1. \A x \in S : N - x \in Nat
    OBVIOUS
  <2>2. PICK x : x \in S
    OBVIOUS
  <2>3. N - x \in T
    BY <2>2
  <2> QED
    BY <2>1, <2>3
<1>2. Min(T) \in T /\ \A y \in T : Min(T) <= y
  BY <1>1, MinIsLeast
<1>3. PICK x \in S : Min(T) = N - x
  BY <1>2
<1>4. \A y \in S : x >= y
  <2> TAKE y \in S
  <2>1. N - y \in T
    OBVIOUS
  <2>2. N - x <= N - y
    BY <1>2, <1>3, <2>1
  <2> QED
    BY <2>2
<1> QED
  BY <1>4 DEF Max

\* The VCs of a vnet follow those of the vnets before it.
LEMMA VcBlocks ==
  ASSUME NEW V \in Nat \ {0}, NEW a \in Nat, NEW b \in Nat, a < b
  PROVE  a * V \in Nat /\ b * V \in Nat /\ (a + 1) * V = a * V + V /\ (a + 1) * V <= b * V
<1>1. b - (a + 1) \in Nat
  OBVIOUS
<1> DEFINE c == b - (a + 1)
<1>2. c \in Nat /\ b = (a + 1) + c
  OBVIOUS
<1> HIDE DEF c
<1>3. b * V = (a + 1) * V + c * V
  BY <1>2
<1>4. c * V \in Nat /\ a * V \in Nat /\ b * V \in Nat /\ (a + 1) * V \in Nat
  BY <1>2
<1>5. (a + 1) * V = a * V + V
  OBVIOUS
<1> QED
  BY <1>3, <1>4, <1>5

\* VCs of a vnet are numbered consecutively, and get_vnet finds the vnet back.
LEMMA VnetOfVc ==
  ASSUME NEW u \in Vnets, NEW v \in VnetVcs(u)
  PROVE  /\ v \in InjVcs /\ get_vnet(v) = u
         /\ u * VcPerVnet \in Nat
         /\ v >= u * VcPerVnet /\ v < (u * VcPerVnet) + VcPerVnet
<1> DEFINE V == VcPerVnet
           q == v \div V
           vcs == NumVnets * V
           first == u * V
           below == q * V
<1>1. V \in Nat \ {0} /\ NumVnets \in Nat \ {0} /\ u \in Nat /\ u < NumVnets
  BY InterfaceAssumption
<1> HIDE DEF V
<1>2. first \in Nat /\ vcs \in Nat /\ (u + 1) * V = first + V /\ (u + 1) * V <= vcs
  BY <1>1, VcBlocks
<1>3. v \in first .. (first + V) - 1
  BY <1>2 DEF VnetVcs, V
<1> HIDE DEF first, vcs
<1>4. v \in Nat /\ first <= v /\ v < first + V /\ v < vcs
  BY <1>1, <1>2, <1>3
<1>5. q \in Nat
  BY <1>1, <1>4
<1>6. V * q <= v /\ v < V * (q + 1)
  BY <1>1, <1>4, SMTT(30)
<1> HIDE DEF q
<1>7. V * q = below /\ V * (q + 1) = below + V /\ below \in Nat
  BY <1>1, <1>5
<1> HIDE DEF below
<1>8. below <= v /\ v < below + V
  BY <1>6, <1>7
<1>9. ASSUME q < u PROVE FALSE
  <2>1. below + V <= first
    BY <1>1, <1>5, <1>9, VcBlocks DEF below, first
  <2> QED
    BY <1>1, <1>2, <1>4, <1>7, <1>8, <2>1
<1>10. ASSUME u < q PROVE FALSE
  <2>1. first + V <= below
    BY <1>1, <1>5, <1>10, VcBlocks DEF below, first
  <2> QED
    BY <1>1, <1>2, <1>4, <1>7, <1>8, <2>1
<1>11. q = u
  BY <1>1, <1>5, <1>9, <1>10
<1>12. v \in 0 .. vcs - 1
  BY <1>2, <1>4
<1> QED
  BY <1>2, <1>4, <1>11, <1>12 DEF InjVcs, get_vnet, V, q, first, vcs

-----------------------------------------------------------------------------
\* What a message is.
LEMMA MessageShape ==
  ASSUME load \in Workloads
  PROVE  /\ Messages \in Seq([vnet: Vnets, dests: SUBSET Nat])
         /\ Len(Messages) \in Nat /\ Ids = 1 .. Len(Messages)
         /\ \A m \in Ids : /\ Messages[m].vnet \in Vnets
                           /\ Messages[m].dests \subseteq Nat
                           /\ Messages[m].dests \subseteq Dests
                           /\ IsFiniteSet(Messages[m].dests)
         /\ Dests \subseteq Nat
         /\ load.inj_single_vnet \in BOOLEAN
<1>1. Messages \in Seq([vnet: Vnets, dests: SUBSET Nat])
  BY InterfaceAssumption DEF Messages
<1>2. Len(Messages) \in Nat /\ Ids = 1 .. Len(Messages)
  BY <1>1, LenProperties DEF Ids
<1>3. \A m \in Ids : Messages[m] \in [vnet: Vnets, dests: SUBSET Nat]
  BY <1>1, <1>2, ElementOfSeq
<1>4. \A m \in Ids : Messages[m].vnet \in Vnets /\ Messages[m].dests \subseteq Nat
  BY <1>3
<1>5. \A m \in Ids : IsFiniteSet(Messages[m].dests)
  BY InterfaceAssumption DEF Messages, Ids
<1>6. \A m \in Ids : Messages[m].dests \subseteq Dests
  BY DEF Dests
<1>7. Dests \subseteq Nat
  BY <1>4 DEF Dests
<1> QED
  BY <1>1, <1>2, <1>4, <1>5, <1>6, <1>7, InterfaceAssumption

\* A workload has finitely many destinations.
LEMMA DestsFinite ==
  ASSUME load \in Workloads
  PROVE  IsFiniteSet(Dests)
<1> DEFINE T == { Messages[m].dests : m \in Ids }
           f == [m \in Ids |-> Messages[m].dests]
<1>1. IsFiniteSet(Ids)
  BY MessageShape, FS_Interval
<1>2. f \in Surjection(Ids, T)
  BY DEF Surjection
<1>3. IsFiniteSet(T)
  BY <1>1, <1>2, FS_Surjection, Zenon
<1>4. \A S \in T : IsFiniteSet(S)
  BY MessageShape
<1> QED
  BY <1>3, <1>4, FS_UNION DEF Dests

\* The message at the head of a buffer.
LEMMA HeadShape ==
  ASSUME InjectionTypes, NEW n \in Vnets, isReady(inNode[n])
  PROVE  LET h == Head(inNode[n]) IN
         /\ inNode[n] \in Seq([id: Ids, dests: SUBSET Dests, ready: BOOLEAN])
         /\ inNode[n] # <<>> /\ 1 \in 1 .. Len(inNode[n]) /\ h = inNode[n][1]
         /\ h \in [id: Ids, dests: SUBSET Dests, ready: BOOLEAN]
<1>1. inNode[n] \in Seq([id: Ids, dests: SUBSET Dests, ready: BOOLEAN]) /\ inNode[n] # <<>>
  BY DEF InjectionTypes, isReady
<1>2. Len(inNode[n]) \in Nat /\ Len(inNode[n]) # 0 /\ Head(inNode[n]) = inNode[n][1]
  BY <1>1
<1>3. 1 \in 1 .. Len(inNode[n])
  BY <1>2
<1>4. inNode[n][1] \in [id: Ids, dests: SUBSET Dests, ready: BOOLEAN]
  BY <1>1, <1>3, ElementOfSeq
<1> QED
  BY <1>1, <1>2, <1>3, <1>4

\* What a request is: its vnet and destination name it.
LEMMA RequestShape ==
  ASSUME InjectionTypes, NEW u \in Vnets, NEW r \in Requests(u)
  PROVE  /\ r.vnet \in Vnets /\ InjVnet(r.vnet) = u
         /\ isReady(inNode[r.vnet]) /\ ~lock
         /\ r.dest \in Head(inNode[r.vnet]).dests /\ r.dest \in Dests
         /\ r = [vnet |-> r.vnet, id |-> Head(inNode[r.vnet]).id, dest |-> r.dest]
<1>1. PICK n \in Vnets : InjVnet(n) = u /\ r \in RequestsOf(n)
  BY DEF Requests
<1>2. isReady(inNode[n]) /\ ~lock
  BY <1>1 DEF RequestsOf
<1>3. PICK d \in Head(inNode[n]).dests : r = [vnet |-> n, id |-> Head(inNode[n]).id, dest |-> d]
  BY <1>1, <1>2 DEF RequestsOf
<1>4. Head(inNode[n]).dests \subseteq Dests
  BY <1>2, HeadShape
<1> QED
  BY <1>1, <1>2, <1>3, <1>4

\* The order of the requests for a vnet's VCs.
LEMMA RequestsOrdered ==
  ASSUME InjectionTypes, NEW u \in Vnets
  PROVE  /\ IsFiniteSet(Requests(u))
         /\ \A r \in Requests(u) : ~ Precedes(r, r)
         /\ \A r, s \in Requests(u) : r = s \/ Precedes(r, s) \/ Precedes(s, r)
         /\ \A r, s, t \in Requests(u) : Precedes(r, s) /\ Precedes(s, t) => Precedes(r, t)
<1>1. load \in Workloads
  BY DEF InjectionTypes
<1>2. \A r \in Requests(u) : r.vnet \in Vnets /\ r.dest \in Dests
  BY RequestShape
<1>3. \A r, s \in Requests(u) : r.vnet = s.vnet /\ r.dest = s.dest => r = s
  BY RequestShape, Zenon
<1>4. Vnets \subseteq Nat /\ Dests \subseteq Nat /\ IsFiniteSet(Vnets) /\ IsFiniteSet(Dests)
  <2>1. Vnets = 0 .. NumVnets - 1 /\ NumVnets \in Nat
    BY InterfaceAssumption
  <2>2. NumVnets - 1 \in Int /\ 0 \in Int
    BY <2>1
  <2>3. IsFiniteSet(Vnets)
    BY <2>1, <2>2, FS_Interval
  <2> QED
    BY <1>1, <2>1, <2>3, MessageShape, DestsFinite
<1>5. IsFiniteSet(Requests(u))
  <2> DEFINE f == [r \in Requests(u) |-> <<r.vnet, r.dest>>]
  <2>1. f \in [Requests(u) -> Vnets \X Dests]
    BY <1>2
  <2>2. \A r, s \in Requests(u) : f[r] = f[s] => r = s
    BY <1>3
  <2>3. f \in Injection(Requests(u), Vnets \X Dests)
    BY <2>1, <2>2 DEF Injection, IsInjective
  <2>4. IsFiniteSet(Vnets \X Dests)
    BY <1>4, FS_Product
  <2> QED
    BY <2>3, <2>4, FS_Injection, Zenon
<1>6. \A r \in Requests(u) : r.vnet \in Nat /\ r.dest \in Nat
  BY <1>2, <1>4
<1>7. \A r \in Requests(u) : ~ Precedes(r, r)
  BY <1>6 DEF Precedes
<1>8. \A r, s \in Requests(u) : r = s \/ Precedes(r, s) \/ Precedes(s, r)
  BY <1>3, <1>6 DEF Precedes
<1>9. \A r, s, t \in Requests(u) : Precedes(r, s) /\ Precedes(s, t) => Precedes(r, t)
  BY <1>6 DEF Precedes
<1> QED
  BY <1>5, <1>7, <1>8, <1>9

\* Two different requests have a different number of requests before them.
LEMMA RequestRank ==
  ASSUME InjectionTypes, NEW u \in Vnets, NEW r \in Requests(u), NEW s \in Requests(u),
         Cardinality({ x \in Requests(u) : Precedes(x, r) })
           = Cardinality({ x \in Requests(u) : Precedes(x, s) })
  PROVE  r = s
<1>1. ASSUME NEW a \in Requests(u), NEW b \in Requests(u), Precedes(a, b)
      PROVE  Cardinality({ x \in Requests(u) : Precedes(x, a) })
               # Cardinality({ x \in Requests(u) : Precedes(x, b) })
  <2> DEFINE A == { x \in Requests(u) : Precedes(x, a) }
             B == { x \in Requests(u) : Precedes(x, b) }
  <2>1. A \subseteq B /\ a \in B /\ a \notin A /\ B \subseteq Requests(u)
    BY <1>1, RequestsOrdered
  <2>2. IsFiniteSet(B)
    BY <2>1, RequestsOrdered, FS_Subset
  <2> HIDE DEF A, B
  <2>3. Cardinality(A) # Cardinality(B)
    BY <2>1, <2>2, FS_Subset
  <2> QED
    BY <2>3 DEF A, B
<1> QED
  BY <1>1, RequestsOrdered

\* Two different idle VCs of a vnet have a different number of them before.
LEMMA VcRank ==
  ASSUME InjectionTypes, NEW u \in Vnets, NEW v \in FreeVcs(u), NEW w \in FreeVcs(u),
         Cardinality({ x \in FreeVcs(u) : Turn(u, x) < Turn(u, v) })
           = Cardinality({ x \in FreeVcs(u) : Turn(u, x) < Turn(u, w) })
  PROVE  v = w
<1>1. /\ VcPerVnet \in Nat \ {0} /\ vcAlloc[u] \in 0 .. VcPerVnet - 1
      /\ u * VcPerVnet \in Nat
  BY InterfaceAssumption, VnetOfVc DEF InjectionTypes, FreeVcs
<1>2. \A x \in FreeVcs(u) :
        x \in Nat /\ x >= u * VcPerVnet /\ x < (u * VcPerVnet) + VcPerVnet
  <2>1. \A x \in FreeVcs(u) : x \in VnetVcs(u)
    BY DEF FreeVcs
  <2>2. \A x \in InjVcs : x \in Int
    BY DEF InjVcs
  <2> QED
    BY <1>1, <2>1, <2>2, VnetOfVc
<1> DEFINE base == u * VcPerVnet
           first == base + (IF load.ni_inj = "rr" THEN vcAlloc[u] ELSE 0)
<1>3. first \in Nat /\ base \in Nat
  BY <1>1
<1>4. \A x \in FreeVcs(u) : Turn(u, x) = IF x < first THEN x + VcPerVnet ELSE x
  BY DEF Turn
<1>5. \A x \in FreeVcs(u) : x \in Nat /\ x >= base /\ x < base + VcPerVnet
  BY <1>2
<1> HIDE DEF base, first
<1>6. /\ \A x \in FreeVcs(u) : Turn(u, x) \in Nat
      /\ \A x, y \in FreeVcs(u) : Turn(u, x) = Turn(u, y) => x = y
  BY <1>1, <1>3, <1>4, <1>5
<1>7. IsFiniteSet(FreeVcs(u))
  <2>1. FreeVcs(u) \subseteq Nat /\ \A x \in FreeVcs(u) : x <= base + VcPerVnet
    BY <1>1, <1>3, <1>5
  <2>2. base + VcPerVnet \in Nat
    BY <1>1, <1>3
  <2> QED
    BY <2>1, <2>2, FS_BoundedSetOfNaturals
<1>8. ASSUME NEW a \in FreeVcs(u), NEW b \in FreeVcs(u), Turn(u, a) < Turn(u, b)
      PROVE  Cardinality({ x \in FreeVcs(u) : Turn(u, x) < Turn(u, a) })
               # Cardinality({ x \in FreeVcs(u) : Turn(u, x) < Turn(u, b) })
  <2> DEFINE A == { x \in FreeVcs(u) : Turn(u, x) < Turn(u, a) }
             B == { x \in FreeVcs(u) : Turn(u, x) < Turn(u, b) }
  <2>1. A \subseteq B /\ a \in B /\ a \notin A /\ B \subseteq FreeVcs(u)
    BY <1>6, <1>8
  <2>2. IsFiniteSet(B)
    BY <2>1, <1>7, FS_Subset
  <2> HIDE DEF A, B
  <2>3. Cardinality(A) # Cardinality(B)
    BY <2>1, <2>2, FS_Subset
  <2> QED
    BY <2>3 DEF A, B
<1>9. Turn(u, v) = Turn(u, w)
  <2>1. ~(Turn(u, v) < Turn(u, w)) /\ ~(Turn(u, w) < Turn(u, v))
    BY <1>8
  <2> QED
    BY <1>6, <2>1
<1> QED
  BY <1>6, <1>9

\* What one wakeup serves: requests and VCs in pairs, each at most once.
LEMMA ServedPairs ==
  ASSUME InjectionTypes
  PROVE  /\ \A p \in Served :
              /\ p = <<p[1], p[2]>>
              /\ p[1] \in InjVcs /\ outState[p[1]] = "IDLE"
              /\ p[2].vnet \in Vnets /\ get_vnet(p[1]) = InjVnet(p[2].vnet)
              /\ isReady(inNode[p[2].vnet]) /\ ~lock
              /\ p[2].dest \in Head(inNode[p[2].vnet]).dests /\ p[2].dest \in Dests
              /\ p[2].id = Head(inNode[p[2].vnet]).id
         /\ \A p, q \in Served : p[1] = q[1] => p = q
         /\ \A p, q \in Served : p[2].vnet = q[2].vnet /\ p[2].dest = q[2].dest => p = q
<1> DEFINE Found(u, v) == Cardinality({ x \in FreeVcs(u) : Turn(u, x) < Turn(u, v) })
           Before(u, r) == Cardinality({ x \in Requests(u) : Precedes(x, r) })
<1>1. ASSUME NEW p \in Served
      PROVE  \E u \in Vnets : /\ p = <<p[1], p[2]>>
                              /\ p[1] \in FreeVcs(u) /\ p[2] \in Requests(u)
                              /\ Found(u, p[1]) = Before(u, p[2])
  <2>1. PICK u \in Vnets :
          p \in { q \in FreeVcs(u) \X Requests(u) : Found(u, q[1]) = Before(u, q[2]) }
    BY DEF Served
  <2> HIDE DEF Found, Before
  <2>2. p \in FreeVcs(u) \X Requests(u) /\ Found(u, p[1]) = Before(u, p[2])
    BY <2>1
  <2>3. p = <<p[1], p[2]>> /\ p[1] \in FreeVcs(u) /\ p[2] \in Requests(u)
    BY <2>2
  <2> QED
    BY <2>2, <2>3
<1> HIDE DEF Found, Before
<1>2. ASSUME NEW u \in Vnets, NEW v \in FreeVcs(u)
      PROVE  v \in InjVcs /\ outState[v] = "IDLE" /\ get_vnet(v) = u
  BY VnetOfVc DEF FreeVcs
<1>3. ASSUME NEW p \in Served
      PROVE  /\ p = <<p[1], p[2]>>
             /\ p[1] \in InjVcs /\ outState[p[1]] = "IDLE"
             /\ p[2].vnet \in Vnets /\ get_vnet(p[1]) = InjVnet(p[2].vnet)
             /\ isReady(inNode[p[2].vnet]) /\ ~lock
             /\ p[2].dest \in Head(inNode[p[2].vnet]).dests /\ p[2].dest \in Dests
             /\ p[2].id = Head(inNode[p[2].vnet]).id
  <2>1. PICK u \in Vnets : p = <<p[1], p[2]>> /\ p[1] \in FreeVcs(u) /\ p[2] \in Requests(u)
    BY <1>1
  <2> DEFINE r == p[2]
  <2>2. /\ r.vnet \in Vnets /\ InjVnet(r.vnet) = u
        /\ isReady(inNode[r.vnet]) /\ ~lock
        /\ r.dest \in Head(inNode[r.vnet]).dests /\ r.dest \in Dests
        /\ r = [vnet |-> r.vnet, id |-> Head(inNode[r.vnet]).id, dest |-> r.dest]
    BY <2>1, RequestShape
  <2> HIDE DEF r
  <2>3. r.id = Head(inNode[r.vnet]).id
    BY <2>2
  <2> QED
    BY <1>2, <2>1, <2>2, <2>3 DEF r
<1>4. ASSUME NEW p \in Served, NEW q \in Served, p[1] = q[1] PROVE p = q
  <2>1. PICK u \in Vnets : /\ p = <<p[1], p[2]>> /\ p[1] \in FreeVcs(u) /\ p[2] \in Requests(u)
                           /\ Found(u, p[1]) = Before(u, p[2])
    BY <1>1
  <2>2. PICK w \in Vnets : /\ q = <<q[1], q[2]>> /\ q[1] \in FreeVcs(w) /\ q[2] \in Requests(w)
                           /\ Found(w, q[1]) = Before(w, q[2])
    BY <1>1
  <2>3. u = w
    BY <1>2, <1>4, <2>1, <2>2
  <2>4. Before(u, p[2]) = Before(u, q[2])
    BY <1>4, <2>1, <2>2, <2>3
  <2>5. p[2] = q[2]
    BY <2>1, <2>2, <2>3, <2>4, RequestRank DEF Before
  <2> QED
    BY <1>4, <2>1, <2>2, <2>5
<1>5. ASSUME NEW p \in Served, NEW q \in Served,
             p[2].vnet = q[2].vnet, p[2].dest = q[2].dest
      PROVE  p = q
  <2>1. PICK u \in Vnets : /\ p = <<p[1], p[2]>> /\ p[1] \in FreeVcs(u) /\ p[2] \in Requests(u)
                           /\ Found(u, p[1]) = Before(u, p[2])
    BY <1>1
  <2>2. PICK w \in Vnets : /\ q = <<q[1], q[2]>> /\ q[1] \in FreeVcs(w) /\ q[2] \in Requests(w)
                           /\ Found(w, q[1]) = Before(w, q[2])
    BY <1>1
  <2>3. u = InjVnet(p[2].vnet) /\ w = InjVnet(q[2].vnet)
    BY <2>1, <2>2, RequestShape
  <2>4. u = w
    BY <1>5, <2>3
  <2>5. /\ p[2] = [vnet |-> p[2].vnet, id |-> Head(inNode[p[2].vnet]).id, dest |-> p[2].dest]
        /\ q[2] = [vnet |-> q[2].vnet, id |-> Head(inNode[q[2].vnet]).id, dest |-> q[2].dest]
    BY <2>1, <2>2, RequestShape
  <2>6. p[2] = q[2]
    BY <1>5, <2>5, Zenon
  <2>7. Found(u, p[1]) = Found(u, q[1])
    BY <2>1, <2>2, <2>4, <2>6
  <2>8. p[1] = q[1]
    BY <2>1, <2>2, <2>4, <2>7, VcRank DEF Found
  <2> QED
    BY <2>1, <2>2, <2>6, <2>8
<1> QED
  BY <1>3, <1>4, <1>5, Zenon

-----------------------------------------------------------------------------
\* The VCs are numbered from 0, and no VC is NoVc.
LEMMA AllVcs ==
  LET total == NumVnets * VcPerVnet IN
  /\ total \in Nat \ {0} /\ InjVcs = 0 .. total - 1
  /\ InjVcs \subseteq Nat /\ NoVc \notin InjVcs
<1>1. NumVnets \in Nat \ {0} /\ VcPerVnet \in Nat \ {0}
  BY InterfaceAssumption
<1> DEFINE total == NumVnets * VcPerVnet
<1>2. total \in Nat \ {0} /\ InjVcs = 0 .. total - 1
  <2>1. NumVnets - 1 \in Nat
    BY <1>1
  <2>2. total = (NumVnets - 1) * VcPerVnet + VcPerVnet
    BY <1>1
  <2>3. (NumVnets - 1) * VcPerVnet \in Nat
    BY <1>1, <2>1
  <2> QED
    BY <1>1, <2>2, <2>3 DEF InjVcs
<1> HIDE DEF total
<1>3. InjVcs \subseteq Nat /\ NoVc \notin InjVcs
  BY <1>2 DEF NoVc
<1> QED
  BY <1>2, <1>3 DEF total

\* A VC is one of its vnet.
LEMMA InItsVnet ==
  ASSUME NEW v \in InjVcs
  PROVE  v \in VnetVcs(get_vnet(v))
<1> DEFINE V == VcPerVnet
           q == v \div V
<1>1. V \in Nat \ {0} /\ v \in Nat
  BY InterfaceAssumption, AllVcs
<1> HIDE DEF V
<1>2. q \in Nat
  BY <1>1
<1>3. V * q <= v /\ v < V * (q + 1)
  BY <1>1, SMTT(30)
<1> HIDE DEF q
<1>4. V * q = q * V /\ V * (q + 1) = (q + 1) * V /\ q * V \in Nat /\ (q + 1) * V \in Nat
  BY <1>1, <1>2
<1>5. v \in q * V .. (q + 1) * V - 1
  BY <1>1, <1>3, <1>4
<1> QED
  BY <1>5 DEF VnetVcs, get_vnet, q, V

\* The round robin serves a candidate or nobody.
LEMMA OutIsCandidate ==
  ASSUME InjectionTypes, NEW vc, NEW old
  PROVE  /\ OutVc(vc, old) \in InjVcs \union {NoVc}
         /\ OutVc(vc, old) # NoVc => IsCandidate(vc, old, OutVc(vc, old))
<1> DEFINE total == NumVnets * VcPerVnet
           turns == { k \in 1 .. total : IsCandidate(vc, old, (vcRound + k) % total) }
<1>1. total \in Nat \ {0} /\ InjVcs = 0 .. total - 1 /\ vcRound \in InjVcs
  BY AllVcs DEF InjectionTypes
<1>2. OutVc(vc, old) = IF turns = {} THEN NoVc ELSE (vcRound + Min(turns)) % total
  BY DEF OutVc
<1> HIDE DEF total
<1>3. CASE turns = {}
  BY <1>2, <1>3
<1>4. CASE turns # {}
  <2>1. turns \in SUBSET Nat
    BY <1>1
  <2>2. Min(turns) \in turns
    BY <1>4, <2>1, MinIsLeast
  <2>3. Min(turns) \in Nat /\ IsCandidate(vc, old, (vcRound + Min(turns)) % total)
    BY <2>1, <2>2
  <2> HIDE DEF turns
  <2>4. (vcRound + Min(turns)) % total \in InjVcs
    BY <1>1, <2>3
  <2> QED
    BY <1>2, <1>4, <2>3, <2>4
<1> QED
  BY <1>3, <1>4

\* calculateVC's round-robin pointer stays inside the vnet.
LEMMA AllocInRange ==
  ASSUME InjectionTypes, NEW u \in Vnets
  PROVE  NextAlloc(Served, u) \in 0 .. VcPerVnet - 1
<1> DEFINE found == { p[1] : p \in { q \in Served : get_vnet(q[1]) = u } }
           T == { Turn(u, v) : v \in found }
           N == (NumVnets * VcPerVnet) + VcPerVnet
<1>1. /\ VcPerVnet \in Nat \ {0} /\ vcAlloc[u] \in 0 .. VcPerVnet - 1
      /\ NumVnets * VcPerVnet \in Nat /\ InjVcs = 0 .. (NumVnets * VcPerVnet) - 1
  BY InterfaceAssumption, AllVcs DEF InjectionTypes
<1>2. NextAlloc(Served, u) = IF load.ni_inj = "rr" /\ found # {}
                             THEN (Max(T) + 1) % VcPerVnet ELSE vcAlloc[u]
  BY DEF NextAlloc
<1>3. found \subseteq InjVcs
  BY ServedPairs
<1>4. \A v \in InjVcs : Turn(u, v) = v \/ Turn(u, v) = v + VcPerVnet
  BY DEF Turn
<1>5. N \in Nat /\ \A v \in InjVcs : Turn(u, v) \in 0 .. N
  BY <1>1, <1>4
<1> HIDE DEF found, N
<1>6. CASE found = {}
  BY <1>1, <1>2, <1>6
<1>7. CASE found # {}
  <2>1. T \in SUBSET (0 .. N) /\ T # {}
    BY <1>3, <1>5, <1>7
  <2> HIDE DEF T
  <2>2. Max(T) \in Nat
    <3>1. Max(T) \in T
      BY <1>5, <2>1, MaxIsIn
    <3>2. 0 .. N \subseteq Nat
      BY <1>5
    <3> QED
      BY <2>1, <3>1, <3>2, Zenon
  <2>3. (Max(T) + 1) % VcPerVnet \in 0 .. VcPerVnet - 1
    BY <1>1, <2>2
  <2> QED
    BY <1>1, <1>2, <2>3
<1> QED
  BY <1>6, <1>7

-----------------------------------------------------------------------------
\* The flits in the VCs and their ages after the messages are picked up, and
\* the VC whose flit then goes to the link.
Picked == WithFlits(Served)
Ages == Aged(Served)
Out == OutVc(Picked, Ages)

\* The destinations of the first message of vnet n that are served.
Done(n) == { p[2].dest : p \in { q \in Served : q[2].vnet = n } }

\* The injection half of a wakeup, variable by variable.
LEMMA InjectStep ==
  ASSUME InjectHalf
  PROVE  /\ inNode' = [n \in Vnets |-> IF isReady(inNode[n]) /\ ~lock
                                       THEN Remaining(Served, n) ELSE inNode[n]]
         /\ vcAlloc' = [u \in Vnets |-> NextAlloc(Served, u)]
         /\ flits' = [x \in DOMAIN flits |-> flits[x] +
                        Cardinality({ p \in Served : <<p[2].id, p[2].dest>> = x })]
         /\ vcRound' = NextRound
         /\ niVc' = [v \in InjVcs |-> IF v = Out THEN Empty ELSE Picked[v]]
         /\ older' = [v \in InjVcs |-> IF v = Out THEN {} ELSE Ages[v] \ {Out}]
         /\ sent' = IF Out = NoVc THEN sent
                    ELSE sent \union { <<Picked[Out].id, Picked[Out].dest>> }
         /\ outState' = [v \in InjVcs |-> CASE v = creditIn -> "IDLE"
                                            [] v # creditIn /\ Picked[v] # niVc[v] -> "ACTIVE"
                                            [] OTHER -> outState[v]]
         /\ outCred' = [v \in InjVcs |-> outCred[v] - (IF v = Out THEN 1 ELSE 0)
                                                 + (IF v = creditIn THEN 1 ELSE 0)]
         /\ creditIn' = NoVc
         /\ UNCHANGED <<lock, locked, unsent>>
  BY DEF InjectHalf, Picked, Ages, Out

\* Which VCs get a flit, and which.
LEMMA PickedShape ==
  ASSUME InjectionTypes, VcsHeld, InOrder
  PROVE  /\ Picked \in [InjVcs -> [id: Ids \union {0}, dest: Dests \union {0}]]
         /\ Ages \in [InjVcs -> SUBSET InjVcs]
         /\ \A p \in Served :
              /\ p[2].id \in Ids /\ p[2].id \in 1 .. unsent - 1
              /\ Messages[p[2].id].vnet = p[2].vnet
              /\ p[2].dest \in Messages[p[2].id].dests
              /\ p[2].id = inNode[p[2].vnet][1].id /\ 1 \in 1 .. Len(inNode[p[2].vnet])
              /\ niVc[p[1]] = Empty
              /\ Picked[p[1]] = [id |-> p[2].id, dest |-> p[2].dest]
              /\ Picked[p[1]] # Empty
              /\ Ages[p[1]] = Queued(niVc)
         /\ \A v \in InjVcs : (\A p \in Served : p[1] # v)
                                => Picked[v] = niVc[v] /\ Ages[v] = older[v]
<1>0. load \in Workloads
  BY DEF InjectionTypes
<1>1. ASSUME NEW p \in Served
      PROVE  /\ p[2].id \in Ids /\ p[2].id \in 1 .. unsent - 1
             /\ Messages[p[2].id].vnet = p[2].vnet
             /\ p[2].dest \in Messages[p[2].id].dests
             /\ p[2].id = inNode[p[2].vnet][1].id /\ 1 \in 1 .. Len(inNode[p[2].vnet])
  <2> DEFINE n == p[2].vnet
             h == Head(inNode[n])
  <2>1. /\ n \in Vnets /\ isReady(inNode[n]) /\ p[2].dest \in h.dests /\ p[2].id = h.id
    BY ServedPairs
  <2>2. /\ 1 \in 1 .. Len(inNode[n]) /\ h = inNode[n][1]
        /\ h \in [id: Ids, dests: SUBSET Dests, ready: BOOLEAN]
    BY <2>1, HeadShape
  <2>3. /\ inNode[n][1].id < unsent /\ Messages[inNode[n][1].id].vnet = n
        /\ inNode[n][1].dests \subseteq Messages[inNode[n][1].id].dests
    BY <2>1, <2>2 DEF InOrder
  <2> HIDE DEF n, h
  <2>4. h.id \in Ids /\ unsent \in Nat
    BY <2>2, <1>0, MessageShape DEF InjectionTypes
  <2>5. h.id \in 1 .. unsent - 1
    BY <1>0, <2>2, <2>3, <2>4, MessageShape
  <2> QED
    BY <2>1, <2>2, <2>3, <2>4, <2>5 DEF n
<1>2. ASSUME NEW p \in Served
      PROVE  /\ p[1] \in InjVcs /\ niVc[p[1]] = Empty
             /\ Picked[p[1]] = [id |-> p[2].id, dest |-> p[2].dest]
             /\ Ages[p[1]] = Queued(niVc)
  <2>1. p[1] \in InjVcs /\ outState[p[1]] = "IDLE"
    BY ServedPairs
  <2>2. niVc[p[1]] = Empty
    BY <2>1 DEF VcsHeld
  <2>3. \A q \in Served : q[1] = p[1] => q = p
    BY ServedPairs
  <2>4. (CHOOSE q \in Served : q[1] = p[1]) = p
    BY <2>3
  <2>5. Picked[p[1]] = [id |-> p[2].id, dest |-> p[2].dest]
    BY <2>1, <2>4 DEF Picked, WithFlits
  <2>6. Ages[p[1]] = Queued(niVc)
    BY <2>1 DEF Ages, Aged
  <2> QED
    BY <2>1, <2>2, <2>5, <2>6
<1>3. ASSUME NEW p \in Served PROVE Picked[p[1]] # Empty
  <2>1. p[2].id # 0
    BY <1>0, <1>1, MessageShape
  <2> DEFINE i == p[2].id
             d == p[2].dest
  <2>2. Picked[p[1]] = [id |-> i, dest |-> d]
    BY <1>2
  <2> HIDE DEF i, d
  <2>3. Empty.id = 0
    BY DEF Empty
  <2>4. [id |-> i, dest |-> d].id = i
    OBVIOUS
  <2> QED
    BY <2>1, <2>2, <2>3, <2>4 DEF i
<1>4. ASSUME NEW v \in InjVcs, \A p \in Served : p[1] # v
      PROVE  Picked[v] = niVc[v] /\ Ages[v] = older[v]
  BY <1>4 DEF Picked, WithFlits, Ages, Aged
<1> DEFINE Slot == [id: Ids \union {0}, dest: Dests \union {0}]
<1>5. Picked \in [InjVcs -> Slot]
  <2>1. ASSUME NEW v \in InjVcs PROVE Picked[v] \in Slot
    <3>1. CASE \A p \in Served : p[1] # v
      BY <1>4, <3>1 DEF InjectionTypes
    <3>2. ASSUME NEW p \in Served, p[1] = v PROVE Picked[v] \in Slot
      <4>1. p[2].id \in Ids /\ p[2].dest \in Dests
        BY <1>1, ServedPairs
      <4>2. Picked[v] = [id |-> p[2].id, dest |-> p[2].dest]
        BY <1>2, <3>2
      <4>3. [id |-> p[2].id, dest |-> p[2].dest] \in Slot
        BY <4>1
      <4> QED
        BY <4>2, <4>3
    <3> QED
      BY <3>1, <3>2
  <2>2. Picked = [v \in InjVcs |-> Picked[v]]
    BY DEF Picked, WithFlits
  <2> QED
    BY <2>1, <2>2
<1>6. Ages \in [InjVcs -> SUBSET InjVcs]
  <2>1. Queued(niVc) \subseteq InjVcs
    BY DEF Queued
  <2> QED
    BY <2>1 DEF Ages, Aged, InjectionTypes
<1> QED
  BY <1>1, <1>2, <1>3, <1>4, <1>5, <1>6

\* A queue with another element in the place of its first.
LEMMA NewHead ==
  ASSUME NEW S, NEW q \in Seq(S), q # <<>>, NEW x \in S
  PROVE  /\ <<x>> \o Tail(q) \in Seq(S)
         /\ Len(<<x>> \o Tail(q)) = Len(q)
         /\ (<<x>> \o Tail(q))[1] = x
         /\ \A i \in 2 .. Len(q) : (<<x>> \o Tail(q))[i] = q[i]
<1> DEFINE t == Tail(q)
<1>1. /\ t \in Seq(S) /\ Len(q) \in Nat /\ Len(q) >= 1 /\ Len(t) = Len(q) - 1
      /\ \A i \in 1 .. Len(t) : t[i] = q[i + 1]
  OBVIOUS
<1> HIDE DEF t
<1>2. <<x>> \in Seq(S) /\ Len(<<x>>) = 1
  OBVIOUS
<1>3. <<x>> \o t \in Seq(S) /\ Len(<<x>> \o t) = Len(q)
  BY <1>1, <1>2
<1>4. \A i \in 1 .. Len(q) : (<<x>> \o t)[i] = IF i <= 1 THEN x ELSE t[i - 1]
  BY <1>1, <1>2
<1>5. \A i \in 2 .. Len(q) : (<<x>> \o t)[i] = q[i]
  <2> TAKE i \in 2 .. Len(q)
  <2>1. i - 1 \in 1 .. Len(t) /\ i \in 1 .. Len(q) /\ ~(i <= 1) /\ (i - 1) + 1 = i
    BY <1>1
  <2>2. t[i - 1] = q[(i - 1) + 1]
    BY <1>1, <2>1
  <2>3. (<<x>> \o t)[i] = t[i - 1]
    BY <1>4, <2>1
  <2> QED
    BY <2>1, <2>2, <2>3
<1> QED
  BY <1>1, <1>3, <1>4, <1>5 DEF t

Buffered == [id: Ids, dests: SUBSET Dests, ready: BOOLEAN]

\* Queue r is q without its first off elements, D taken from the destinations
\* of the first of q.
Shifted(q, r, D, off) ==
  /\ Len(r) = Len(q) - off
  /\ off = 1 => Len(q) >= 1 /\ q[1].dests \subseteq D
  /\ \A i \in 1 .. Len(r) :
       /\ i + off \in 1 .. Len(q)
       /\ r[i].id = q[i + off].id
       /\ r[i].dests = IF i + off = 1 THEN q[1].dests \ D ELSE q[i + off].dests

\* A buffer whose first message is not dequeued has not moved.
LEMMA NotShifted ==
  ASSUME NEW q, NEW r, NEW D, Len(q) \in Nat, Len(r) = Len(q),
         \A i \in 1 .. Len(q) :
           /\ r[i].id = q[i].id
           /\ r[i].dests = IF i = 1 THEN q[1].dests \ D ELSE q[i].dests
  PROVE  Shifted(q, r, D, 0)
<1>1. Len(r) = Len(q) - 0 /\ 0 # 1
  OBVIOUS
<1>2. ASSUME NEW i \in 1 .. Len(r)
      PROVE  /\ i + 0 \in 1 .. Len(q) /\ r[i].id = q[i + 0].id
             /\ r[i].dests = IF i + 0 = 1 THEN q[1].dests \ D ELSE q[i + 0].dests
  <2>1. i + 0 = i /\ i \in 1 .. Len(q)
    OBVIOUS
  <2> QED
    BY <2>1
<1> QED
  BY <1>1, <1>2, Zenon DEF Shifted

\* What a wakeup leaves of a buffer: its first message has lost the served
\* destinations, or is gone when they were all it had.
LEMMA NewQueue ==
  ASSUME InjectionTypes, InjectHalf, NEW n \in Vnets
  PROVE  /\ inNode'[n] \in Seq(Buffered)
         /\ \E off \in {0, 1} : Shifted(inNode[n], inNode'[n], Done(n), off)
<1> DEFINE q == inNode[n]
           h == Head(q)
           new == [h EXCEPT !.dests = @ \ Done(n)]
<1>1. q \in Seq(Buffered) /\ Len(q) \in Nat /\ \A i \in 1 .. Len(q) : q[i] \in Buffered
  <2>1. q \in Seq(Buffered)
    BY DEF InjectionTypes, Buffered
  <2> HIDE DEF q
  <2> QED
    BY <2>1, ElementOfSeq, LenProperties
<1>2. CASE ~(isReady(q) /\ ~lock)
  <2>1. inNode'[n] = q
    BY <1>2, InjectStep
  <2>2. Done(n) = {}
    BY <1>2, ServedPairs DEF Done
  <2>3. q[1].dests \ {} = q[1].dests
    OBVIOUS
  <2> HIDE DEF q
  <2>4. Shifted(q, q, Done(n), 0)
    BY <1>1, <2>2, <2>3 DEF Shifted
  <2> QED
    BY <1>1, <2>1, <2>4 DEF q
<1>3. CASE isReady(q) /\ ~lock
  <2>1. inNode'[n] = Remaining(Served, n)
    BY <1>3, InjectStep
  <2>2. Remaining(Served, n) = IF Done(n) = h.dests THEN Tail(q) ELSE << new >> \o Tail(q)
    BY DEF Remaining, Done
  <2>3. q # <<>> /\ h = q[1] /\ h \in Buffered /\ 1 \in 1 .. Len(q)
    BY <1>3, HeadShape DEF Buffered
  <2>4. CASE Done(n) = h.dests
    <3>1. inNode'[n] = Tail(q)
      BY <2>1, <2>2, <2>4
    <3>2. q[1].dests \subseteq Done(n)
      BY <2>3, <2>4
    <3> HIDE DEF q
    <3>3. /\ Tail(q) \in Seq(Buffered) /\ Len(Tail(q)) = Len(q) - 1 /\ Len(q) >= 1
          /\ \A i \in 1 .. Len(Tail(q)) : Tail(q)[i] = q[i + 1]
      BY <1>1, <2>3
    <3>4. \A i \in 1 .. Len(Tail(q)) : i + 1 \in 1 .. Len(q) /\ i + 1 # 1
      BY <1>1, <3>3
    <3>5. \A i \in 1 .. Len(Tail(q)) :
             /\ i + 1 \in 1 .. Len(q) /\ Tail(q)[i].id = q[i + 1].id
             /\ Tail(q)[i].dests = IF i + 1 = 1 THEN q[1].dests \ Done(n) ELSE q[i + 1].dests
      BY <3>3, <3>4
    <3>6. Shifted(q, Tail(q), Done(n), 1)
      BY <3>2, <3>3, <3>5 DEF Shifted
    <3> QED
      BY <3>1, <3>3, <3>6 DEF q
  <2>5. CASE Done(n) # h.dests
    <3>1. inNode'[n] = << new >> \o Tail(q)
      BY <2>1, <2>2, <2>5
    <3>2. new \in Buffered /\ new.id = h.id /\ new.dests = h.dests \ Done(n)
      BY <2>3 DEF Buffered
    <3> HIDE DEF new, q, h
    <3>3. /\ << new >> \o Tail(q) \in Seq(Buffered)
          /\ Len(<< new >> \o Tail(q)) = Len(q)
          /\ (<< new >> \o Tail(q))[1] = new
          /\ \A i \in 2 .. Len(q) : (<< new >> \o Tail(q))[i] = q[i]
      BY <1>1, <2>3, <3>2, NewHead
    <3> DEFINE r == << new >> \o Tail(q)
    <3> HIDE DEF r
    <3>4. \A i \in 1 .. Len(q) : i = 1 \/ (i # 1 /\ r[i] = q[i])
      <4> TAKE i \in 1 .. Len(q)
      <4>1. i = 1 \/ (i # 1 /\ i \in 2 .. Len(q))
        BY <1>1
      <4> QED
        BY <3>3, <4>1 DEF r
    <3>5. r[1] = new /\ Len(r) = Len(q)
      BY <1>1, <3>3 DEF r
    <3>6. \A i \in 1 .. Len(q) :
             /\ r[i].id = q[i].id
             /\ r[i].dests = IF i = 1 THEN q[1].dests \ Done(n) ELSE q[i].dests
      BY <2>3, <3>2, <3>4, <3>5
    <3>7. r \in Seq(Buffered) /\ inNode'[n] = r
      BY <3>1, <3>3 DEF r
    <3>8. Shifted(q, r, Done(n), 0)
      BY <1>1, <3>5, <3>6, NotShifted
    <3> QED
      BY <3>7, <3>8 DEF q
  <2> QED
    BY <2>4, <2>5
<1> QED
  BY <1>2, <1>3

\* The flits of a wakeup, counted.
LEMMA NewFlits ==
  ASSUME InjectionTypes, VcsHeld, InOrder, InjectHalf, NEW m \in Ids, NEW d \in Dests
  PROVE  /\ (\E p \in Served : p[2].id = m /\ p[2].dest = d)
              => flits'[<<m, d>>] = flits[<<m, d>>] + 1
         /\ ~(\E p \in Served : p[2].id = m /\ p[2].dest = d)
              => flits'[<<m, d>>] = flits[<<m, d>>]
         /\ flits[<<m, d>>] \in Nat
         /\ DOMAIN flits' = Ids \X Dests
<1> DEFINE P == { p \in Served : <<p[2].id, p[2].dest>> = <<m, d>> }
<1>1. DOMAIN flits = Ids \X Dests /\ flits[<<m, d>>] \in Nat
  BY DEF InjectionTypes
<1>2. /\ flits' = [x \in DOMAIN flits |-> flits[x] +
                        Cardinality({ p \in Served : <<p[2].id, p[2].dest>> = x })]
  BY InjectStep
<1>3. flits'[<<m, d>>] = flits[<<m, d>>] + Cardinality(P) /\ DOMAIN flits' = Ids \X Dests
  BY <1>1, <1>2
<1>4. ASSUME NEW p \in Served, p[2].id = m, p[2].dest = d PROVE Cardinality(P) = 1
  <2>1. \A q \in P : q \in Served /\ q[2].id = m /\ q[2].dest = d
    OBVIOUS
  <2>2. \A q \in Served : Messages[q[2].id].vnet = q[2].vnet
    BY PickedShape
  <2>3. \A q \in P : q = p
    <3> TAKE q \in P
    <3>1. q \in Served /\ q[2].vnet = p[2].vnet /\ q[2].dest = p[2].dest
      BY <1>4, <2>1, <2>2
    <3> QED
      BY <3>1, ServedPairs
  <2>4. P = {p}
    BY <1>4, <2>3
  <2> QED
    BY <2>4, FS_Singleton
<1>5. ASSUME ~(\E p \in Served : p[2].id = m /\ p[2].dest = d) PROVE Cardinality(P) = 0
  <2>1. P = {}
    BY <1>5
  <2> QED
    BY <2>1, FS_EmptySet
<1> HIDE DEF P
<1> QED
  BY <1>1, <1>3, <1>4, <1>5

\* The ids of a buffer, as a wakeup leaves it and as it was.
LEMMA BufferIds ==
  ASSUME InjectionTypes, InOrder, InjectHalf, NEW n \in Vnets
  PROVE  /\ \A j \in 1 .. Len(inNode[n]) :
              /\ inNode[n][j].id \in Ids /\ inNode[n][j].id \in Nat
              /\ inNode[n][1].id <= inNode[n][j].id
         /\ \A i \in 1 .. Len(inNode'[n]) : \E j \in 1 .. Len(inNode[n]) :
              /\ inNode'[n][i].id = inNode[n][j].id
              /\ inNode'[n][i].dests \subseteq inNode[n][j].dests
<1>1. load \in Workloads
  BY DEF InjectionTypes
<1>2. inNode[n] \in Seq(Buffered) /\ Len(inNode[n]) \in Nat
  <2>1. inNode[n] \in Seq(Buffered)
    BY DEF InjectionTypes, Buffered
  <2> QED
    BY <2>1, LenProperties
<1>3. ASSUME NEW j \in 1 .. Len(inNode[n])
      PROVE  inNode[n][j].id \in Ids /\ inNode[n][j].id \in Nat
  <2>1. inNode[n][j] \in Buffered
    BY <1>2, ElementOfSeq
  <2> QED
    BY <1>1, <2>1, MessageShape DEF Buffered
<1>4. ASSUME NEW j \in 1 .. Len(inNode[n])
      PROVE  inNode[n][1].id <= inNode[n][j].id
  <2>1. 1 \in 1 .. Len(inNode[n]) /\ (j = 1 \/ 1 < j)
    BY <1>2
  <2>2. 1 < j => inNode[n][1].id < inNode[n][j].id
    BY <2>1 DEF InOrder
  <2>3. inNode[n][1].id \in Nat /\ inNode[n][j].id \in Nat
    BY <1>3, <2>1
  <2> QED
    BY <2>1, <2>2, <2>3
<1>5. ASSUME NEW i \in 1 .. Len(inNode'[n])
      PROVE  \E j \in 1 .. Len(inNode[n]) :
               /\ inNode'[n][i].id = inNode[n][j].id
               /\ inNode'[n][i].dests \subseteq inNode[n][j].dests
  <2>1. PICK off \in {0, 1} : Shifted(inNode[n], inNode'[n], Done(n), off)
    BY NewQueue
  <2>2. /\ i + off \in 1 .. Len(inNode[n])
        /\ inNode'[n][i].id = inNode[n][i + off].id
        /\ inNode'[n][i].dests = IF i + off = 1 THEN inNode[n][1].dests \ Done(n)
                                 ELSE inNode[n][i + off].dests
    BY <2>1 DEF Shifted
  <2>3. inNode'[n][i].dests \subseteq inNode[n][i + off].dests
    BY <2>2
  <2> QED
    BY <2>2, <2>3
<1> QED
  BY <1>3, <1>4, <1>5

\* QueuedFlits and OlderFirst hold of the flits after the messages are picked
\* up, before one of them leaves.
LEMMA PickedFlits ==
  ASSUME InjectionTypes, VcsHeld, InOrder, QueuedFlits, OlderFirst, InjectHalf
  PROVE  /\ \A v \in Queued(Picked) :
              LET m == Picked[v].id IN
              /\ m \in 1 .. unsent - 1 /\ m \in Ids
              /\ Picked[v].dest \in Messages[m].dests
              /\ get_vnet(v) = InjVnet(Messages[m].vnet)
              /\ \A i \in 1 .. Len(inNode'[Messages[m].vnet]) :
                   m <= inNode'[Messages[m].vnet][i].id
         /\ \A v, w \in Queued(Picked) :
              /\ Messages[Picked[v].id].vnet = Messages[Picked[w].id].vnet
              /\ Picked[v].id < Picked[w].id
              => v \in Ages[w]
<1>0. load \in Workloads
  BY DEF InjectionTypes
<1>1. /\ Queued(Picked) \subseteq InjVcs
      /\ unsent - 1 <= Len(Messages) /\ unsent \in Nat /\ Len(Messages) \in Nat
      /\ Ids = 1 .. Len(Messages)
  BY <1>0, MessageShape DEF Queued, InjectionTypes
<1>2. ASSUME NEW p \in Served
      PROVE  LET v == p[1]
                 m == p[2].id
                 n == p[2].vnet IN
             /\ Picked[v].id = m /\ Picked[v].dest = p[2].dest
             /\ m \in 1 .. unsent - 1 /\ m \in Ids
             /\ p[2].dest \in Messages[m].dests
             /\ n \in Vnets /\ n = Messages[m].vnet
             /\ get_vnet(v) = InjVnet(n)
             /\ m = inNode[n][1].id /\ 1 \in 1 .. Len(inNode[n])
             /\ Ages[v] = Queued(niVc)
             /\ \A i \in 1 .. Len(inNode'[n]) : m <= inNode'[n][i].id
  <2> DEFINE v == p[1]
             m == p[2].id
             n == p[2].vnet
             d == p[2].dest
  <2>1. /\ m \in 1 .. unsent - 1 /\ m \in Ids /\ d \in Messages[m].dests
        /\ n = Messages[m].vnet
        /\ m = inNode[n][1].id /\ 1 \in 1 .. Len(inNode[n])
        /\ Picked[v] = [id |-> m, dest |-> d] /\ Ages[v] = Queued(niVc)
    BY PickedShape
  <2>2. n \in Vnets /\ get_vnet(v) = InjVnet(n)
    BY ServedPairs
  <2> HIDE DEF v, m, n, d
  <2>3. Picked[v].id = m /\ Picked[v].dest = d
    <3>1. Picked[v] = [id |-> m, dest |-> d]
      BY <2>1, Zenon
    <3> QED
      BY ONLY <3>1, SMT
  <2>4. \A i \in 1 .. Len(inNode'[n]) : m <= inNode'[n][i].id
    BY <2>1, <2>2, BufferIds
  <2> QED
    BY <2>1, <2>2, <2>3, <2>4 DEF v, m, n, d
<1>3. ASSUME NEW v \in Queued(Picked), \A p \in Served : p[1] # v
      PROVE  /\ v \in Queued(niVc) /\ Picked[v] = niVc[v] /\ Ages[v] = older[v]
  <2>1. v \in InjVcs /\ Picked[v] # Empty
    BY DEF Queued
  <2> QED
    BY <1>3, <2>1, PickedShape DEF Queued
<1>4. ASSUME NEW v \in Queued(niVc)
      PROVE  LET m == niVc[v].id
                 n == Messages[m].vnet IN
             /\ m \in 1 .. unsent - 1 /\ m \in Ids /\ n \in Vnets
             /\ niVc[v].dest \in Messages[m].dests
             /\ get_vnet(v) = InjVnet(n)
             /\ \A i \in 1 .. Len(inNode[n]) : m <= inNode[n][i].id
             /\ \A i \in 1 .. Len(inNode'[n]) : m <= inNode'[n][i].id
  <2> DEFINE m == niVc[v].id
             n == Messages[m].vnet
  <2>1. /\ m \in 1 .. unsent - 1
        /\ niVc[v].dest \in Messages[m].dests
        /\ get_vnet(v) = InjVnet(n)
        /\ \A i \in 1 .. Len(inNode[n]) : m <= inNode[n][i].id
    BY DEF QueuedFlits
  <2> HIDE DEF m
  <2>2. m \in Ids
    BY <1>1, <2>1
  <2>3. n \in Vnets
    BY <1>0, <2>2, MessageShape
  <2> HIDE DEF n
  <2>4. \A i \in 1 .. Len(inNode'[n]) : m <= inNode'[n][i].id
    BY <2>1, <2>3, BufferIds
  <2> QED
    BY <2>1, <2>2, <2>3, <2>4 DEF m, n
<1>5. ASSUME NEW v \in Queued(Picked)
      PROVE  LET m == Picked[v].id IN
             /\ m \in 1 .. unsent - 1 /\ m \in Ids
             /\ Picked[v].dest \in Messages[m].dests
             /\ get_vnet(v) = InjVnet(Messages[m].vnet)
             /\ \A i \in 1 .. Len(inNode'[Messages[m].vnet]) :
                  m <= inNode'[Messages[m].vnet][i].id
  <2>1. CASE \A p \in Served : p[1] # v
    <3>1. v \in Queued(niVc) /\ Picked[v] = niVc[v]
      BY <1>3, <2>1
    <3> QED
      BY <1>4, <3>1, Zenon
  <2>2. CASE \E p \in Served : p[1] = v
    <3>1. PICK p \in Served : p[1] = v
      BY <2>2
    <3> QED
      BY <1>2, <3>1, Zenon
  <2> QED
    BY <2>1, <2>2
<1>6. ASSUME NEW v \in Queued(Picked), NEW w \in Queued(Picked),
             Messages[Picked[v].id].vnet = Messages[Picked[w].id].vnet,
             Picked[v].id < Picked[w].id
      PROVE  v \in Ages[w]
  <2>0. Picked[v].id \in Nat /\ Picked[w].id \in Nat
    <3>1. \A x \in Ids : x \in Nat
      BY <1>1
    <3> QED
      BY <1>5, <3>1, Zenon
  <2>1. CASE \E p \in Served : p[1] = w
    <3>1. PICK p \in Served : p[1] = w
      BY <2>1
    <3>2. Ages[w] = Queued(niVc) /\ Picked[w].id = p[2].id
      BY <1>2, <3>1, Zenon
    <3>3. ASSUME NEW q \in Served, q[1] = v PROVE FALSE
      <4>1. /\ Picked[v].id = q[2].id /\ q[2].vnet = Messages[q[2].id].vnet
            /\ q[2].id = inNode[q[2].vnet][1].id
        BY <1>2, <3>3, Zenon
      <4>2. p[2].vnet = Messages[p[2].id].vnet /\ p[2].id = inNode[p[2].vnet][1].id
        BY <1>2, Zenon
      <4>3. Picked[v].id = Picked[w].id
        BY <1>6, <3>2, <4>1, <4>2
      <4> QED
        BY <1>6, <2>0, <4>3
    <3> QED
      BY <1>3, <3>2, <3>3
  <2>2. CASE \A p \in Served : p[1] # w
    <3>1. w \in Queued(niVc) /\ Picked[w] = niVc[w] /\ Ages[w] = older[w]
      BY <1>3, <2>2
    <3>2. ASSUME NEW q \in Served, q[1] = v PROVE FALSE
      <4>1. /\ Picked[v].id = q[2].id /\ q[2].vnet = Messages[q[2].id].vnet
            /\ q[2].id = inNode[q[2].vnet][1].id /\ 1 \in 1 .. Len(inNode[q[2].vnet])
        BY <1>2, <3>2, Zenon
      <4>2. \A i \in 1 .. Len(inNode[Messages[Picked[w].id].vnet]) :
              Picked[w].id <= inNode[Messages[Picked[w].id].vnet][i].id
        BY <1>4, <3>1, Zenon
      <4>3. Messages[Picked[w].id].vnet = q[2].vnet
        BY <1>6, <4>1
      <4>4. Picked[w].id <= Picked[v].id
        BY <4>1, <4>2, <4>3
      <4> QED
        BY <1>6, <2>0, <4>4
    <3>3. v \in Queued(niVc) /\ Picked[v] = niVc[v]
      BY <1>3, <3>2
    <3> QED
      BY <1>6, <3>1, <3>3 DEF OlderFirst
  <2> QED
    BY <2>1, <2>2
<1> QED
  BY <1>5, <1>6, Zenon

-----------------------------------------------------------------------------
\* The injection half of a wakeup preserves the parts of the invariant.
InjectionInv ==
  /\ InjectionTypes
  /\ VcsHeld
  /\ InOrder
  /\ MadeOnce
  /\ QueuedFlits
  /\ KeptOnce
  /\ OlderFirst
  /\ LeftBefore

\* The flit that leaves, if one does.
LEMMA OutShape ==
  ASSUME InjectionInv, InjectHalf
  PROVE  /\ \/ Out = NoVc
            \/ Out \in InjVcs /\ Out \in Queued(Picked) /\ IsCandidate(Picked, Ages, Out)
         /\ Out \notin InjVcs => Out = NoVc /\ sent' = sent
         /\ Out \in InjVcs =>
              LET m == Picked[Out].id
                  n == Messages[m].vnet
                  d == Picked[Out].dest IN
              /\ m \in Ids /\ m \in 1 .. unsent - 1 /\ n \in Vnets
              /\ d \in Messages[m].dests /\ d \in Dests
              /\ sent' = sent \union { <<m, d>> }
<1>0. load \in Workloads /\ Out = OutVc(Picked, Ages)
  BY DEF InjectionInv, InjectionTypes, Out
<1>1. Out \in InjVcs \union {NoVc} /\ (Out # NoVc => IsCandidate(Picked, Ages, Out))
  BY <1>0, OutIsCandidate DEF InjectionInv
<1>2. NoVc \notin InjVcs
  BY AllVcs
<1>3. Out = NoVc \/ (Out \in InjVcs /\ Out \in Queued(Picked) /\ IsCandidate(Picked, Ages, Out))
  BY <1>1 DEF IsCandidate, Queued
<1>4. Out = NoVc => sent' = sent
  BY InjectStep
<1>5. ASSUME Out \in InjVcs
      PROVE  LET m == Picked[Out].id
                  n == Messages[m].vnet
                  d == Picked[Out].dest IN
              /\ m \in Ids /\ m \in 1 .. unsent - 1 /\ n \in Vnets
              /\ d \in Messages[m].dests /\ d \in Dests
              /\ sent' = sent \union { <<m, d>> }
  <2>1. Out # NoVc /\ Out \in Queued(Picked)
    BY <1>2, <1>3, <1>5
  <2> DEFINE m == Picked[Out].id
             n == Messages[m].vnet
             d == Picked[Out].dest
  <2>2. sent' = sent \union { <<m, d>> }
    BY <2>1, InjectStep
  <2>3. m \in Ids /\ m \in 1 .. unsent - 1 /\ d \in Messages[m].dests
    BY <2>1, PickedFlits DEF InjectionInv
  <2>4. n \in Vnets /\ d \in Dests
    BY <1>0, <2>3, MessageShape
  <2> QED
    BY <2>2, <2>3, <2>4
<1> QED
  BY <1>1, <1>2, <1>3, <1>4, <1>5

\* The types, ...
LEMMA InjectTypes ==
  ASSUME InjectionInv, InjectHalf, VcsHeld', UNCHANGED load
  PROVE  InjectionTypes'
<1>0. /\ load \in Workloads /\ load' = load
      /\ Messages' = Messages /\ Ids' = Ids /\ Dests' = Dests
  BY DEF InjectionInv, InjectionTypes, Messages, Ids, Dests
<1>1. lock' \in BOOLEAN /\ unsent' \in 1 .. Len(Messages) + 1
  BY InjectStep DEF InjectionInv, InjectionTypes
<1>2. inNode' \in [Vnets -> Seq(Buffered)]
  <2>1. inNode' = [n \in Vnets |-> inNode'[n]]
    BY InjectStep
  <2>2. \A n \in Vnets : inNode'[n] \in Seq(Buffered)
    BY NewQueue DEF InjectionInv
  <2> QED
    BY <2>1, <2>2
<1>3. niVc' \in [InjVcs -> [id: Ids \union {0}, dest: Dests \union {0}]]
  <2>1. Picked \in [InjVcs -> [id: Ids \union {0}, dest: Dests \union {0}]]
    BY PickedShape DEF InjectionInv
  <2>2. Empty \in [id: Ids \union {0}, dest: Dests \union {0}]
    BY DEF Empty
  <2> QED
    BY <2>1, <2>2, InjectStep
<1>4. outState' \in [InjVcs -> {"IDLE", "ACTIVE"}]
  <2>1. outState' = [v \in InjVcs |-> IF v = creditIn THEN "IDLE" ELSE
                        IF Picked[v] # niVc[v] THEN "ACTIVE" ELSE outState[v]]
    BY InjectStep
  <2> QED
    BY <2>1 DEF InjectionInv, InjectionTypes
<1>5. outCred' \in [InjVcs -> 0 .. BufDepth]
  <2>1. BufDepth \in Nat \ {0}
    BY InterfaceAssumption
  <2>2. outCred' = [v \in InjVcs |-> outCred'[v]]
    BY InjectStep
  <2>3. \A v \in InjVcs : outCred'[v] = BufDepth - 1 \/ outCred'[v] = BufDepth
    BY DEF VcsHeld
  <2>4. \A v \in InjVcs : outCred'[v] \in 0 .. BufDepth
    BY <2>1, <2>3
  <2> QED
    BY <2>2, <2>4
<1>6. older' \in [InjVcs -> SUBSET InjVcs]
  <2>1. Ages \in [InjVcs -> SUBSET InjVcs]
    BY PickedShape DEF InjectionInv
  <2> QED
    BY <2>1, InjectStep
<1>7. vcAlloc' \in [Vnets -> 0 .. VcPerVnet - 1]
  BY AllocInRange, InjectStep DEF InjectionInv
<1>8. vcRound' \in InjVcs /\ creditIn' \in InjVcs \union {NoVc}
  <2> DEFINE total == NumVnets * VcPerVnet
  <2>1. total \in Nat \ {0} /\ InjVcs = 0 .. total - 1 /\ vcRound \in InjVcs
    BY AllVcs DEF InjectionInv, InjectionTypes
  <2>2. vcRound' = (vcRound + 1) % total /\ creditIn' = NoVc
    BY InjectStep DEF NextRound
  <2> HIDE DEF total
  <2> QED
    BY <2>1, <2>2
<1>9. flits' \in [Ids \X Dests -> Nat]
  <2>1. flits' = [x \in Ids \X Dests |-> flits'[x]]
    BY InjectStep DEF InjectionInv, InjectionTypes
  <2>2. \A m \in Ids, d \in Dests : flits'[<<m, d>>] \in Nat
    <3> TAKE m \in Ids, d \in Dests
    <3>1. flits[<<m, d>>] \in Nat /\ (flits'[<<m, d>>] = flits[<<m, d>>] + 1
                                     \/ flits'[<<m, d>>] = flits[<<m, d>>])
      BY NewFlits, Zenon DEF InjectionInv
    <3> QED
      BY <3>1
  <2>3. \A x \in Ids \X Dests : flits'[x] \in Nat
    BY <2>2
  <2> QED
    BY <2>1, <2>3
<1>10. sent' \subseteq Ids \X Dests
  <2>1. sent \subseteq Ids \X Dests
    BY DEF InjectionInv, InjectionTypes
  <2>2. CASE Out \in InjVcs
    <3> DEFINE m == Picked[Out].id
               d == Picked[Out].dest
    <3>1. m \in Ids /\ d \in Dests /\ sent' = sent \union { <<m, d>> }
      BY <2>2, OutShape
    <3> HIDE DEF m, d
    <3> QED
      BY <2>1, <3>1
  <2>3. CASE Out \notin InjVcs
    BY <2>1, <2>3, OutShape
  <2> QED
    BY <2>2, <2>3
<1> QED
  BY <1>0, <1>1, <1>2, <1>3, <1>4, <1>5, <1>6, <1>7, <1>8, <1>9, <1>10
  DEF InjectionTypes, Buffered

\* ... the state and credits of the VCs, with the credit that came in and the
\* one that the departing flit takes, ...
LEMMA InjectVcs ==
  ASSUME InjectionInv, InjectHalf
  PROVE  VcsHeld'
<1>1. BufDepth \in Nat \ {0}
  BY InterfaceAssumption
<1>2. /\ creditIn # NoVc => /\ creditIn \in InjVcs /\ outState[creditIn] = "ACTIVE"
                            /\ niVc[creditIn] = Empty
      /\ NoVc \notin InjVcs
  BY AllVcs DEF InjectionInv, VcsHeld, AtRouter
<1>3. Out \in InjVcs => Picked[Out] # Empty
  BY OutShape, <1>2 DEF Queued
<1>4. ASSUME NEW v \in InjVcs
      PROVE  /\ outState'[v] = "IDLE" => niVc'[v] = Empty
             /\ outCred'[v] = IF outState'[v] = "ACTIVE" /\ niVc'[v] = Empty
                              THEN BufDepth - 1 ELSE BufDepth
  <2>1. /\ niVc'[v] = IF v = Out THEN Empty ELSE Picked[v]
        /\ outState'[v] = IF v = creditIn THEN "IDLE" ELSE
                          IF Picked[v] # niVc[v] THEN "ACTIVE" ELSE outState[v]
        /\ outCred'[v] = outCred[v] - (IF v = Out THEN 1 ELSE 0)
                                    + (IF v = creditIn THEN 1 ELSE 0)
    BY InjectStep
  <2>2. /\ outState[v] = "IDLE" => niVc[v] = Empty
        /\ outState[v] \in {"IDLE", "ACTIVE"}
        /\ outCred[v] = IF outState[v] = "ACTIVE" /\ niVc[v] = Empty
                        THEN BufDepth - 1 ELSE BufDepth
    BY DEF InjectionInv, InjectionTypes, VcsHeld
  <2>3. CASE \E p \in Served : p[1] = v
    <3>1. PICK p \in Served : p[1] = v
      BY <2>3
    <3>2. outState[v] = "IDLE"
      BY <3>1, ServedPairs DEF InjectionInv
    <3>3. niVc[v] = Empty /\ Picked[v] # Empty
      BY <3>1, PickedShape DEF InjectionInv
    <3>4. v # creditIn
      BY <1>2, <3>2
    <3> QED
      BY <1>1, <2>1, <2>2, <3>2, <3>3, <3>4
  <2>4. CASE \A p \in Served : p[1] # v
    <3>1. Picked[v] = niVc[v]
      BY <2>4, PickedShape DEF InjectionInv
    <3>2. CASE v = creditIn
      <4>1. v # Out
        BY <1>2, <1>3, <3>1, <3>2
      <4>2. outState'[v] = "IDLE" /\ niVc'[v] = Empty /\ outCred'[v] = (BufDepth - 1) - 0 + 1
        BY <1>2, <2>1, <2>2, <3>1, <3>2, <4>1
      <4> QED
        BY <1>1, <4>2
    <3>3. CASE v # creditIn
      <4>1. CASE v = Out
        BY <1>1, <1>3, <2>1, <2>2, <3>1, <3>3, <4>1
      <4>2. CASE v # Out
        BY <1>1, <2>1, <2>2, <3>1, <3>3, <4>2
      <4> QED
        BY <4>1, <4>2
    <3> QED
      BY <3>2, <3>3
  <2> QED
    BY <2>3, <2>4
<1>5. creditIn' = NoVc
  BY InjectStep
<1> QED
  BY <1>4, <1>5 DEF VcsHeld

\* ... the order of the buffers, ...
LEMMA InjectInOrder ==
  ASSUME InjectionInv, InjectHalf, UNCHANGED load
  PROVE  InOrder'
<1>0. Messages' = Messages /\ unsent' = unsent
  BY InjectStep DEF Messages
<1>1. ASSUME NEW n \in Vnets, NEW i \in 1 .. Len(inNode'[n])
      PROVE  /\ inNode'[n][i].id < unsent
             /\ Messages[inNode'[n][i].id].vnet = n
             /\ inNode'[n][i].dests \subseteq Messages[inNode'[n][i].id].dests
  <2>1. PICK j \in 1 .. Len(inNode[n]) :
               /\ inNode'[n][i].id = inNode[n][j].id
               /\ inNode'[n][i].dests \subseteq inNode[n][j].dests
    BY BufferIds DEF InjectionInv
  <2>2. /\ inNode[n][j].id < unsent
        /\ Messages[inNode[n][j].id].vnet = n
        /\ inNode[n][j].dests \subseteq Messages[inNode[n][j].id].dests
    BY DEF InjectionInv, InOrder
  <2> QED
    BY <2>1, <2>2
<1>2. ASSUME NEW n \in Vnets, NEW i \in 1 .. Len(inNode'[n]), NEW j \in 1 .. Len(inNode'[n]), i < j
      PROVE  inNode'[n][i].id < inNode'[n][j].id
  <2>1. PICK off \in {0, 1} : Shifted(inNode[n], inNode'[n], Done(n), off)
    BY NewQueue DEF InjectionInv
  <2>2. /\ i + off \in 1 .. Len(inNode[n]) /\ inNode'[n][i].id = inNode[n][i + off].id
        /\ j + off \in 1 .. Len(inNode[n]) /\ inNode'[n][j].id = inNode[n][j + off].id
    BY <2>1 DEF Shifted
  <2>3. i + off < j + off
    BY <1>2
  <2>4. inNode[n][i + off].id < inNode[n][j + off].id
    BY <2>2, <2>3 DEF InjectionInv, InOrder
  <2> QED
    BY <2>2, <2>4
<1> QED
  BY <1>0, <1>1, <1>2 DEF InOrder

\* ... one flit for each destination taken off a message and for no other, ...
LEMMA InjectMadeOnce ==
  ASSUME InjectionInv, InjectHalf, UNCHANGED load
  PROVE  MadeOnce'
<1>0. /\ load \in Workloads
      /\ Messages' = Messages /\ Ids' = Ids /\ Dests' = Dests /\ unsent' = unsent
  BY InjectStep DEF Messages, Ids, Dests, InjectionInv, InjectionTypes
<1> SUFFICES ASSUME NEW m \in Ids, NEW d \in Messages[m].dests
             PROVE  flits'[<<m, d>>] = IF Pending(m, d)' THEN 0 ELSE 1
  BY <1>0 DEF MadeOnce
<1> DEFINE n == Messages[m].vnet
           q == inNode[n]
           r == inNode'[n]
<1>1. n \in Vnets /\ d \in Dests
  BY <1>0, MessageShape
<1>2. /\ Pending(m, d) <=> m >= unsent \/ \E i \in 1 .. Len(q) : q[i].id = m /\ d \in q[i].dests
      /\ Pending(m, d)' <=> m >= unsent \/ \E i \in 1 .. Len(r) : r[i].id = m /\ d \in r[i].dests
  BY <1>0 DEF Pending
<1>3. flits[<<m, d>>] = IF Pending(m, d) THEN 0 ELSE 1
  BY DEF InjectionInv, MadeOnce
<1>4. PICK off \in {0, 1} : Shifted(q, r, Done(n), off)
  BY <1>1, NewQueue DEF InjectionInv
<1>5. /\ Len(r) = Len(q) - off /\ (off = 1 => Len(q) >= 1 /\ q[1].dests \subseteq Done(n))
      /\ \A i \in 1 .. Len(r) :
           /\ i + off \in 1 .. Len(q) /\ r[i].id = q[i + off].id
           /\ r[i].dests = IF i + off = 1 THEN q[1].dests \ Done(n) ELSE q[i + off].dests
  BY <1>4 DEF Shifted
<1>6. Len(q) \in Nat /\ \A i, j \in 1 .. Len(q) : i < j => q[i].id < q[j].id
  <2>1. q \in Seq(Buffered)
    BY <1>1 DEF InjectionInv, InjectionTypes, Buffered
  <2>2. Len(q) \in Nat
    BY <2>1, LenProperties
  <2> QED
    BY <1>1, <2>2 DEF InjectionInv, InOrder
<1>7. \A i \in 1 .. Len(q) : q[i].id \in Nat
  BY <1>1, BufferIds DEF InjectionInv
<1>8. CASE \E p \in Served : p[2].id = m /\ p[2].dest = d
  <2>1. PICK p \in Served : p[2].id = m /\ p[2].dest = d
    BY <1>8
  <2>2. /\ m \in 1 .. unsent - 1 /\ p[2].vnet = n
        /\ m = q[1].id /\ 1 \in 1 .. Len(q)
    BY <2>1, PickedShape DEF InjectionInv
  <2>3. d \in Done(n)
    BY <2>1, <2>2 DEF Done
  <2>4. d \in q[1].dests
    <3>1. d \in Head(q).dests /\ isReady(q)
      BY <2>1, <2>2, ServedPairs DEF InjectionInv
    <3>2. Head(q) = q[1]
      BY <1>1, <3>1, HeadShape DEF InjectionInv
    <3> QED
      BY <3>1, <3>2
  <2>5. Pending(m, d)
    BY <1>2, <2>2, <2>4
  <2>6. ~(m >= unsent)
    BY <2>2 DEF InjectionInv, InjectionTypes
  <2>7. ASSUME NEW i \in 1 .. Len(r), r[i].id = m, d \in r[i].dests
        PROVE  FALSE
    <3>1. i + off \in 1 .. Len(q) /\ q[i + off].id = m
      BY <1>5, <2>7
    <3>2. i + off = 1 \/ 1 < i + off
      BY <3>1
    <3>3. i + off = 1
      <4> SUFFICES ASSUME 1 < i + off PROVE FALSE
        BY <3>2
      <4>1. q[1].id < q[i + off].id
        BY <1>6, <2>2, <3>1
      <4>2. q[1].id \in Nat
        BY <1>7, <2>2
      <4> QED
        BY <2>2, <3>1, <4>1, <4>2
    <3>4. r[i].dests = q[1].dests \ Done(n)
      BY <1>5, <3>3
    <3> QED
      BY <2>3, <2>7, <3>4
  <2>8. ~ Pending(m, d)'
    BY <1>2, <2>6, <2>7
  <2>9. flits'[<<m, d>>] = flits[<<m, d>>] + 1
    BY <1>1, <1>8, NewFlits DEF InjectionInv
  <2> QED
    BY <1>3, <2>5, <2>8, <2>9
<1>9. CASE ~(\E p \in Served : p[2].id = m /\ p[2].dest = d)
  <2>1. flits'[<<m, d>>] = flits[<<m, d>>]
    BY <1>1, <1>9, NewFlits DEF InjectionInv
  <2>2. q[1].id = m /\ d \in Done(n) => FALSE
    <3> SUFFICES ASSUME q[1].id = m, d \in Done(n) PROVE FALSE
      OBVIOUS
    <3>1. PICK p \in Served : p[2].vnet = n /\ p[2].dest = d
      BY DEF Done
    <3>2. p[2].id = q[1].id
      BY <3>1, PickedShape DEF InjectionInv
    <3> QED
      BY <1>9, <3>1, <3>2
  <2>3. ASSUME NEW i \in 1 .. Len(r), r[i].id = m, d \in r[i].dests
        PROVE  Pending(m, d)
    <3>1. i + off \in 1 .. Len(q) /\ q[i + off].id = m /\ d \in q[i + off].dests
      BY <1>5, <2>3
    <3> QED
      BY <1>2, <3>1
  <2>4. ASSUME NEW i \in 1 .. Len(q), q[i].id = m, d \in q[i].dests
        PROVE  Pending(m, d)'
    <3>1. i - off \in 1 .. Len(r) /\ (i - off) + off = i
      <4>1. i = 1 => off = 0
        BY <1>5, <2>2, <2>4
      <4> QED
        BY <1>5, <1>6, <4>1
    <3>2. r[i - off].id = m
      BY <1>5, <2>4, <3>1
    <3>3. r[i - off].dests = IF i = 1 THEN q[1].dests \ Done(n) ELSE q[i].dests
      BY <1>5, <3>1
    <3>4. d \in r[i - off].dests
      BY <2>2, <2>4, <3>3
    <3> QED
      BY <1>2, <3>1, <3>2, <3>4
  <2>5. Pending(m, d)' <=> Pending(m, d)
    BY <1>2, <2>3, <2>4
  <2> QED
    BY <1>3, <2>1, <2>5
<1> QED
  BY <1>8, <1>9

\* What is queued after the wakeup was queued when the flit left.
LEMMA StillQueued ==
  ASSUME InjectionInv, InjectHalf, NEW v \in Queued(niVc)'
  PROVE  v \in InjVcs /\ v # Out /\ v \in Queued(Picked) /\ niVc'[v] = Picked[v]
<1>1. v \in InjVcs /\ niVc'[v] # Empty
  BY DEF Queued
<1>2. niVc'[v] = IF v = Out THEN Empty ELSE Picked[v]
  BY <1>1, InjectStep
<1> QED
  BY <1>1, <1>2 DEF Queued

\* ... the age of the queued flits, ...
LEMMA InjectQueued ==
  ASSUME InjectionInv, InjectHalf, UNCHANGED load
  PROVE  QueuedFlits' /\ OlderFirst'
<1>0. Messages' = Messages /\ unsent' = unsent /\ \A n : InjVnet(n)' = InjVnet(n)
  BY InjectStep DEF Messages, InjVnet
<1>1. ASSUME NEW v \in Queued(niVc)'
      PROVE  LET m == niVc'[v].id IN
             /\ m \in 1 .. unsent - 1
             /\ niVc'[v].dest \in Messages[m].dests
             /\ get_vnet(v) = InjVnet(Messages[m].vnet)
             /\ \A i \in 1 .. Len(inNode'[Messages[m].vnet]) :
                  m <= inNode'[Messages[m].vnet][i].id
  <2>1. v \in Queued(Picked) /\ niVc'[v] = Picked[v]
    BY StillQueued
  <2> QED
    BY <2>1, PickedFlits DEF InjectionInv
<1>2. ASSUME NEW v \in Queued(niVc)', NEW w \in Queued(niVc)',
             Messages[niVc'[v].id].vnet = Messages[niVc'[w].id].vnet,
             niVc'[v].id < niVc'[w].id
      PROVE  v \in older'[w]
  <2>1. /\ v \in Queued(Picked) /\ niVc'[v] = Picked[v] /\ v # Out
        /\ w \in Queued(Picked) /\ niVc'[w] = Picked[w] /\ w # Out /\ w \in InjVcs
    BY StillQueued
  <2>2. v \in Ages[w]
    BY <1>2, <2>1, PickedFlits DEF InjectionInv
  <2>3. older'[w] = Ages[w] \ {Out}
    BY <2>1, InjectStep
  <2> QED
    BY <2>1, <2>2, <2>3
<1>3. QueuedFlits'
  BY <1>0, <1>1, Zenon DEF QueuedFlits
<1>4. OlderFirst'
  BY <1>0, <1>2, Zenon DEF OlderFirst
<1> QED
  BY <1>3, <1>4

\* KeptOnce holds of the flits after the messages are picked up, before one of
\* them leaves.
LEMMA PickedOnce ==
  ASSUME InjectionInv, InjectHalf, UNCHANGED load,
         NEW m \in Ids, NEW d \in Messages[m].dests
  PROVE  LET f == [id |-> m, dest |-> d] IN
         /\ \A v, w \in InjVcs : Picked[v] = f /\ Picked[w] = f => v = w
         /\ \A v \in InjVcs : Picked[v] = f => <<m, d>> \notin sent
         /\ flits'[<<m, d>>] = 1 <=> <<m, d>> \in sent \/ \E v \in InjVcs : Picked[v] = f
<1> DEFINE f == [id |-> m, dest |-> d]
<1>0. /\ load \in Workloads /\ Ids = 1 .. Len(Messages)
      /\ Messages' = Messages /\ Ids' = Ids
  BY MessageShape DEF Messages, Ids, InjectionInv, InjectionTypes
<1>1. d \in Dests
  BY <1>0, MessageShape
<1>2. /\ \A v, w \in InjVcs : niVc[v] = f /\ niVc[w] = f => v = w
      /\ \A v \in InjVcs : niVc[v] = f => <<m, d>> \notin sent
      /\ flits[<<m, d>>] = 1 <=> <<m, d>> \in sent \/ \E v \in InjVcs : niVc[v] = f
  BY DEF InjectionInv, KeptOnce
<1>3. ASSUME NEW v \in InjVcs, niVc[v] = f PROVE Picked[v] = f
  <2>1. niVc[v] # Empty
    <3>1. niVc[v].id = m /\ Empty.id = 0
      BY <1>3 DEF Empty
    <3> QED
      BY <1>0, <3>1
  <2>2. \A p \in Served : p[1] # v
    BY <2>1, PickedShape DEF InjectionInv
  <2> QED
    BY <1>3, <2>2, PickedShape DEF InjectionInv
<1>4. ASSUME NEW v \in InjVcs, Picked[v] = f, niVc[v] # f
      PROVE  \E p \in Served : p[1] = v /\ p[2].id = m /\ p[2].dest = d
  <2>1. PICK p \in Served : p[1] = v
    BY <1>4, PickedShape DEF InjectionInv
  <2> DEFINE i == p[2].id
             e == p[2].dest
  <2>2. [id |-> i, dest |-> e] = [id |-> m, dest |-> d]
    BY <1>4, <2>1, PickedShape DEF InjectionInv
  <2> HIDE DEF i, e
  <2>3. i = m /\ e = d
    BY <2>2
  <2> QED
    BY <2>1, <2>3 DEF i, e
<1> HIDE DEF f
<1>5. CASE \E p \in Served : p[2].id = m /\ p[2].dest = d
  <2>1. PICK p \in Served : p[2].id = m /\ p[2].dest = d
    BY <1>5
  <2>2. p[1] \in InjVcs /\ Picked[p[1]] = f
    BY <2>1, ServedPairs, PickedShape DEF InjectionInv, f
  <2>3. flits[<<m, d>>] \in Nat /\ flits'[<<m, d>>] = flits[<<m, d>>] + 1
    BY <1>1, <1>5, NewFlits DEF InjectionInv
  <2>4. flits'[<<m, d>>] = 0 \/ flits'[<<m, d>>] = 1
    BY <1>0, InjectMadeOnce DEF MadeOnce
  <2>5. flits[<<m, d>>] # 1 /\ flits'[<<m, d>>] = 1
    BY <2>3, <2>4
  <2>6. <<m, d>> \notin sent /\ \A v \in InjVcs : niVc[v] # f
    BY <1>2, <2>5
  <2>7. ASSUME NEW v \in InjVcs, Picked[v] = f PROVE v = p[1]
    <3>1. PICK q \in Served : q[1] = v /\ q[2].id = m /\ q[2].dest = d
      BY <1>4, <2>6, <2>7
    <3>2. p[2].vnet = Messages[m].vnet /\ q[2].vnet = Messages[m].vnet
      BY <2>1, <3>1, PickedShape DEF InjectionInv
    <3>3. q = p
      BY <2>1, <3>1, <3>2, ServedPairs DEF InjectionInv
    <3> QED
      BY <3>1, <3>3
  <2> QED
    BY <2>2, <2>5, <2>6, <2>7 DEF f
<1>6. CASE ~(\E p \in Served : p[2].id = m /\ p[2].dest = d)
  <2>1. flits'[<<m, d>>] = flits[<<m, d>>]
    BY <1>1, <1>6, NewFlits DEF InjectionInv
  <2>2. \A v \in InjVcs : Picked[v] = f <=> niVc[v] = f
    BY <1>3, <1>4, <1>6
  <2> QED
    BY <1>2, <2>1, <2>2 DEF f
<1> QED
  BY <1>5, <1>6

\* ... each flit in one VC or gone, ...
LEMMA InjectKept ==
  ASSUME InjectionInv, InjectHalf, UNCHANGED load
  PROVE  KeptOnce'
<1>0. /\ load \in Workloads /\ Ids = 1 .. Len(Messages)
      /\ Messages' = Messages /\ Ids' = Ids
  BY MessageShape DEF Messages, Ids, InjectionInv, InjectionTypes
<1>1. ASSUME NEW m \in Ids, NEW d \in Messages[m].dests
      PROVE  LET f == [id |-> m, dest |-> d] IN
             /\ \A v, w \in InjVcs : niVc'[v] = f /\ niVc'[w] = f => v = w
             /\ \A v \in InjVcs : niVc'[v] = f => <<m, d>> \notin sent'
             /\ flits'[<<m, d>>] = 1 <=> <<m, d>> \in sent' \/ \E v \in InjVcs : niVc'[v] = f
  <2> DEFINE f == [id |-> m, dest |-> d]
  <2>1. /\ \A v, w \in InjVcs : Picked[v] = f /\ Picked[w] = f => v = w
        /\ \A v \in InjVcs : Picked[v] = f => <<m, d>> \notin sent
        /\ flits'[<<m, d>>] = 1 <=> <<m, d>> \in sent \/ \E v \in InjVcs : Picked[v] = f
    BY PickedOnce
  <2>2. f # Empty
    <3>1. f.id = m /\ Empty.id = 0
      BY DEF Empty
    <3> QED
      BY <1>0, <3>1
  <2>3. \A v \in InjVcs : niVc'[v] = f <=> v # Out /\ Picked[v] = f
    BY <2>2, InjectStep
  <2>4. <<m, d>> \in sent' <=> <<m, d>> \in sent \/ (Out \in InjVcs /\ Picked[Out] = f)
    <3>1. CASE Out \notin InjVcs
      BY <3>1, OutShape
    <3>2. CASE Out \in InjVcs
      <4> DEFINE i == Picked[Out].id
                 e == Picked[Out].dest
      <4>1. sent' = sent \union { <<i, e>> }
        BY <3>2, OutShape
      <4>2. Picked[Out] = f <=> i = m /\ e = d
        <5>1. Picked[Out] \in [id: Ids \union {0}, dest: Dests \union {0}]
          BY <3>2, PickedShape DEF InjectionInv
        <5> QED
          BY <5>1
      <4> HIDE DEF i, e, f
      <4>3. <<i, e>> = <<m, d>> <=> i = m /\ e = d
        OBVIOUS
      <4> QED
        BY <3>2, <4>1, <4>2, <4>3
    <3> QED
      BY <3>1, <3>2
  <2> HIDE DEF f
  <2> QED
    BY <2>1, <2>3, <2>4 DEF f
<1> QED
  BY <1>0, <1>1, Zenon DEF KeptOnce

\* What has left, before and after.
LEMMA SentStep ==
  ASSUME InjectionInv, InjectHalf, NEW x \in sent'
  PROVE  \/ x \in sent /\ x[1] \in Ids /\ Messages[x[1]].vnet \in Vnets
         \/ /\ Out \in InjVcs /\ Out \in Queued(Picked)
            /\ x = <<Picked[Out].id, Picked[Out].dest>>
            /\ x[1] = Picked[Out].id /\ x[2] = Picked[Out].dest
            /\ x[1] \in Ids /\ x[1] \in 1 .. unsent - 1
<1>1. CASE x \in sent
  <2>1. x[1] \in Ids /\ load \in Workloads
    BY <1>1 DEF InjectionInv, InjectionTypes
  <2> QED
    BY <1>1, <2>1, MessageShape
<1>2. CASE x \notin sent
  <2> DEFINE m == Picked[Out].id
             d == Picked[Out].dest
  <2>1. Out \in InjVcs
    BY <1>2, OutShape
  <2>2. sent' = sent \union { <<m, d>> } /\ m \in Ids /\ m \in 1 .. unsent - 1
    BY <2>1, OutShape
  <2>3. Out \in Queued(Picked)
    BY <2>1, OutShape, AllVcs
  <2> HIDE DEF m, d
  <2>4. x = <<m, d>> /\ x[1] = m /\ x[2] = d
    BY <1>2, <2>2
  <2> QED
    BY <2>1, <2>2, <2>3, <2>4 DEF m, d
<1> QED
  BY <1>1, <1>2

\* ... and nothing gone that is younger than what is in the buffer.
LEMMA InjectLeft ==
  ASSUME InjectionInv, InjectHalf, UNCHANGED load
  PROVE  LeftBefore'
<1>0. Messages' = Messages /\ unsent' = unsent /\ unsent \in Nat
  BY InjectStep, MessageShape DEF Messages, InjectionInv, InjectionTypes
<1> SUFFICES ASSUME NEW x \in sent'
             PROVE  /\ x[1] < unsent
                    /\ \A i \in 1 .. Len(inNode'[Messages[x[1]].vnet]) :
                         x[1] <= inNode'[Messages[x[1]].vnet][i].id
  BY <1>0 DEF LeftBefore
<1>1. CASE x \in sent /\ Messages[x[1]].vnet \in Vnets
  <2> DEFINE n == Messages[x[1]].vnet
  <2>1. x[1] < unsent /\ \A i \in 1 .. Len(inNode[n]) : x[1] <= inNode[n][i].id
    BY <1>1 DEF InjectionInv, LeftBefore
  <2>2. n \in Vnets
    BY <1>1
  <2> HIDE DEF n
  <2>3. \A i \in 1 .. Len(inNode'[n]) : x[1] <= inNode'[n][i].id
    BY <2>1, <2>2, BufferIds DEF InjectionInv
  <2> QED
    BY <2>1, <2>3 DEF n
<1>2. CASE /\ Out \in Queued(Picked) /\ x[1] = Picked[Out].id
           /\ x[1] \in 1 .. unsent - 1
  <2>1. \A i \in 1 .. Len(inNode'[Messages[x[1]].vnet]) :
          x[1] <= inNode'[Messages[x[1]].vnet][i].id
    BY <1>2, PickedFlits DEF InjectionInv
  <2> QED
    BY <1>0, <1>2, <2>1
<1> QED
  BY <1>1, <1>2, SentStep

\* The whole injection half.
LEMMA InjectHalfInv ==
  ASSUME InjectionInv, InjectHalf, UNCHANGED load
  PROVE  InjectionInv'
<1>1. VcsHeld'
  BY InjectVcs
<1>2. InjectionTypes'
  BY <1>1, InjectTypes
<1> QED
  BY <1>1, <1>2, InjectInOrder, InjectMadeOnce, InjectQueued, InjectKept, InjectLeft
  DEF InjectionInv

\* A step that injects nothing and leaves the messages in their buffers.
LEMMA QuietInv ==
  ASSUME InjectionInv,
         UNCHANGED <<load, unsent, niVc, outState, outCred, older, vcAlloc, vcRound, flits, sent>>,
         lock' \in BOOLEAN,
         creditIn' \in AtRouter \union {creditIn, NoVc},
         inNode' \in [Vnets -> Seq(Buffered)],
         \A n \in Vnets :
           /\ Len(inNode'[n]) = Len(inNode[n])
           /\ \A i \in 1 .. Len(inNode[n]) : /\ inNode'[n][i].id = inNode[n][i].id
                                             /\ inNode'[n][i].dests = inNode[n][i].dests
  PROVE  InjectionInv'
<1>0. /\ load \in Workloads
      /\ Messages' = Messages /\ Ids' = Ids /\ Dests' = Dests
      /\ AtRouter' = AtRouter /\ Queued(niVc)' = Queued(niVc)
      /\ \A n : InjVnet(n)' = InjVnet(n)
  BY DEF InjectionInv, InjectionTypes, Messages, Ids, Dests, AtRouter, Queued, InjVnet
<1>1. InjectionTypes'
  <2>1. creditIn' \in InjVcs \union {NoVc}
    BY DEF AtRouter, InjectionInv, InjectionTypes
  <2> QED
    BY <1>0, <2>1 DEF InjectionInv, InjectionTypes, Buffered
<1>2. VcsHeld'
  BY <1>0 DEF InjectionInv, VcsHeld
<1>3. InOrder'
  <2>1. \A n \in Vnets : \A i \in 1 .. Len(inNode[n]) :
          /\ inNode[n][i].id < unsent
          /\ Messages[inNode[n][i].id].vnet = n
          /\ inNode[n][i].dests \subseteq Messages[inNode[n][i].id].dests
          /\ \A j \in 1 .. Len(inNode[n]) : i < j => inNode[n][i].id < inNode[n][j].id
    BY DEF InjectionInv, InOrder
  <2> QED
    BY <1>0, <2>1 DEF InOrder
<1>4. MadeOnce'
  <2>1. ASSUME NEW m \in Ids, NEW d PROVE Pending(m, d)' <=> Pending(m, d)
    <3>1. Messages[m].vnet \in Vnets
      BY <1>0, MessageShape
    <3> QED
      BY <1>0, <3>1 DEF Pending
  <2> QED
    BY <1>0, <2>1 DEF InjectionInv, MadeOnce
<1>5. QueuedFlits'
  <2>1. ASSUME NEW v \in Queued(niVc)
        PROVE  LET m == niVc[v].id IN
               /\ m \in 1 .. unsent - 1
               /\ niVc[v].dest \in Messages[m].dests
               /\ get_vnet(v) = InjVnet(Messages[m].vnet)
               /\ \A i \in 1 .. Len(inNode'[Messages[m].vnet]) :
                    m <= inNode'[Messages[m].vnet][i].id
    <3> DEFINE m == niVc[v].id
               n == Messages[m].vnet
    <3>1. /\ m \in 1 .. unsent - 1 /\ niVc[v].dest \in Messages[m].dests
          /\ get_vnet(v) = InjVnet(n)
          /\ \A i \in 1 .. Len(inNode[n]) : m <= inNode[n][i].id
      BY DEF InjectionInv, QueuedFlits
    <3>2. m \in Ids
      BY <1>0, <3>1, MessageShape DEF InjectionInv, InjectionTypes
    <3>3. n \in Vnets
      BY <1>0, <3>2, MessageShape
    <3> QED
      BY <3>1, <3>3
  <2> QED
    BY <1>0, <2>1, Zenon DEF QueuedFlits
<1>6. KeptOnce' /\ OlderFirst'
  BY <1>0 DEF InjectionInv, KeptOnce, OlderFirst
<1>7. LeftBefore'
  <2>1. ASSUME NEW x \in sent
        PROVE  /\ x[1] < unsent
               /\ \A i \in 1 .. Len(inNode'[Messages[x[1]].vnet]) :
                    x[1] <= inNode'[Messages[x[1]].vnet][i].id
    <3>1. /\ x[1] < unsent
          /\ \A i \in 1 .. Len(inNode[Messages[x[1]].vnet]) :
               x[1] <= inNode[Messages[x[1]].vnet][i].id
      BY DEF InjectionInv, LeftBefore
    <3>2. x[1] \in Ids
      BY DEF InjectionInv, InjectionTypes
    <3>3. Messages[x[1]].vnet \in Vnets
      BY <1>0, <3>2, MessageShape
    <3> QED
      BY <3>1, <3>3
  <2> QED
    BY <1>0, <2>1 DEF LeftBefore
<1> QED
  BY <1>1, <1>2, <1>3, <1>4, <1>5, <1>6, <1>7 DEF InjectionInv

\* A step that does not touch the injection half.
LEMMA IdleInv ==
  ASSUME InjectionInv, UNCHANGED load,
         UNCHANGED <<unsent, inNode, niVc, outState, outCred, older, vcAlloc, vcRound,
                     creditIn, flits, sent>>,
         lock' \in BOOLEAN
  PROVE  InjectionInv'
<1>1. inNode \in [Vnets -> Seq(Buffered)]
  BY DEF InjectionInv, InjectionTypes, Buffered
<1> QED
  BY <1>1, QuietInv

\* A new cycle makes messages ready and may bring a credit.
LEMMA NiTickInv ==
  ASSUME InjectionInv, UNCHANGED load, NEW v, NEW c, NEW other, NiTick(v, c, other)
  PROVE  InjectionInv'
<1>1. /\ UNCHANGED <<unsent, niVc, outState, outCred, older, vcAlloc, vcRound, flits, sent>>
      /\ lock' = lock /\ creditIn' \in AtRouter \union {creditIn, NoVc}
      /\ inNode' = [n \in Vnets |-> [i \in DOMAIN inNode[n] |->
                                       [inNode[n][i] EXCEPT !.ready = TRUE]]]
  BY DEF NiTick
<1>2. ASSUME NEW n \in Vnets
      PROVE  /\ inNode'[n] \in Seq(Buffered) /\ Len(inNode'[n]) = Len(inNode[n])
             /\ \A i \in 1 .. Len(inNode[n]) : /\ inNode'[n][i].id = inNode[n][i].id
                                               /\ inNode'[n][i].dests = inNode[n][i].dests
  <2> DEFINE q == inNode[n]
  <2>1. q \in Seq(Buffered)
    BY DEF InjectionInv, InjectionTypes, Buffered
  <2>2. inNode'[n] = [i \in DOMAIN q |-> [q[i] EXCEPT !.ready = TRUE]]
    BY <1>1
  <2> HIDE DEF q
  <2>3. Len(q) \in Nat /\ DOMAIN q = 1 .. Len(q) /\ \A i \in 1 .. Len(q) : q[i] \in Buffered
    BY <2>1, LenProperties, ElementOfSeq
  <2>4. \A b \in Buffered : /\ [b EXCEPT !.ready = TRUE] \in Buffered
                            /\ [b EXCEPT !.ready = TRUE].id = b.id
                            /\ [b EXCEPT !.ready = TRUE].dests = b.dests
    BY DEF Buffered
  <2> DEFINE f(i) == [q[i] EXCEPT !.ready = TRUE]
  <2>5. \A i \in 1 .. Len(q) : f(i) \in Buffered /\ f(i).id = q[i].id /\ f(i).dests = q[i].dests
    BY <2>3, <2>4
  <2>6. inNode'[n] = [i \in 1 .. Len(q) |-> f(i)]
    BY <2>2, <2>3
  <2> HIDE DEF f
  <2>7. inNode'[n] \in Seq(Buffered) /\ Len(inNode'[n]) = Len(q)
    BY <2>3, <2>5, <2>6
  <2>8. \A i \in 1 .. Len(q) : inNode'[n][i] = f(i)
    BY <2>6
  <2> QED
    BY <2>5, <2>7, <2>8 DEF q
<1>3. inNode' \in [Vnets -> Seq(Buffered)]
  BY <1>1, <1>2
<1>4. lock' \in BOOLEAN
  BY <1>1 DEF InjectionInv, InjectionTypes
<1> QED
  BY <1>1, <1>2, <1>3, <1>4, QuietInv

\* A message that a controller enqueues goes behind those of its vnet.
LEMMA EnqueueInv ==
  ASSUME InjectionInv, UNCHANGED load, Enqueue
  PROVE  InjectionInv'
<1> DEFINE k == Messages[unsent].vnet
           new == [id |-> unsent, dests |-> Messages[unsent].dests, ready |-> FALSE]
<1>0. /\ load \in Workloads
      /\ Messages' = Messages /\ Ids' = Ids /\ Dests' = Dests
      /\ AtRouter' = AtRouter /\ Queued(niVc)' = Queued(niVc)
      /\ \A n : InjVnet(n)' = InjVnet(n)
      /\ Len(Messages) \in Nat /\ Ids = 1 .. Len(Messages)
  BY MessageShape DEF InjectionInv, InjectionTypes, Messages, Ids, Dests, AtRouter, Queued,
     InjVnet, Enqueue
<1>1. /\ unsent \in Ids /\ unsent' = unsent + 1
      /\ inNode' = [inNode EXCEPT ![k] = Append(@, new)]
      /\ UNCHANGED <<lock, niVc, outState, outCred, older, vcAlloc, vcRound, creditIn, flits, sent>>
  BY DEF Enqueue
<1>2. k \in Vnets /\ new \in Buffered /\ unsent \in Nat
  BY <1>0, <1>1, MessageShape DEF Buffered
<1>3. inNode \in [Vnets -> Seq(Buffered)]
  BY DEF InjectionInv, InjectionTypes, Buffered
<1>4. ASSUME NEW n \in Vnets
      PROVE  /\ inNode'[n] \in Seq(Buffered) /\ Len(inNode[n]) \in Nat
             /\ n # k => inNode'[n] = inNode[n]
             /\ n = k => /\ Len(inNode'[n]) = Len(inNode[n]) + 1
                         /\ inNode'[n][Len(inNode[n]) + 1] = new
             /\ \A i \in 1 .. Len(inNode[n]) : /\ inNode'[n][i] = inNode[n][i]
                                               /\ inNode[n][i] \in Buffered
  <2> DEFINE q == inNode[n]
  <2>1. q \in Seq(Buffered) /\ inNode'[n] = IF n = k THEN Append(q, new) ELSE q
    BY <1>1, <1>3
  <2> HIDE DEF q, new
  <2>2. Len(q) \in Nat /\ \A i \in 1 .. Len(q) : q[i] \in Buffered
    BY <2>1, LenProperties, ElementOfSeq
  <2>3. /\ Append(q, new) \in Seq(Buffered) /\ Len(Append(q, new)) = Len(q) + 1
        /\ Append(q, new)[Len(q) + 1] = new
        /\ \A i \in 1 .. Len(q) : Append(q, new)[i] = q[i]
    BY <1>2, <2>1, AppendProperties
  <2> QED
    BY <2>1, <2>2, <2>3 DEF q
<1>5. new.id = unsent /\ new.dests = Messages[unsent].dests
  OBVIOUS
<1> HIDE DEF new
\* Every entry of a buffer after the step is the new one or was there.
<1>6. ASSUME NEW n \in Vnets, NEW i \in 1 .. Len(inNode'[n])
      PROVE  \/ i \in 1 .. Len(inNode[n]) /\ inNode'[n][i] = inNode[n][i]
             \/ n = k /\ i = Len(inNode[n]) + 1 /\ inNode'[n][i] = new
  <2>1. CASE n # k
    BY <1>4, <2>1
  <2>2. CASE n = k
    <3>1. i \in 1 .. Len(inNode[n]) \/ i = Len(inNode[n]) + 1
      BY <1>4, <2>2
    <3> QED
      BY <1>4, <2>2, <3>1
  <2> QED
    BY <2>1, <2>2
<1>7. ASSUME NEW n \in Vnets, NEW i \in 1 .. Len(inNode[n])
      PROVE  /\ inNode[n][i].id < unsent /\ inNode[n][i].id \in Nat
             /\ Messages[inNode[n][i].id].vnet = n
             /\ inNode[n][i].dests \subseteq Messages[inNode[n][i].id].dests
             /\ \A j \in 1 .. Len(inNode[n]) : i < j => inNode[n][i].id < inNode[n][j].id
  <2>1. inNode[n][i].id \in Nat
    BY <1>0, <1>4 DEF Buffered
  <2> QED
    BY <2>1 DEF InjectionInv, InOrder
<1>8. InjectionTypes'
  <2>1. inNode' \in [Vnets -> Seq(Buffered)]
    <3>1. inNode' = [n \in Vnets |-> inNode'[n]]
      BY <1>1, <1>3
    <3> QED
      BY <1>4, <3>1
  <2>2. unsent' \in 1 .. Len(Messages) + 1
    BY <1>0, <1>1
  <2> QED
    BY <1>0, <1>1, <2>1, <2>2 DEF InjectionInv, InjectionTypes, Buffered
<1>9. VcsHeld'
  BY <1>0, <1>1 DEF InjectionInv, VcsHeld
<1>10. InOrder'
  <2>1. ASSUME NEW n \in Vnets, NEW i \in 1 .. Len(inNode'[n])
        PROVE  /\ inNode'[n][i].id < unsent + 1
               /\ Messages[inNode'[n][i].id].vnet = n
               /\ inNode'[n][i].dests \subseteq Messages[inNode'[n][i].id].dests
    <3>1. CASE i \in 1 .. Len(inNode[n]) /\ inNode'[n][i] = inNode[n][i]
      BY <1>2, <1>7, <3>1
    <3>2. CASE n = k /\ inNode'[n][i] = new
      BY <1>2, <1>5, <3>2
    <3> QED
      BY <1>6, <3>1, <3>2
  <2>2. ASSUME NEW n \in Vnets, NEW i \in 1 .. Len(inNode'[n]), NEW j \in 1 .. Len(inNode'[n]),
               i < j
        PROVE  inNode'[n][i].id < inNode'[n][j].id
    <3>1. CASE j \in 1 .. Len(inNode[n]) /\ inNode'[n][j] = inNode[n][j]
      <4>1. i \in 1 .. Len(inNode[n])
        BY <2>2, <3>1
      <4>2. inNode'[n][i] = inNode[n][i]
        BY <1>4, <4>1
      <4> QED
        BY <1>7, <2>2, <3>1, <4>1, <4>2
    <3>2. CASE n = k /\ j = Len(inNode[n]) + 1 /\ inNode'[n][j] = new
      <4>1. i \in 1 .. Len(inNode[n])
        BY <1>4, <2>2, <3>2
      <4>2. inNode'[n][i] = inNode[n][i]
        BY <1>4, <4>1
      <4> QED
        BY <1>5, <1>7, <3>2, <4>1, <4>2
    <3> QED
      BY <1>6, <3>1, <3>2
  <2> QED
    BY <1>0, <1>1, <2>1, <2>2 DEF InOrder
<1>11. MadeOnce'
  <2>1. ASSUME NEW m \in Ids, NEW d \in Messages[m].dests
        PROVE  Pending(m, d)' <=> Pending(m, d)
    <3> DEFINE n == Messages[m].vnet
    <3>1. n \in Vnets /\ m \in Nat
      BY <1>0, MessageShape
    <3>2. /\ Pending(m, d) <=> m >= unsent \/ \E i \in 1 .. Len(inNode[n]) :
                                  inNode[n][i].id = m /\ d \in inNode[n][i].dests
          /\ Pending(m, d)' <=> m >= unsent + 1 \/ \E i \in 1 .. Len(inNode'[n]) :
                                  inNode'[n][i].id = m /\ d \in inNode'[n][i].dests
      BY <1>0, <1>1 DEF Pending
    <3>3. CASE m = unsent
      <4>1. n = k /\ Len(inNode[n]) + 1 \in 1 .. Len(inNode'[n])
        BY <1>4, <3>1, <3>3
      <4>2. inNode'[n][Len(inNode[n]) + 1] = new
        BY <1>4, <3>1, <4>1
      <4>3. Pending(m, d)'
        BY <1>5, <3>2, <3>3, <4>1, <4>2
      <4>4. Pending(m, d)
        BY <1>2, <3>2, <3>3
      <4> QED
        BY <4>3, <4>4
    <3>4. CASE m # unsent
      <4>1. m >= unsent + 1 <=> m >= unsent
        BY <1>2, <3>1, <3>4
      <4>2. ASSUME NEW i \in 1 .. Len(inNode'[n]), inNode'[n][i].id = m, d \in inNode'[n][i].dests
            PROVE  i \in 1 .. Len(inNode[n]) /\ inNode'[n][i] = inNode[n][i]
        BY <1>5, <1>6, <3>1, <3>4, <4>2
      <4>3. \A i \in 1 .. Len(inNode[n]) :
              i \in 1 .. Len(inNode'[n]) /\ inNode'[n][i] = inNode[n][i]
        BY <1>4, <3>1
      <4> QED
        BY <3>2, <4>1, <4>2, <4>3
    <3> QED
      BY <3>3, <3>4
  <2> QED
    BY <1>0, <1>1, <2>1 DEF InjectionInv, MadeOnce
<1>12. QueuedFlits'
  <2>1. ASSUME NEW v \in Queued(niVc)
        PROVE  LET m == niVc[v].id IN
               /\ m \in 1 .. (unsent + 1) - 1
               /\ niVc[v].dest \in Messages[m].dests
               /\ get_vnet(v) = InjVnet(Messages[m].vnet)
               /\ \A i \in 1 .. Len(inNode'[Messages[m].vnet]) :
                    m <= inNode'[Messages[m].vnet][i].id
    <3> DEFINE m == niVc[v].id
               n == Messages[m].vnet
    <3>1. /\ m \in 1 .. unsent - 1 /\ niVc[v].dest \in Messages[m].dests
          /\ get_vnet(v) = InjVnet(n)
          /\ \A i \in 1 .. Len(inNode[n]) : m <= inNode[n][i].id
      BY DEF InjectionInv, QueuedFlits
    <3> HIDE DEF m
    <3>2. m \in Ids /\ m \in Nat /\ m < unsent /\ m \in 1 .. (unsent + 1) - 1
      BY <1>0, <1>1, <1>2, <3>1
    <3>3. n \in Vnets
      BY <1>0, <3>2, MessageShape
    <3>4. ASSUME NEW i \in 1 .. Len(inNode'[n]) PROVE m <= inNode'[n][i].id
      <4>1. CASE i \in 1 .. Len(inNode[n]) /\ inNode'[n][i] = inNode[n][i]
        BY <3>1, <4>1
      <4>2. CASE inNode'[n][i] = new
        BY <1>2, <1>5, <3>2, <4>2
      <4> QED
        BY <1>6, <3>3, <4>1, <4>2
    <3> QED
      BY <3>1, <3>2, <3>4 DEF m
  <2> QED
    BY <1>0, <1>1, <2>1, Zenon DEF QueuedFlits
<1>13. KeptOnce' /\ OlderFirst'
  BY <1>0, <1>1 DEF InjectionInv, KeptOnce, OlderFirst
<1>14. LeftBefore'
  <2>1. ASSUME NEW x \in sent
        PROVE  /\ x[1] < unsent + 1
               /\ \A i \in 1 .. Len(inNode'[Messages[x[1]].vnet]) :
                    x[1] <= inNode'[Messages[x[1]].vnet][i].id
    <3> DEFINE n == Messages[x[1]].vnet
    <3>1. x[1] < unsent /\ \A i \in 1 .. Len(inNode[n]) : x[1] <= inNode[n][i].id
      BY DEF InjectionInv, LeftBefore
    <3>2. x[1] \in Ids
      BY DEF InjectionInv, InjectionTypes
    <3>3. x[1] \in Nat /\ n \in Vnets
      BY <1>0, <3>2, MessageShape
    <3> HIDE DEF n
    <3>4. ASSUME NEW i \in 1 .. Len(inNode'[n]) PROVE x[1] <= inNode'[n][i].id
      <4>1. CASE i \in 1 .. Len(inNode[n]) /\ inNode'[n][i] = inNode[n][i]
        BY <3>1, <4>1
      <4>2. CASE inNode'[n][i] = new
        BY <1>2, <1>5, <3>1, <3>3, <4>2
      <4> QED
        BY <1>6, <3>3, <4>1, <4>2
    <3> QED
      BY <1>2, <3>1, <3>3, <3>4 DEF n
  <2> QED
    BY <1>0, <1>1, <2>1 DEF LeftBefore
<1> QED
  BY <1>8, <1>9, <1>10, <1>11, <1>12, <1>13, <1>14 DEF InjectionInv

\* The invariant holds at first, with nothing made ...
LEMMA InjectionInit == NiInit => InjectionInv
<1> SUFFICES ASSUME NiInit PROVE InjectionInv
  OBVIOUS
<1>0. /\ load \in Workloads /\ Len(Messages) \in Nat /\ Ids = 1 .. Len(Messages)
      /\ \A m \in Ids : Messages[m].dests \subseteq Dests
      /\ BufDepth \in Nat \ {0} /\ VcPerVnet \in Nat \ {0}
  BY MessageShape, InterfaceAssumption DEF NiInit
<1>1. /\ lock = FALSE /\ unsent = 1 /\ inNode = [n \in Vnets |-> <<>>]
      /\ niVc = [v \in InjVcs |-> Empty] /\ outState = [v \in InjVcs |-> "IDLE"]
      /\ outCred = [v \in InjVcs |-> BufDepth] /\ older = [v \in InjVcs |-> {}]
      /\ vcAlloc = [n \in Vnets |-> 0] /\ vcRound = 0 /\ creditIn = NoVc
      /\ flits = [x \in Ids \X Dests |-> 0] /\ sent = {}
  BY DEF NiInit
<1>2. Queued(niVc) = {} /\ 0 \in InjVcs
  <2>1. Queued(niVc) = {}
    BY <1>1 DEF Queued
  <2> DEFINE total == NumVnets * VcPerVnet
  <2>2. total \in Nat \ {0} /\ InjVcs = 0 .. total - 1
    BY AllVcs
  <2> HIDE DEF total
  <2> QED
    BY <2>1, <2>2
<1>3. \A n \in Vnets : inNode[n] = <<>> /\ Len(inNode[n]) = 0
  BY <1>1
<1>4. InjectionTypes
  <2>1. Empty \in [id: Ids \union {0}, dest: Dests \union {0}]
    BY DEF Empty
  <2>2. unsent \in 1 .. Len(Messages) + 1
    BY <1>0, <1>1
  <2>3. inNode \in [Vnets -> Seq([id: Ids, dests: SUBSET Dests, ready: BOOLEAN])]
    BY <1>1
  <2>4. flits \in [Ids \X Dests -> Nat] /\ sent \subseteq Ids \X Dests
    BY <1>1
  <2>5. outCred \in [InjVcs -> 0 .. BufDepth] /\ vcAlloc \in [Vnets -> 0 .. VcPerVnet - 1]
    BY <1>0, <1>1
  <2>6. niVc \in [InjVcs -> [id: Ids \union {0}, dest: Dests \union {0}]]
    BY <1>1, <2>1
  <2> QED
    BY <1>0, <1>1, <1>2, <2>2, <2>3, <2>4, <2>5, <2>6 DEF InjectionTypes
<1>5. VcsHeld
  BY <1>1 DEF VcsHeld
<1>6. InOrder
  BY <1>3 DEF InOrder
<1>7. MadeOnce
  <2> SUFFICES ASSUME NEW m \in Ids, NEW d \in Messages[m].dests
               PROVE  flits[<<m, d>>] = 0 /\ Pending(m, d)
    BY DEF MadeOnce
  <2>1. m >= unsent
    BY <1>0, <1>1
  <2> QED
    BY <1>0, <1>1, <2>1 DEF Pending
<1>8. QueuedFlits /\ OlderFirst
  BY <1>2 DEF QueuedFlits, OlderFirst
<1>9. KeptOnce
  <2> SUFFICES ASSUME NEW m \in Ids, NEW d \in Messages[m].dests
               PROVE  LET f == [id |-> m, dest |-> d] IN
                      /\ \A v, w \in InjVcs : niVc[v] = f /\ niVc[w] = f => v = w
                      /\ \A v \in InjVcs : niVc[v] = f => <<m, d>> \notin sent
                      /\ flits[<<m, d>>] = 1
                           <=> <<m, d>> \in sent \/ \E v \in InjVcs : niVc[v] = f
    BY DEF KeptOnce
  <2> DEFINE f == [id |-> m, dest |-> d]
  <2>1. f.id = m /\ Empty.id = 0
    BY DEF Empty
  <2>2. f # Empty
    BY <1>0, <2>1
  <2> HIDE DEF f
  <2>3. \A v \in InjVcs : niVc[v] # f
    BY <1>1, <2>2
  <2>4. flits[<<m, d>>] # 1
    BY <1>0, <1>1
  <2>5. <<m, d>> \notin sent
    BY <1>1
  <2> QED
    BY <2>3, <2>4, <2>5 DEF f
<1>10. LeftBefore
  BY <1>1 DEF LeftBefore
<1> QED
  BY <1>4, <1>5, <1>6, <1>7, <1>8, <1>9, <1>10 DEF InjectionInv

\* ... and after every step of the interface and of what is around it.
LEMMA InjectionNext ==
  ASSUME InjectionInv, [NiNext]_<<nivars, busy, load>>
  PROVE  InjectionInv'
<1>1. UNCHANGED load /\ lock \in BOOLEAN
  BY DEF NiNext, InjectionInv, InjectionTypes
<1>2. CASE NiWakeup
  BY <1>1, <1>2, InjectHalfInv DEF NiWakeup
<1>3. CASE UNCHANGED inj
  BY <1>1, <1>3, IdleInv DEF inj
<1>4. CASE Enqueue
  BY <1>1, <1>4, EnqueueInv
<1>5. CASE SetLock
  BY <1>1, <1>5, IdleInv DEF SetLock
<1>6. ASSUME NEW v \in Vcs \union {NoFlit}, NEW c \in InjVcs \union {NoVc}, NEW other \in BOOLEAN,
             NiTick(v, c, other)
      PROVE  InjectionInv'
  BY <1>1, <1>6, NiTickInv
<1> QED
  BY <1>2, <1>3, <1>4, <1>5, <1>6 DEF NiNext, nivars

\* Both parts of the interface keep to their types; a credit counter stays
\* between 0 and the buffer depth, which OutVcState asserts.
THEOREM InterfaceTyped == NiSpec => []NiTypeOK
<1>1. NiInit => EjectionInv /\ InjectionInv
  BY InitEjection, InjectionInit DEF NiInit
<1>2. EjectionInv /\ InjectionInv /\ [NiNext]_<<nivars, busy, load>>
        => (EjectionInv /\ InjectionInv)'
  BY NiNextEjection, InjectionNext
<1>3. EjectionInv /\ InjectionInv => NiTypeOK
  BY DEF EjectionInv, InjectionInv, InjectionTypes, NiTypeOK
<1> QED
  BY <1>1, <1>2, <1>3, PTL DEF NiSpec

\* A multicast message gets exactly one flit per destination: never two,
\* however often flitisizeMessage runs out of VCs and comes back to it, and all
\* of them by the time it is dequeued.
THEOREM MulticastServedOnce == NiSpec => []EachDestinationOnce
<1>1. NiInit => InjectionInv
  BY InjectionInit
<1>2. InjectionInv /\ [NiNext]_<<nivars, busy, load>> => InjectionInv'
  BY InjectionNext
<1>3. InjectionInv => EachDestinationOnce
  <2> SUFFICES ASSUME InjectionInv, NEW m \in Ids, NEW d \in Messages[m].dests
               PROVE  flits[<<m, d>>] <= 1 /\ (~Waiting(m) => flits[<<m, d>>] = 1)
    BY DEF EachDestinationOnce
  <2>1. flits[<<m, d>>] = IF Pending(m, d) THEN 0 ELSE 1
    BY DEF InjectionInv, MadeOnce
  <2>2. Messages[m].vnet \in Vnets /\ load \in Workloads
    BY MessageShape DEF InjectionInv, InjectionTypes
  <2>3. Pending(m, d) => Waiting(m)
    <3> DEFINE n == Messages[m].vnet
    <3>1. DOMAIN inNode[n] = 1 .. Len(inNode[n])
      <4>1. inNode[n] \in Seq(Buffered)
        BY <2>2 DEF InjectionInv, InjectionTypes, Buffered
      <4> QED
        BY <4>1, LenProperties
    <3> QED
      BY <2>2, <3>1 DEF Pending, Waiting
  <2> QED
    BY <2>1, <2>3
<1> QED
  BY <1>1, <1>2, <1>3, PTL DEF NiSpec

\* The VC that calculateVC picks holds no flit: each flit that flitisizeMessage
\* made is in exactly one VC or has left, never lost and never in two places.
THEOREM FlitsKept == NiSpec => []NoFlitOverwritten
<1>1. NiInit => InjectionInv
  BY InjectionInit
<1>2. InjectionInv /\ [NiNext]_<<nivars, busy, load>> => InjectionInv'
  BY InjectionNext
<1>3. InjectionInv => NoFlitOverwritten
  <2> SUFFICES ASSUME InjectionInv PROVE NoFlitOverwritten
    OBVIOUS
  <2>1. \A v \in InjVcs : niVc[v] # Empty => outState[v] = "ACTIVE"
    BY DEF InjectionInv, InjectionTypes, VcsHeld
  <2>2. ASSUME NEW m \in Ids, NEW d \in Messages[m].dests
        PROVE  flits[<<m, d>>] = Cardinality({ v \in InjVcs : niVc[v] = [id |-> m, dest |-> d] })
                                 + (IF <<m, d>> \in sent THEN 1 ELSE 0)
    <3> DEFINE At == { v \in InjVcs : niVc[v] = [id |-> m, dest |-> d] }
    <3>1. /\ \A v, w \in At : v = w
          /\ At # {} => <<m, d>> \notin sent
          /\ flits[<<m, d>>] = 1 <=> <<m, d>> \in sent \/ At # {}
      BY DEF InjectionInv, KeptOnce
    <3>2. flits[<<m, d>>] = 0 \/ flits[<<m, d>>] = 1
      BY DEF InjectionInv, MadeOnce
    <3> HIDE DEF At
    <3>3. CASE At = {}
      <4>1. Cardinality(At) = 0
        BY <3>3, FS_EmptySet
      <4> QED
        BY <3>1, <3>2, <3>3, <4>1 DEF At
    <3>4. CASE At # {}
      <4>1. PICK v : At = {v}
        BY <3>1, <3>4
      <4>2. Cardinality(At) = 1
        BY <4>1, FS_Singleton
      <4> QED
        BY <3>1, <3>2, <3>4, <4>2 DEF At
    <3> QED
      BY <3>3, <3>4
  <2> QED
    BY <2>1, <2>2 DEF NoFlitOverwritten
<1> QED
  BY <1>1, <1>2, <1>3, PTL DEF NiSpec

-----------------------------------------------------------------------------
\* Messages are injected into ordered vnets if they are of one: scheduleOutputLink
\* looks at the vnet of the VC, which with inj_single_vnet is 0 for all of them.
OrderedStaysOrdered ==
  \A w \in Workloads : w.inj_single_vnet /\ Ordered # {} => 0 \in Ordered

\* What leaves is the oldest flit of its vnet for its destination.
LEMMA OldestLeaves ==
  ASSUME OrderedStaysOrdered, InjectionInv, InjectHalf, Out \in InjVcs,
         Messages[Picked[Out].id].vnet \in Ordered,
         NEW v \in Queued(Picked),
         Messages[Picked[v].id].vnet = Messages[Picked[Out].id].vnet
  PROVE  Picked[Out].id <= Picked[v].id
<1> DEFINE n == Messages[Picked[Out].id].vnet
<1>0. load \in Workloads /\ \A x \in Ids : x \in Nat
  BY MessageShape DEF InjectionInv, InjectionTypes
<1>1. Out \in Queued(Picked) /\ IsCandidate(Picked, Ages, Out)
  BY OutShape, AllVcs
<1>2. /\ get_vnet(Out) = InjVnet(n) /\ get_vnet(v) = InjVnet(n)
      /\ Picked[Out].id \in Nat /\ Picked[v].id \in Nat
  BY <1>0, <1>1, PickedFlits DEF InjectionInv
<1>3. InjVnet(n) \in Ordered
  BY <1>0 DEF InjVnet, OrderedStaysOrdered
<1>4. v \in VnetVcs(get_vnet(Out)) /\ Picked[v] # Empty
  BY <1>2, InItsVnet DEF Queued
<1>5. v \notin Ages[Out]
  BY <1>1, <1>2, <1>3, <1>4 DEF IsCandidate
<1>6. Picked[v].id < Picked[Out].id => v \in Ages[Out]
  BY <1>1, PickedFlits DEF InjectionInv
<1> QED
  BY <1>2, <1>5, <1>6

\* LeftInOrder holds of the flits after the messages are picked up as well,
\* and none of them has left before.
LEMMA PickedInOrder ==
  ASSUME InjectionInv, LeftInOrder, InjectHalf, UNCHANGED load,
         NEW v \in Queued(Picked), NEW x \in sent,
         Messages[x[1]].vnet = Messages[Picked[v].id].vnet, Messages[x[1]].vnet \in Ordered,
         x[2] = Picked[v].dest
  PROVE  x[1] < Picked[v].id
<1>0. load \in Workloads /\ \A y \in Ids : y \in Nat
  BY MessageShape DEF InjectionInv, InjectionTypes
<1>1. /\ v \in InjVcs /\ Picked[v] # Empty /\ Picked[v].id \in Ids /\ x[1] \in Ids
      /\ Picked[v].dest \in Messages[Picked[v].id].dests
      /\ x = <<x[1], x[2]>>
  <2>1. v \in InjVcs /\ Picked[v] # Empty
    BY DEF Queued
  <2>2. Picked[v].id \in Ids /\ Picked[v].dest \in Messages[Picked[v].id].dests
    BY PickedFlits DEF InjectionInv
  <2>3. x \in Ids \X Dests
    BY DEF InjectionInv, InjectionTypes
  <2> QED
    BY <2>1, <2>2, <2>3
<1>2. x[1] <= Picked[v].id
  <2>1. CASE \A p \in Served : p[1] # v
    <3>1. Picked[v] = niVc[v]
      BY <1>1, <2>1, PickedShape DEF InjectionInv
    <3>2. v \in Queued(niVc)
      BY <1>1, <3>1 DEF Queued
    <3> QED
      BY <3>1, <3>2 DEF LeftInOrder
  <2>2. ASSUME NEW p \in Served, p[1] = v
        PROVE  x[1] <= Picked[v].id
    <3> DEFINE m == p[2].id
               n == p[2].vnet
               d == p[2].dest
    <3>1. /\ Picked[v] = [id |-> m, dest |-> d] /\ Messages[m].vnet = n
          /\ m = inNode[n][1].id /\ 1 \in 1 .. Len(inNode[n])
      BY <2>2, PickedShape DEF InjectionInv
    <3> HIDE DEF m, n, d
    <3>2. Picked[v].id = m
      BY <3>1
    <3>3. Messages[x[1]].vnet = n
      BY <3>1, <3>2
    <3>4. x[1] <= m
      BY <3>1, <3>3 DEF InjectionInv, LeftBefore
    <3> QED
      BY <3>2, <3>4
  <2> QED
    BY <2>1, <2>2
<1>3. x[1] # Picked[v].id
  <2> SUFFICES ASSUME x[1] = Picked[v].id PROVE FALSE
    OBVIOUS
  <2> DEFINE m == Picked[v].id
             d == Picked[v].dest
  <2>1. Picked[v] = [id |-> m, dest |-> d]
    <3>1. Picked[v] \in [id: Ids \union {0}, dest: Dests \union {0}]
      BY <1>1, PickedShape DEF InjectionInv
    <3> QED
      BY <3>1
  <2>2. x = <<m, d>> /\ m \in Ids /\ d \in Messages[m].dests
    BY <1>1
  <2> HIDE DEF m, d
  <2>3. <<m, d>> \notin sent
    BY <1>1, <2>1, <2>2, PickedOnce
  <2> QED
    BY <2>2, <2>3
<1> QED
  BY <1>0, <1>1, <1>2, <1>3

\* What a step adds to sent is younger than what left before in its vnet for its
\* destination.
YoungerLeave ==
  \A x \in sent' \ sent, y \in sent :
    /\ Messages[x[1]].vnet = Messages[y[1]].vnet /\ Messages[x[1]].vnet \in Ordered
    /\ x[2] = y[2]
    => y[1] < x[1]

\* In a wakeup nothing leaves before an older flit to the same destination,
\* whether that was queued before or picked up in this wakeup.
LEMMA InjectLeftInOrder ==
  ASSUME OrderedStaysOrdered, InjectionInv, LeftInOrder, InjectHalf, UNCHANGED load
  PROVE  LeftInOrder' /\ YoungerLeave
<1>0. load \in Workloads /\ Messages' = Messages /\ \A y \in Ids : y \in Nat
  BY MessageShape DEF Messages, InjectionInv, InjectionTypes
<1>1. ASSUME NEW v \in Queued(niVc)', NEW x \in sent',
             Messages[x[1]].vnet = Messages[niVc'[v].id].vnet,
             Messages[x[1]].vnet \in Ordered, x[2] = niVc'[v].dest
      PROVE  x[1] <= niVc'[v].id
  <2>1. v \in Queued(Picked) /\ niVc'[v] = Picked[v]
    BY StillQueued
  <2>2. Picked[v].id \in Ids
    BY <2>1, PickedFlits DEF InjectionInv
  <2>3. CASE x \in sent
    <3>1. x[1] < Picked[v].id
      BY <1>1, <2>1, <2>3, PickedInOrder
    <3>2. x[1] \in Ids
      BY <2>3 DEF InjectionInv, InjectionTypes
    <3> QED
      BY <1>0, <2>1, <2>2, <3>1, <3>2
  <2>4. CASE Out \in InjVcs /\ x[1] = Picked[Out].id
    BY <1>1, <2>1, <2>4, OldestLeaves
  <2> QED
    BY <2>3, <2>4, SentStep
<1>2. ASSUME NEW x \in sent' \ sent, NEW y \in sent,
             Messages[x[1]].vnet = Messages[y[1]].vnet, Messages[x[1]].vnet \in Ordered,
             x[2] = y[2]
      PROVE  y[1] < x[1]
  <2>1. Out \in Queued(Picked) /\ x[1] = Picked[Out].id /\ x[2] = Picked[Out].dest
    BY SentStep
  <2> QED
    BY <1>2, <2>1, PickedInOrder
<1> QED
  BY <1>0, <1>1, <1>2 DEF LeftInOrder, YoungerLeave

\* Every other step leaves the queued flits and what has left alone.
LEMMA NextLeftInOrder ==
  ASSUME OrderedStaysOrdered, InjectionInv, LeftInOrder, [NiNext]_<<nivars, busy, load>>
  PROVE  LeftInOrder' /\ YoungerLeave
<1>1. UNCHANGED load
  BY DEF NiNext
<1>2. CASE NiWakeup
  BY <1>1, <1>2, InjectLeftInOrder DEF NiWakeup
<1>3. CASE UNCHANGED <<niVc, sent>>
  BY <1>1, <1>3 DEF LeftInOrder, YoungerLeave, Messages, Queued
<1>4. NiWakeup \/ UNCHANGED <<niVc, sent>>
  BY DEF NiNext, nivars, inj, Enqueue, SetLock, NiTick
<1> QED
  BY <1>2, <1>3, <1>4

\* In an ordered vnet, flits to a destination leave the interface in the order
\* in which controllers enqueued their messages, whatever VCs calculateVC
\* finds, credits allow and drains hold back.
THEOREM InjectsInOrder == OrderedStaysOrdered => (NiSpec => LeavesInOrder)
<1> SUFFICES ASSUME OrderedStaysOrdered PROVE NiSpec => LeavesInOrder
  OBVIOUS
<1>1. NiInit => InjectionInv /\ LeftInOrder
  <2>1. NiInit => Queued(niVc) = {}
    BY DEF NiInit, Queued
  <2> QED
    BY <2>1, InjectionInit DEF LeftInOrder
<1>2. InjectionInv /\ LeftInOrder /\ [NiNext]_<<nivars, busy, load>>
        => (InjectionInv /\ LeftInOrder)'
  BY InjectionNext, NextLeftInOrder
<1>3. InjectionInv /\ LeftInOrder /\ [NiNext]_<<nivars, busy, load>> => [YoungerLeave]_nivars
  BY NextLeftInOrder
<1>4. LeavesInOrder <=> [][YoungerLeave]_nivars
  BY DEF LeavesInOrder, YoungerLeave
<1> QED
  BY <1>1, <1>2, <1>3, <1>4, PTL DEF NiSpec
=============================================================================
