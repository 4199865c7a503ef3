---------------------------- MODULE DoSpinProofs ----------------------------
(***************************************************************************)
(* doSpin implements AtomicSpin, and its asserts hold, for every length of *)
(* the drain path, every buffer depth and every occupation of its ports.   *)
(***************************************************************************)
EXTENDS DoSpin, FiniteSetTheorems, TLAPS

\* The sets of ports that num_pkts counts are finite, with at most N members.
LEMMA CountType ==
  ASSUME NEW S \in SUBSET Ports
  PROVE  IsFiniteSet(S) /\ Cardinality(S) \in 0 .. N
<1>1. IsFiniteSet(Ports) /\ Cardinality(Ports) = N
  BY FS_Interval, SpinAssumption DEF Ports
<1> QED
  BY <1>1, FS_Subset, FS_CardinalityType, SpinAssumption

\* Credits and state of an output VC are in range, whatever its port holds.
LEMMA OutVcType ==
  ASSUME NEW f
  PROVE  OutVcFor(f) \in [state: {"IDLE", "ACTIVE"}, credits: 0 .. BufDepth]
  BY SpinAssumption DEF OutVcFor

\* Nothing has arrived and doSpin has not been called.
LEMMA InitInv == DInit => IInv
<1> SUFFICES ASSUME DInit PROVE IInv
  OBVIOUS
<1>1. outvc \in [Ports -> [state: {"IDLE", "ACTIVE"}, credits: 0 .. BufDepth]]
  BY OutVcType DEF DInit, Init
<1>2. /\ flitAt \in [Ports -> Slot]
      /\ start \in [Ports -> Slot]
      /\ flit_ \in [Entries -> Slot]
  BY DEF DInit, Init, Slot
<1>3. TypeOK
  BY <1>1, <1>2, SpinAssumption DEF DInit, TypeOK
<1>4. Matching
  BY DEF DInit, Init, Matching
<1> QED
  BY <1>3, <1>4 DEF IInv, DInit

\* The call of doSpin records the ports' contents and has removed nothing.
LEMMA BeginInv ==
  ASSUME IInv, Begin
  PROVE  IInv'
<1> USE SpinAssumption
<1>1. Occupied(flitAt) \in SUBSET Ports
  BY DEF Occupied
<1>2. TypeOK'
  BY <1>1, CountType DEF IInv, TypeOK, Begin
<1>3. Matching'
  BY DEF IInv, Matching, Begin
<1>4. Removing'
  <2>1. (Below(idx))' = {}
    BY DEF Begin, Below, Occupied, Ports
  <2> QED
    BY <2>1, FS_EmptySet DEF Removing, Begin, Ports
<1>5. (Occupied(start))' = Occupied(flitAt)
  BY DEF Occupied, Begin
<1> QED
  BY <1>2, <1>3, <1>4, <1>5 DEF IInv, Begin

\* An iteration of the first loop: port idx is emptied into entry idx + 1.
LEMMA RemoveInv ==
  ASSUME IInv, Remove
  PROVE  IInv'
<1> USE SpinAssumption
<1>1. idx \in Ports /\ idx + 1 \in Entries
  BY DEF IInv, TypeOK, Remove, Ports, Entries
<1>2. flitAt[idx] = start[idx] /\ start' = start /\ idx' = idx + 1
  BY <1>1 DEF IInv, Removing, Remove, Ports
<1>3. num_pkts' = Cardinality((Below(idx))') /\ num_pkts' \in 0 .. N
  <2>1. Below(idx) \in SUBSET Ports /\ (Below(idx))' \in SUBSET Ports
    BY DEF Below, Occupied
  <2>2. CASE flitAt[idx] = NoFlit
    <3>1. ASSUME NEW p \in Ports, start[p] # NoFlit
          PROVE  p < idx <=> p < idx'
      <4>1. p # idx
        BY <1>2, <2>2, <3>1
      <4> QED
        BY <1>1, <1>2, <4>1 DEF Ports
    <3>2. (Below(idx))' = Below(idx)
      BY <1>2, <3>1 DEF Below, Occupied
    <3> QED
      BY <2>1, <2>2, <3>2, CountType DEF IInv, Removing, Remove
  <2>3. CASE flitAt[idx] # NoFlit
    <3>1. (Below(idx))' = Below(idx) \cup {idx}
      BY <1>1, <1>2, <2>3 DEF Below, Occupied, Ports
    <3>2. idx \notin Below(idx)
      BY <1>1 DEF Below, Ports
    <3>3. Cardinality((Below(idx))') = Cardinality(Below(idx)) + 1
      BY <2>1, <3>1, <3>2, CountType, FS_AddElement
    <3> QED
      BY <2>1, <2>3, <3>3, CountType DEF IInv, Removing, Remove
  <2> QED
    BY <2>2, <2>3
<1>4. /\ flitAt' = [flitAt EXCEPT ![idx] = NoFlit]
      /\ outvc' = [outvc EXCEPT ![idx] = OutVcFor(NoFlit)]
      /\ ivc' = [ivc EXCEPT ![idx] = "IDLE"]
  <2>1. outvc[idx] = OutVcFor(flitAt[idx])
    BY <1>1 DEF IInv, Matching
  <2>2. CASE flitAt[idx] = NoFlit
    BY <1>1, <2>1, <2>2 DEF IInv, TypeOK, Matching, Remove
  <2>3. CASE flitAt[idx] # NoFlit
    BY <1>1, <2>1, <2>3 DEF IInv, TypeOK, Remove, increment_credit, OutVcFor
  <2> QED
    BY <2>2, <2>3
<1>5. TypeOK'
  <2>1. flitAt' \in [Ports -> Slot]
    BY <1>4 DEF IInv, TypeOK, Slot
  <2>2. outvc' \in [Ports -> [state: {"IDLE", "ACTIVE"}, credits: 0 .. BufDepth]]
    BY <1>4, OutVcType DEF IInv, TypeOK
  <2>3. flit_' \in [Entries -> Slot]
    BY <1>1 DEF IInv, TypeOK, Remove
  <2>4. ivc' \in [Ports -> {"IDLE", "ACTIVE"}]
    BY <1>4 DEF IInv, TypeOK
  <2>5. idx' \in 0 .. N + 1
    BY <1>1, <1>2 DEF Entries
  <2> QED
    BY <1>3, <2>1, <2>2, <2>3, <2>4, <2>5 DEF IInv, TypeOK, Remove
<1>6. Matching'
  BY <1>1, <1>4 DEF IInv, TypeOK, Matching
<1>7. Removing'
  <2>1. ASSUME NEW p \in Ports
        PROVE  IF p < idx + 1 THEN flitAt'[p] = NoFlit /\ flit_'[p + 1] = start[p]
                              ELSE flitAt'[p] = start[p]
    <3>1. CASE p = idx
      BY <1>1, <1>2, <1>4, <3>1 DEF IInv, TypeOK, Remove
    <3>2. CASE p # idx
      BY <1>1, <1>2, <1>4, <2>1, <3>2 DEF IInv, TypeOK, Removing, Remove, Ports, Entries
    <3> QED
      BY <3>1, <3>2
  <2> QED
    BY <1>1, <1>2, <1>3, <2>1 DEF Removing, Entries
<1>8. (Occupied(start))' = Occupied(start)
  BY <1>2 DEF Occupied
<1> QED
  BY <1>5, <1>6, <1>7, <1>8 DEF IInv, Remove

\* Between the loops all ports are empty and every flit is in the next entry.
LEMMA TurnInv ==
  ASSUME IInv, Turn
  PROVE  IInv'
<1> USE SpinAssumption
<1>1. TypeOK'
  BY DEF IInv, TypeOK, Turn
<1>2. Matching'
  BY DEF IInv, Matching, Turn
<1>3. Inserting'
  <2>1. (From(idx - 1))' = Below(idx)
    BY DEF From, Below, Occupied, Turn, Ports
  <2>2. \A p \in Ports : p < idx
    BY DEF Turn, Ports
  <2>3. \A p \in Ports : flit_[p + 1] = start[p] /\ flitAt[p] = NoFlit
    BY <2>2 DEF IInv, Removing, Turn
  <2>4. \A p \in Ports : ~Filled(p)'
    BY DEF Filled, Turn, Ports
  <2> QED
    BY <2>1, <2>3, <2>4 DEF IInv, Removing, Inserting, Turn
<1>4. (Occupied(start))' = Occupied(start)
  BY DEF Occupied, Turn
<1> QED
  BY <1>1, <1>2, <1>3, <1>4 DEF IInv, Turn

\* An iteration of the second loop: entry idx goes to its port, still empty.
LEMMA InsertInv ==
  ASSUME IInv, Insert
  PROVE  IInv'
<1> USE SpinAssumption
<1>1. /\ idx \in 1 .. N
      /\ PortOf(idx) \in Ports
      /\ idx - 1 \in Ports
      /\ Before(PortOf(idx)) = idx - 1
  BY DEF IInv, TypeOK, Inserting, Insert, PortOf, Ports, Before
<1>2. flit_[idx] = start[idx - 1] /\ start' = start /\ flit_' = flit_ /\ idx' = idx + 1
  <2>1. flit_[(idx - 1) + 1] = start[idx - 1]
    BY <1>1 DEF IInv, Inserting, Insert
  <2> QED
    BY <1>1, <2>1 DEF Insert
<1>3. flitAt[PortOf(idx)] = NoFlit
  BY <1>1 DEF IInv, Inserting, Insert, Filled, PortOf
<1>4. num_pkts' = Cardinality((From(idx - 1))') /\ num_pkts' \in 0 .. N
  <2>1. From(idx - 1) \in SUBSET Ports /\ (From(idx - 1))' \in SUBSET Ports
    BY DEF From, Occupied
  <2>2. CASE flit_[idx] = NoFlit
    <3>1. ASSUME NEW p \in Ports, start[p] # NoFlit
          PROVE  p >= idx - 1 <=> p >= idx' - 1
      <4>1. p # idx - 1
        BY <1>2, <2>2, <3>1
      <4> QED
        BY <1>1, <1>2, <4>1 DEF Ports
    <3>2. (From(idx - 1))' = From(idx - 1)
      BY <1>2, <3>1 DEF From, Occupied
    <3> QED
      BY <2>1, <2>2, <3>2, CountType DEF IInv, Inserting, Insert
  <2>3. CASE flit_[idx] # NoFlit
    <3>1. (From(idx - 1))' = From(idx - 1) \ {idx - 1}
      BY <1>1, <1>2, <2>3 DEF From, Occupied, Ports
    <3>2. idx - 1 \in From(idx - 1)
      BY <1>1, <1>2, <2>3 DEF From, Occupied, Ports
    <3>3. Cardinality((From(idx - 1))') = Cardinality(From(idx - 1)) - 1
      BY <2>1, <3>1, <3>2, CountType, FS_RemoveElement
    <3> QED
      BY <2>1, <2>3, <3>3, CountType DEF IInv, Inserting, Insert
  <2> QED
    BY <2>2, <2>3
<1>5. /\ flitAt' = [flitAt EXCEPT ![PortOf(idx)] = flit_[idx]]
      /\ outvc' = [outvc EXCEPT ![PortOf(idx)] = OutVcFor(flit_[idx])]
      /\ ivc' = [ivc EXCEPT ![PortOf(idx)] = IF flit_[idx] = NoFlit THEN "IDLE" ELSE "ACTIVE"]
  <2>1. outvc[PortOf(idx)] = OutVcFor(NoFlit) /\ ivc[PortOf(idx)] = "IDLE"
    BY <1>1, <1>3 DEF IInv, Matching
  <2>2. CASE flit_[idx] = NoFlit
    BY <1>1, <1>3, <2>1, <2>2 DEF IInv, TypeOK, Insert
  <2>3. CASE flit_[idx] # NoFlit
    BY <1>1, <2>1, <2>3 DEF IInv, TypeOK, Insert, decrement_credit, OutVcFor
  <2> QED
    BY <2>2, <2>3
<1>6. TypeOK'
  <2>1. flit_[idx] \in Slot
    BY <1>1 DEF IInv, TypeOK, Entries
  <2>2. flitAt' \in [Ports -> Slot]
    BY <1>5, <2>1 DEF IInv, TypeOK
  <2>3. outvc' \in [Ports -> [state: {"IDLE", "ACTIVE"}, credits: 0 .. BufDepth]]
    BY <1>5, OutVcType DEF IInv, TypeOK
  <2>4. ivc' \in [Ports -> {"IDLE", "ACTIVE"}]
    BY <1>5 DEF IInv, TypeOK
  <2>5. idx' \in 0 .. N + 1
    BY <1>1, <1>2
  <2> QED
    BY <1>4, <2>2, <2>3, <2>4, <2>5 DEF IInv, TypeOK, Insert
<1>7. Matching'
  BY <1>1, <1>5 DEF IInv, TypeOK, Matching
<1>8. Inserting'
  <2>1. ASSUME NEW p \in Ports
        PROVE  flitAt'[p] = IF Filled(p)' THEN start[Before(p)] ELSE NoFlit
    <3>1. CASE p = PortOf(idx)
      <4>1. Filled(p)'
        BY <1>1, <1>2, <3>1 DEF Filled, PortOf
      <4> QED
        BY <1>1, <1>2, <1>5, <3>1, <4>1 DEF IInv, TypeOK
    <3>2. CASE p # PortOf(idx)
      <4>1. Filled(p)' <=> Filled(p)
        BY <1>1, <1>2, <3>2 DEF Filled, PortOf, Ports
      <4>2. flitAt'[p] = flitAt[p]
        BY <1>1, <1>5, <3>2 DEF IInv, TypeOK
      <4> QED
        BY <4>1, <4>2 DEF IInv, Inserting, Insert
    <3> QED
      BY <3>1, <3>2
  <2>2. \A p \in Ports : flit_'[p + 1] = start'[p]
    BY <1>2 DEF IInv, Inserting, Insert
  <2> QED
    BY <1>1, <1>2, <1>4, <2>1, <2>2 DEF Inserting
<1>9. (Occupied(start))' = Occupied(start)
  BY <1>2 DEF Occupied
<1> QED
  BY <1>6, <1>7, <1>8, <1>9 DEF IInv, Insert

\* The return of doSpin changes nothing but the control state.
LEMMA FinishInv ==
  ASSUME IInv, Finish
  PROVE  IInv'
<1>1. TypeOK'
  BY DEF IInv, TypeOK, Finish
<1>2. Matching'
  BY DEF IInv, Matching, Finish
<1> QED
  BY <1>1, <1>2 DEF IInv, Finish

\* Traffic between spins keeps VCs and flits matching.
LEMMA TrafficInv ==
  ASSUME IInv, NEW p \in Ports,
         DepartFrom(p) \/ \E f \in Flits : ArriveAt(p, f)
  PROVE  IInv'
<1>1. PICK f \in Slot :
        /\ flitAt' = [flitAt EXCEPT ![p] = f]
        /\ outvc' = [outvc EXCEPT ![p] = OutVcFor(f)]
        /\ ivc' = [ivc EXCEPT ![p] = IF f = NoFlit THEN "IDLE" ELSE "ACTIVE"]
        /\ stage = "idle"
        /\ UNCHANGED <<stage, idx, flit_, num_pkts, spun_pkt_num, start>>
  BY SpinAssumption DEF DepartFrom, ArriveAt, Depart, Arrive, Slot
<1>2. TypeOK'
  <2>1. outvc' \in [Ports -> [state: {"IDLE", "ACTIVE"}, credits: 0 .. BufDepth]]
    BY <1>1, OutVcType DEF IInv, TypeOK
  <2>2. flitAt' \in [Ports -> Slot] /\ ivc' \in [Ports -> {"IDLE", "ACTIVE"}]
    BY <1>1 DEF IInv, TypeOK
  <2> QED
    BY <1>1, <2>1, <2>2 DEF IInv, TypeOK
<1>3. Matching'
  BY <1>1 DEF IInv, TypeOK, Matching
<1> QED
  BY <1>1, <1>2, <1>3 DEF IInv

\* Every step preserves the inductive invariant.
LEMMA NextInv == IInv /\ [DNext]_vars => IInv'
<1> SUFFICES ASSUME IInv, [DNext]_vars PROVE IInv'
  OBVIOUS
<1>1. CASE doSpin
  BY <1>1, BeginInv, RemoveInv, TurnInv, InsertInv, FinishInv DEF doSpin
<1>2. CASE \E p \in Ports : DepartFrom(p) \/ \E f \in Flits : ArriveAt(p, f)
  BY <1>2, TrafficInv
<1>3. CASE UNCHANGED vars
  BY <1>3 DEF vars, IInv, TypeOK, Matching, Removing, Inserting, Below, From, Occupied, Filled
<1> QED
  BY <1>1, <1>2, <1>3 DEF DNext

\* The inductive invariant holds in every reachable state.
THEOREM Invariance == DSpec => []IInv
  BY InitInv, NextInv, PTL DEF DSpec

\* The asserts of doSpin and OutVcState that a spin evaluates never fail.
THEOREM AssertsNeverFail == DSpec => []AssertsHold
<1>1. IInv => AssertsHold
  <2> SUFFICES ASSUME IInv PROVE AssertsHold
    OBVIOUS
  <2> USE SpinAssumption
  <2>1. ASSUME stage = "remove", idx = N PROVE num_pkts = spun_pkt_num
    <3>1. Below(N) = Occupied(start)
      BY DEF Below, Occupied, Ports
    <3> QED
      BY <2>1, <3>1 DEF IInv, Removing
  <2>2. ASSUME stage = "insert", idx = N + 1 PROVE num_pkts = 0
    <3>1. From(idx - 1) = {}
      BY <2>2 DEF From, Occupied, Ports
    <3> QED
      BY <2>2, <3>1, FS_EmptySet DEF IInv, Inserting
  <2>3. ASSUME stage = "remove", idx < N, flitAt[idx] # NoFlit
        PROVE  outvc[idx].credits < BufDepth
    <3>1. idx \in Ports
      BY <2>3 DEF IInv, TypeOK, Ports
    <3> QED
      BY <2>3, <3>1 DEF IInv, Matching, OutVcFor
  <2>4. ASSUME stage = "insert", idx <= N
        PROVE  ivc[PortOf(idx)] = "IDLE" /\ outvc[PortOf(idx)].credits > 0
    <3>1. PortOf(idx) \in Ports /\ ~Filled(PortOf(idx))
      BY <2>4 DEF IInv, TypeOK, Inserting, PortOf, Ports, Filled
    <3>2. flitAt[PortOf(idx)] = NoFlit
      BY <2>4, <3>1 DEF IInv, Inserting
    <3> QED
      BY <3>1, <3>2 DEF IInv, Matching, OutVcFor
  <2> QED
    BY <2>1, <2>2, <2>3, <2>4 DEF AssertsHold
<1> QED
  BY <1>1, Invariance, PTL

-----------------------------------------------------------------------------
\* The state AtomicSpin sees.
AbsFlitAt == IF stage = "idle" THEN flitAt ELSE start
AbsOutvc  == IF stage = "idle" THEN outvc ELSE [p \in Ports |-> OutVcFor(start[p])]

\* With the invariant, the output VCs are a function of the flits.
LEMMA OutvcIs ==
  ASSUME IInv
  PROVE  outvc = [p \in Ports |-> OutVcFor(flitAt[p])]
  BY DEF IInv, TypeOK, Matching

\* After the second loop every flit is one port further.
LEMMA Rotated ==
  ASSUME IInv, stage = "insert", idx = N + 1
  PROVE  flitAt = [p \in Ports |-> start[Before(p)]]
<1>1. \A p \in Ports : Filled(p)
  BY SpinAssumption DEF Filled, Ports
<1> QED
  BY <1>1 DEF IInv, TypeOK, Inserting

\* Every step of doSpin is a step of AtomicSpin or leaves its state alone.
LEMMA StepRefines ==
  ASSUME IInv, [DNext]_vars
  PROVE  [Atomic!Next]_<<AbsFlitAt, AbsOutvc>>
<1> USE DEF AbsFlitAt, AbsOutvc
<1>0. /\ Atomic!Ports = Ports
      /\ \A f : Atomic!OutVcFor(f) = OutVcFor(f)
      /\ \A p : Atomic!Before(p) = Before(p)
  BY DEF Atomic!Ports, Ports, Atomic!OutVcFor, OutVcFor, Atomic!Before, Before
<1>1. CASE Begin
  BY <1>1, OutvcIs DEF Begin
<1>2. CASE Remove \/ Turn \/ Insert
  BY <1>2 DEF Remove, Turn, Insert
<1>3. CASE Finish
  <2>1. flitAt = [p \in Ports |-> start[Before(p)]]
    BY <1>3, Rotated DEF Finish
  <2>2. outvc = [p \in Ports |-> OutVcFor(start[Before(p)])]
    BY <2>1, OutvcIs
  <2> QED
    BY <1>0, <1>3, <2>1, <2>2 DEF Finish, Atomic!Next, Atomic!Spin
<1>4. CASE \E p \in Ports : DepartFrom(p)
  BY <1>0, <1>4 DEF DepartFrom, Depart, Atomic!Next, Atomic!Depart
<1>5. CASE \E p \in Ports, f \in Flits : ArriveAt(p, f)
  BY <1>0, <1>5 DEF ArriveAt, Arrive, Atomic!Next, Atomic!Arrive
<1>6. CASE UNCHANGED vars
  BY <1>6 DEF vars
<1> QED
  BY <1>1, <1>2, <1>3, <1>4, <1>5, <1>6 DEF DNext, doSpin

\* Two loops over the ring with 2-stage credit management amount to one
\* rotation of the drain path.
THEOREM DoSpinIsAtomic == DSpec => IsAtomicSpin
<1>1. DInit => Atomic!Init
  BY DEF DInit, Init, Atomic!Init, Atomic!Ports, Ports, Atomic!OutVcFor, OutVcFor
<1>2. IInv /\ [DNext]_vars => [Atomic!Next]_<<AbsFlitAt, AbsOutvc>>
  BY StepRefines
<1> QED
  BY <1>1, <1>2, Invariance, PTL DEF DSpec, IsAtomicSpin, Atomic!Spec, AbsFlitAt, AbsOutvc
=============================================================================
