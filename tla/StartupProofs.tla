---------------------------- MODULE StartupProofs ----------------------------
(***************************************************************************)
(* What a network with --spin starts with: the drain path that the reader  *)
(* accepts is the one its file describes, for files of any length, and the *)
(* matrix that the sweeps of extend_shortest_path leave holds the shortest *)
(* distances, for any topology.                                            *)
(***************************************************************************)
EXTENDS Startup, SequenceTheorems, WellFoundedInduction, TLAPS

(***************************************************************************)
(* The reader.  As long as it reads, it has consumed two tokens for each   *)
(* entry it has pushed, and data1 holds nothing that counts as a letter:   *)
(* so a read that fails cannot make an entry of what an earlier one left.  *)
(***************************************************************************)
Entries == Len(spinRing) - 1

EntriesRead ==
  /\ Entries \in Nat
  /\ pos = 2 * Entries
  /\ pos <= Len(file.tokens)
  /\ \A i \in 1 .. Entries :
       /\ file.tokens[2 * i - 1] \in DOMAIN Numbers
       /\ file.tokens[2 * i] \in DOMAIN Letters
       /\ spinRing[i + 1] = <<Numbers[file.tokens[2 * i - 1]], Letters[file.tokens[2 * i]]>>

FileTyped == file.tokens \in Seq(STRING) /\ file.newline \in BOOLEAN

Reading ==
  /\ \E S : spinRing \in Seq(S)
  /\ spinRing[1] = Unknown
  /\ EntriesRead
  /\ data1 \notin DOMAIN Letters
  /\ eof \in BOOLEAN
  /\ eof => pos = Len(file.tokens)

ReaderInv ==
  /\ FileTyped
  /\ status = "reading" => Reading
  /\ AcceptedRingIsTheFile

\* A ring of one entry.
LEMMA OneEntry ==
  ASSUME NEW x
  PROVE  <<x>> \in Seq({x}) /\ Len(<<x>>) = 1 /\ <<x>>[1] = x
  OBVIOUS

LEMMA ReaderInvInit == Init => ReaderInv
<1> SUFFICES ASSUME Init PROVE ReaderInv
  OBVIOUS
<1>1. FileTyped
  BY SetupAssumption DEF Init, FileTyped
<1>2. /\ pos = 0 /\ eof = FALSE /\ data1 = "" /\ spinRing = <<Unknown>> /\ status = "reading"
  BY DEF Init, ReaderInit
<1>3. spinRing \in Seq({Unknown}) /\ Len(spinRing) = 1 /\ spinRing[1] = Unknown
  BY <1>2, OneEntry
<1>4. EntriesRead
  <2>1. Entries = 0 /\ Len(file.tokens) \in Nat
    BY <1>1, <1>3 DEF Entries, FileTyped
  <2>2. pos = 0
    BY <1>2
  <2> QED
    BY <2>1, <2>2 DEF EntriesRead
<1>5. Reading
  <2>1. \E S : spinRing \in Seq(S)
    BY <1>3
  <2>2. data1 \notin DOMAIN Letters
    BY <1>2, ReaderAssumption
  <2> QED
    BY <1>2, <1>3, <1>4, <2>1, <2>2, Zenon DEF Reading
<1> QED
  BY <1>1, <1>2, <1>5 DEF ReaderInv, AcceptedRingIsTheFile

\* An entry is made of two tokens that are there, or the reader gives up.
LEMMA ReadsTwoTokens ==
  ASSUME FileTyped, Reading, ReadEntry, status' = "reading"
  PROVE  LET id  == file.tokens[pos + 1]
             dir == file.tokens[pos + 2]
         IN  /\ pos + 2 <= Len(file.tokens)
             /\ id \in DOMAIN Numbers /\ dir \in DOMAIN Letters
             /\ spinRing' = Append(spinRing, <<Numbers[id], Letters[dir]>>)
             /\ data1' = Letters[dir]
             /\ pos' = pos + 2
             /\ eof' \in BOOLEAN /\ (eof' => pos + 2 = Len(file.tokens))
<1> DEFINE id == Extract(pos, data)
           dir == Extract(Advance(pos), data1)
           e == Entry(id, dir)
<1>1. data1' = e.side /\ spinRing' = e.ring /\ e.status = "reading"
  BY DEF ReadEntry
<1>2. /\ dir \in DOMAIN Letters /\ id \in DOMAIN Numbers
      /\ e = [side |-> Letters[dir], ring |-> Append(spinRing, <<Numbers[id], Letters[dir]>>),
              status |-> "reading"]
  BY <1>1 DEF Entry
<1>3. pos \in Nat /\ Len(file.tokens) \in Nat /\ pos <= Len(file.tokens)
  BY DEF FileTyped, Reading, EntriesRead
<1>4. pos + 2 <= Len(file.tokens)
  <2> SUFFICES ASSUME pos + 2 > Len(file.tokens) PROVE dir = data1
    BY <1>2, <1>3 DEF Reading
  <2>1. ~(Advance(pos) < Len(file.tokens))
    BY <1>3 DEF Advance, HasToken
  <2> QED
    BY <2>1 DEF Extract, HasToken
<1>5. Advance(pos) = pos + 1 /\ Advance(pos + 1) = pos + 2
  BY <1>3, <1>4 DEF Advance, HasToken
<1>6. id = file.tokens[pos + 1] /\ dir = file.tokens[pos + 2]
  BY <1>3, <1>4, <1>5 DEF Extract, HasToken
<1>7. pos' = pos + 2
  BY <1>5 DEF ReadEntry
<1>8. eof' \in BOOLEAN /\ (eof' => MeetsEnd(pos) \/ MeetsEnd(pos + 1))
  BY <1>5 DEF ReadEntry
<1>9. MeetsEnd(pos) \/ MeetsEnd(pos + 1) => pos + 2 = Len(file.tokens)
  BY <1>3, <1>4 DEF MeetsEnd
<1> HIDE DEF id, dir, e
<1>10. spinRing' = Append(spinRing, <<Numbers[id], Letters[dir]>>) /\ data1' = Letters[dir]
  BY <1>1, <1>2
<1> QED
  BY <1>2, <1>4, <1>6, <1>7, <1>8, <1>9, <1>10

LEMMA ReadEntryKeeps ==
  ASSUME ReaderInv, ReadEntry
  PROVE  ReaderInv'
<1>1. FileTyped' /\ file' = file
  BY DEF ReaderInv, FileTyped, ReadEntry
<1>2. status' # "ok" /\ Reading /\ FileTyped
  BY DEF ReaderInv, ReadEntry, Entry
<1>3. ASSUME status' = "reading" PROVE Reading'
  <2> DEFINE id == file.tokens[pos + 1]
             dir == file.tokens[pos + 2]
             node == <<Numbers[id], Letters[dir]>>
  <2>1. /\ pos + 2 <= Len(file.tokens)
        /\ id \in DOMAIN Numbers /\ dir \in DOMAIN Letters
        /\ spinRing' = Append(spinRing, node)
        /\ data1' = Letters[dir]
        /\ pos' = pos + 2
        /\ eof' \in BOOLEAN /\ (eof' => pos + 2 = Len(file.tokens))
    BY <1>2, <1>3, ReadsTwoTokens
  <2>2. PICK S : spinRing \in Seq(S)
    BY <1>2 DEF Reading
  <2> DEFINE n == Entries
  <2>3. spinRing \in Seq(S \union {node}) /\ node \in S \union {node}
    BY <2>2, SeqMonotonic
  <2>4. /\ n \in Nat /\ pos = 2 * n /\ Len(spinRing) = n + 1
    BY <1>2, <2>2 DEF Reading, EntriesRead, Entries
  <2> HIDE DEF node
  <2>5. /\ spinRing' \in Seq(S \union {node})
        /\ Len(spinRing') = n + 2
        /\ \A i \in 1 .. n + 1 : spinRing'[i] = spinRing[i]
        /\ spinRing'[n + 2] = node
    BY <2>1, <2>3, <2>4, AppendProperties
  <2>6. Entries' = n + 1 /\ pos' = 2 * (n + 1)
    BY <2>1, <2>4, <2>5 DEF Entries
  <2>7. pos + 1 = 2 * (n + 1) - 1 /\ pos + 2 = 2 * (n + 1)
    BY <2>4
  <2> HIDE DEF n
  <2>8. ASSUME NEW i \in 1 .. n + 1
        PROVE  /\ file.tokens[2 * i - 1] \in DOMAIN Numbers
               /\ file.tokens[2 * i] \in DOMAIN Letters
               /\ spinRing'[i + 1] = <<Numbers[file.tokens[2 * i - 1]], Letters[file.tokens[2 * i]]>>
    <3>1. CASE i = n + 1
      <4>1. i + 1 = n + 2 /\ 2 * i - 1 = pos + 1 /\ 2 * i = pos + 2
        BY <2>4, <2>7, <3>1
      <4> QED
        BY <2>1, <2>5, <4>1 DEF node
    <3>2. CASE i \in 1 .. n
      <4>1. i + 1 \in 1 .. n + 1
        BY <2>4, <3>2
      <4>2. spinRing'[i + 1] = spinRing[i + 1]
        BY <2>5, <4>1
      <4> QED
        BY <1>2, <3>2, <4>2 DEF Reading, EntriesRead, n
    <3> QED
      BY <2>4, <3>1, <3>2
  <2>9. EntriesRead'
    <3>1. Entries' \in Nat /\ pos' = 2 * Entries' /\ pos' <= Len(file'.tokens)
      BY <1>1, <2>1, <2>4, <2>6
    <3>2. \A i \in 1 .. Entries' :
            /\ file'.tokens[2 * i - 1] \in DOMAIN Numbers
            /\ file'.tokens[2 * i] \in DOMAIN Letters
            /\ spinRing'[i + 1] = <<Numbers[file'.tokens[2 * i - 1]], Letters[file'.tokens[2 * i]]>>
      BY <1>1, <2>6, <2>8
    <3> QED
      BY <3>1, <3>2 DEF EntriesRead
  <2>10. spinRing'[1] = Unknown /\ \E T : spinRing' \in Seq(T)
    BY <1>2, <2>4, <2>5 DEF Reading
  <2>11. data1' \notin DOMAIN Letters
    BY <2>1, ReaderAssumption
  <2>12. eof' \in BOOLEAN /\ (eof' => pos' = Len(file'.tokens))
    BY <1>1, <2>1
  <2> QED
    BY <2>9, <2>10, <2>11, <2>12, Zenon DEF Reading
<1> QED
  BY <1>1, <1>2, <1>3 DEF ReaderInv, AcceptedRingIsTheFile

\* The path that is closed has an entry, and it is the one of the file.
LEMMA CloseRingKeeps ==
  ASSUME ReaderInv, CloseRing
  PROVE  ReaderInv'
<1>1. FileTyped' /\ file' = file /\ Reading /\ FileTyped /\ status' # "reading" /\ eof
  BY DEF ReaderInv, FileTyped, CloseRing
<1>2. ASSUME status' = "ok"
      PROVE  WellFormed(file) /\ spinRing' = RingOf(file)
  <2> DEFINE n == Entries
             last == Last(spinRing)[1]
             side == FirstSide(last)
             first == <<0, side>>
  <2>1. side # "none" /\ spinRing' = Append([spinRing EXCEPT ![1] = first], first)
    BY <1>2 DEF CloseRing
  <2>2. PICK S : spinRing \in Seq(S)
    BY <1>1 DEF Reading
  <2>3. n \in Nat /\ Len(spinRing) = n + 1 /\ Len(file.tokens) = 2 * n
    BY <1>1, <2>2 DEF Reading, EntriesRead, Entries
  <2>4. \A i \in 1 .. n :
          /\ file.tokens[2 * i - 1] \in DOMAIN Numbers
          /\ file.tokens[2 * i] \in DOMAIN Letters
          /\ spinRing[i + 1] = <<Numbers[file.tokens[2 * i - 1]], Letters[file.tokens[2 * i]]>>
    BY <1>1 DEF Reading, EntriesRead
  <2>5. last = spinRing[n + 1][1]
    BY <2>3 DEF Last
  <2>6. n > 0
    <3> SUFFICES ASSUME n = 0 PROVE FALSE
      BY <2>3
    <3>1. spinRing[n + 1] = Unknown
      BY <1>1 DEF Reading
    <3>2. last = -1
      BY <2>5, <3>1 DEF Unknown
    <3>3. -1 # 1 /\ -1 # NumRows
      <4>1. NumRows \in Nat
        BY ReaderAssumption
      <4> QED
        BY <4>1
    <3> HIDE DEF last
    <3>4. last # 1 /\ last # NumRows
      BY <3>2, <3>3
    <3> QED
      BY <2>1, <3>4 DEF FirstSide
  <2> HIDE DEF n
  <2>7. Pairs(file) = n /\ Len(file.tokens) % 2 = 0 /\ Len(file.tokens) > 0
    BY <2>3, <2>6 DEF Pairs
  <2>8. WellFormed(file)
    BY <2>4, <2>7 DEF WellFormed
  <2> DEFINE N == Nodes(file)
             T == S \union {first} \union {N[i] : i \in 1 .. n}
  <2>9. /\ N = [i \in 1 .. n |-> <<Numbers[file.tokens[2 * i - 1]], Letters[file.tokens[2 * i]]>>]
    BY <2>7 DEF Nodes
  <2>10. \A i \in 1 .. n : N[i] = spinRing[i + 1]
    BY <2>4, <2>9
  <2> HIDE DEF N
  <2>11. N \in Seq(T) /\ Len(N) = n
    <3>1. N \in [1 .. n -> T]
      BY <2>9
    <3> HIDE DEF T
    <3> QED
      BY <2>3, <3>1
  <2>12. Last(N) = spinRing[n + 1]
    BY <2>3, <2>6, <2>10, <2>11 DEF Last
  <2>13. side = FacesZero(Last(N)[1])
    BY <2>1, <2>5, <2>12 DEF FirstSide, FacesZero
  <2>14. RingOf(file) = <<first>> \o N \o <<first>>
    BY <2>13 DEF RingOf, N
  <2> HIDE DEF side
  <2>15. spinRing \in Seq(T) /\ first \in T
    BY <2>2, SeqMonotonic
  <2> HIDE DEF T, first
  <2> DEFINE r == [spinRing EXCEPT ![1] = first]
  <2>16. /\ r \in Seq(T) /\ Len(r) = n + 1
         /\ \A j \in 1 .. n + 1 : r[j] = IF j = 1 THEN first ELSE spinRing[j]
    BY <2>3, <2>15, ExceptSeq
  <2> HIDE DEF r
  <2>17. /\ Append(r, first) \in Seq(T) /\ Len(Append(r, first)) = n + 2
         /\ \A j \in 1 .. n + 1 : Append(r, first)[j] = r[j]
         /\ Append(r, first)[n + 2] = first
    BY <2>3, <2>15, <2>16, AppendProperties
  <2>18. <<first>> \in Seq(T) /\ Len(<<first>>) = 1 /\ <<first>>[1] = first
    BY <2>15
  <2> DEFINE a == <<first>> \o N
             b == <<first>> \o N \o <<first>>
  <2>19. /\ a \in Seq(T) /\ Len(a) = n + 1
         /\ \A j \in 1 .. n + 1 : a[j] = IF j = 1 THEN first ELSE N[j - 1]
    BY <2>3, <2>11, <2>18, ConcatProperties
  <2> HIDE DEF a
  <2>20. b = a \o <<first>>
    BY DEF a
  <2>21. /\ b \in Seq(T) /\ Len(b) = n + 2
         /\ \A j \in 1 .. n + 1 : b[j] = a[j]
         /\ b[n + 2] = first
    <3> DEFINE f == <<first>>
    <3> HIDE DEF f
    <3>1. f \in Seq(T) /\ Len(f) = 1 /\ f[1] = first /\ b = a \o f
      BY <2>18, <2>20 DEF f
    <3>2. /\ a \o f \in Seq(T) /\ Len(a \o f) = Len(a) + Len(f)
          /\ \A j \in 1 .. Len(a) + Len(f) :
               (a \o f)[j] = IF j <= Len(a) THEN a[j] ELSE f[j - Len(a)]
      BY <2>19, <3>1, ConcatProperties
    <3>3. \A j \in 1 .. n + 1 : j \in 1 .. (n + 1) + 1 /\ j <= n + 1
      BY <2>3
    <3>4. n + 2 \in 1 .. (n + 1) + 1 /\ ~(n + 2 <= n + 1) /\ (n + 2) - (n + 1) = 1
      BY <2>3
    <3>5. Len(a) = n + 1 /\ Len(f) = 1 /\ (n + 1) + 1 = n + 2
      BY <2>3, <2>19, <3>1
    <3> HIDE DEF b
    <3> QED
      BY <3>1, <3>2, <3>3, <3>4, <3>5
  <2> HIDE DEF b
  <2>22. \A j \in 1 .. n + 2 : Append(r, first)[j] = b[j]
    <3> TAKE j \in 1 .. n + 2
    <3>1. CASE j = n + 2
      BY <2>17, <2>21, <3>1
    <3>2. CASE j = 1
      BY <2>3, <2>16, <2>17, <2>19, <2>21, <3>2
    <3>3. CASE j \in 2 .. n + 1
      <4>1. j \in 1 .. n + 1 /\ j # 1 /\ j - 1 \in 1 .. n /\ (j - 1) + 1 = j
        BY <2>3, <3>3
      <4> QED
        BY <2>10, <2>16, <2>17, <2>19, <2>21, <4>1
    <3>4. j = n + 2 \/ j = 1 \/ j \in 2 .. n + 1
      BY <2>3
    <3> QED
      BY <3>1, <3>2, <3>3, <3>4
  <2>23. Append(r, first) = b
    BY <2>3, <2>17, <2>21, <2>22, SeqEqual
  <2> QED
    BY <2>1, <2>8, <2>14, <2>23 DEF r, b
<1> QED
  BY <1>1, <1>2 DEF ReaderInv, AcceptedRingIsTheFile

-----------------------------------------------------------------------------
(***************************************************************************)
(* The sweeps.  A cell only ever shrinks, to the length of a walk.  What   *)
(* bounds it from below is stated without walks: a potential that no link  *)
(* changes by more than its weight changes by no more than dist[<<x, y>>]  *)
(* between x and y.  And as long as a sweep has changed nothing, no detour *)
(* shortens the cells behind it.                                           *)
(***************************************************************************)
Cells == Switches \X Switches

WeightsTyped ==
  /\ weights \in [Cells -> Nat]
  /\ \A i \in Switches : weights[<<i, i>>] = 0
  /\ \A i, j \in Switches : i # j => weights[<<i, j>>] \in LinkWeights \union {INFINITE_LATENCY}

Potential(p) == \A x, y \in Switches : p[x] - p[y] <= weights[<<x, y>>]

NoShorterThanLinks ==
  \A p \in [Switches -> Int] :
    Potential(p) => \A x, y \in Switches : p[x] - p[y] <= dist[<<x, y>>]

NoLongerThanLinks ==
  /\ \A i \in Switches : dist[<<i, i>>] = 0
  /\ \A i, j \in Switches : dist[<<i, j>>] <= weights[<<i, j>>]

Closed(c) == \A k \in Switches : dist[c] <= dist[<<c[1], k>>] + dist[<<k, c[2]>>]

Before(c, e) == c[1] < e[1] \/ (c[1] = e[1] /\ c[2] < e[2])

SweepInv ==
  /\ ~change /\ ~done => \A c \in Cells : Before(c, cell) => Closed(c)
  /\ done => \A c \in Cells : Closed(c)

PathTyped ==
  /\ dist \in [Cells -> Nat]
  /\ cell \in Cells
  /\ change \in BOOLEAN
  /\ done \in BOOLEAN

PathInv ==
  WeightsTyped /\ PathTyped /\ NoLongerThanLinks /\ NoShorterThanLinks /\ SweepInv

\* A set of naturals that is not empty has a least element, and Min is it.
LEMMA MinIsLeast ==
  ASSUME NEW S \in SUBSET Nat, S # {}
  PROVE  Min(S) \in S /\ \A y \in S : Min(S) <= y
<1> DEFINE R == OpToRel(<, Nat)
<1>1. \E x \in S : \A y \in S : ~(<<y, x>> \in R)
  BY NatLessThanWellFounded, WFMin
<1>2. R = { ss \in Nat \X Nat : ss[1] < ss[2] }
  BY Zenon DEF OpToRel
<1> HIDE DEF R
<1>3. \A x, y \in S : ~(<<y, x>> \in R) => x <= y
  BY <1>2
<1>4. \E x \in S : \A y \in S : x <= y
  BY <1>1, <1>3
<1> QED
  BY <1>4 DEF Min

\* The cells of the matrix, in the order of the two loops.
LEMMA CellFacts ==
  /\ NumNodes \in Nat \ {0}
  /\ \A i \in Switches : i \in Nat /\ i <= NumNodes - 1
  /\ \A c \in Cells : c[1] \in Switches /\ c[2] \in Switches /\ c = <<c[1], c[2]>>
  /\ \A i, j \in Switches : <<i, j>> \in Cells
  BY TopologyAssumption DEF Switches, Cells

LEMMA SweepOrder ==
  ASSUME NEW e \in Cells
  PROVE  /\ <<0, 0>> \in Cells /\ \A c \in Cells : ~Before(c, <<0, 0>>)
         /\ e = LastCell => \A c \in Cells : Before(c, e) \/ c = e
         /\ e # LastCell => /\ NextCell(e) \in Cells
                            /\ \A c \in Cells : Before(c, NextCell(e)) => Before(c, e) \/ c = e
<1>1. /\ NumNodes \in Nat \ {0} /\ Switches = 0 .. NumNodes - 1
      /\ e[1] \in 0 .. NumNodes - 1 /\ e[2] \in 0 .. NumNodes - 1 /\ e = <<e[1], e[2]>>
      /\ \A c \in Cells : /\ c[1] \in 0 .. NumNodes - 1 /\ c[2] \in 0 .. NumNodes - 1
                          /\ c = <<c[1], c[2]>>
  BY TopologyAssumption DEF Switches, Cells
<1>2. <<0, 0>> \in Cells /\ \A c \in Cells : ~Before(c, <<0, 0>>)
  BY <1>1 DEF Before, Cells
<1>3. ASSUME e = LastCell, NEW c \in Cells
      PROVE  Before(c, e) \/ c = e
  <2>1. e[1] = NumNodes - 1 /\ e[2] = NumNodes - 1
    BY <1>3 DEF LastCell
  <2>2. c[1] < e[1] \/ (c[1] = e[1] /\ c[2] < e[2]) \/ (c[1] = e[1] /\ c[2] = e[2])
    BY <1>1, <2>1
  <2> QED
    BY <1>1, <2>2 DEF Before
<1>4. ASSUME e # LastCell
      PROVE  NextCell(e) \in Cells
  <2>1. ~(e[1] = NumNodes - 1 /\ e[2] = NumNodes - 1)
    BY <1>1, <1>4 DEF LastCell
  <2>2. CASE e[2] + 1 < NumNodes
    BY <1>1, <2>2 DEF NextCell, Cells
  <2>3. CASE ~(e[2] + 1 < NumNodes)
    <3>1. e[1] + 1 \in 0 .. NumNodes - 1 /\ 0 \in 0 .. NumNodes - 1
      BY <1>1, <2>1, <2>3
    <3> QED
      BY <1>1, <2>3, <3>1 DEF NextCell, Cells
  <2> QED
    BY <2>2, <2>3
<1>5. ASSUME NEW c \in Cells, Before(c, NextCell(e))
      PROVE  Before(c, e) \/ c = e
  <2>1. CASE e[2] + 1 < NumNodes
    <3>1. c[1] < e[1] \/ (c[1] = e[1] /\ c[2] < e[2] + 1)
      BY <1>5, <2>1 DEF NextCell, Before
    <3>2. c[1] < e[1] \/ (c[1] = e[1] /\ c[2] < e[2]) \/ (c[1] = e[1] /\ c[2] = e[2])
      BY <1>1, <3>1
    <3> QED
      BY <1>1, <3>2 DEF Before
  <2>2. CASE ~(e[2] + 1 < NumNodes)
    <3>1. c[1] < e[1] + 1 \/ (c[1] = e[1] + 1 /\ c[2] < 0)
      BY <1>5, <2>2 DEF NextCell, Before
    <3>2. c[1] < e[1] \/ (c[1] = e[1] /\ c[2] < e[2]) \/ (c[1] = e[1] /\ c[2] = e[2])
      BY <1>1, <2>2, <3>1
    <3> QED
      BY <1>1, <3>2 DEF Before
  <2> QED
    BY <2>1, <2>2
<1> QED
  BY <1>2, <1>3, <1>4, <1>5

\* A cell becomes the least of itself and of its detours.
LEMMA ShortestIsLeast ==
  ASSUME PathTyped, NEW i \in Switches, NEW j \in Switches
  PROVE  /\ Shortest(i, j) \in Nat
         /\ Shortest(i, j) <= dist[<<i, j>>]
         /\ \A k \in Switches : Shortest(i, j) <= dist[<<i, k>>] + dist[<<k, j>>]
         /\ \/ Shortest(i, j) = dist[<<i, j>>]
            \/ \E k \in Switches : Shortest(i, j) = dist[<<i, k>>] + dist[<<k, j>>]
<1> DEFINE Ways == { dist[<<i, k>>] + dist[<<k, j>>] : k \in Switches }
           All == {dist[<<i, j>>]} \union Ways
<1>1. \A k, l \in Switches : dist[<<k, l>>] \in Nat
  BY CellFacts DEF PathTyped
<1>2. All \in SUBSET Nat /\ All # {}
  <2>1. \A k \in Switches : dist[<<i, k>>] + dist[<<k, j>>] \in Nat
    BY <1>1
  <2> QED
    BY <1>1, <2>1
<1>3. Shortest(i, j) = Min(All)
  BY DEF Shortest
<1>4. \A k \in Switches : dist[<<i, k>>] + dist[<<k, j>>] \in All
  OBVIOUS
<1>5. \A y \in All : y = dist[<<i, j>>] \/ \E k \in Switches : y = dist[<<i, k>>] + dist[<<k, j>>]
  OBVIOUS
<1>6. dist[<<i, j>>] \in All
  OBVIOUS
<1> HIDE DEF All
<1>7. Min(All) \in All /\ \A y \in All : Min(All) <= y
  BY <1>2, MinIsLeast
<1> QED
  BY <1>2, <1>3, <1>4, <1>5, <1>6, <1>7

LEMMA WeightsAreTyped ==
  ASSUME weights \in Topologies
  PROVE  WeightsTyped
<1>1. /\ weights \in [Switches \X Switches -> LinkWeights \union {0, INFINITE_LATENCY}]
      /\ \A i, j \in Switches : weights[<<i, j>>] = 0 <=> i = j
  BY DEF Topologies
<1>4. LinkWeights \union {INFINITE_LATENCY} \subseteq Nat
  BY TopologyAssumption
<1>6. \A i, j \in Switches : i # j => weights[<<i, j>>] \in LinkWeights \union {INFINITE_LATENCY}
  BY <1>1
<1>7. \A i \in Switches : weights[<<i, i>>] = 0
  BY <1>1
<1>8. \A c \in Cells : weights[c] \in Nat
  <2> TAKE c \in Cells
  <2>1. c[1] \in Switches /\ c[2] \in Switches /\ c = <<c[1], c[2]>>
    BY CellFacts
  <2>2. weights[<<c[1], c[2]>>] \in Nat
    BY <1>4, <1>6, <1>7, <2>1
  <2> QED
    BY <2>1, <2>2
<1>9. weights \in [Cells -> Nat]
  BY <1>1, <1>8 DEF Cells
<1> QED
  BY <1>6, <1>7, <1>9 DEF WeightsTyped

LEMMA PathInvInit == Init => PathInv
<1> SUFFICES ASSUME Init PROVE PathInv
  OBVIOUS
<1>1. WeightsTyped
  BY SetupAssumption, WeightsAreTyped DEF Init
<1>2. dist = weights /\ cell = <<0, 0>> /\ change = FALSE /\ done = FALSE
  BY DEF Init, PathsInit
<1>3. <<0, 0>> \in Cells /\ \A c \in Cells : ~Before(c, <<0, 0>>)
  <2>1. 0 \in Switches
    BY CellFacts DEF Switches
  <2> QED
    BY <2>1, CellFacts, SweepOrder
<1>4. PathTyped
  BY <1>1, <1>2, <1>3 DEF PathTyped, WeightsTyped
<1>5. NoLongerThanLinks
  BY <1>1, <1>2, CellFacts DEF NoLongerThanLinks, WeightsTyped
<1>6. NoShorterThanLinks
  BY <1>2 DEF NoShorterThanLinks, Potential
<1>7. SweepInv
  BY <1>2, <1>3 DEF SweepInv
<1> QED
  BY <1>1, <1>4, <1>5, <1>6, <1>7 DEF PathInv

LEMMA RelaxKeeps ==
  ASSUME PathInv, Relax
  PROVE  PathInv'
<1> DEFINE i == cell[1]
           j == cell[2]
           m == Shortest(i, j)
<1>1. i \in Switches /\ j \in Switches /\ cell = <<i, j>> /\ cell \in Cells
  BY CellFacts DEF PathInv, PathTyped
<1>2. PICK changed \in {change \/ m # dist[cell]} :
        /\ dist' = [dist EXCEPT ![cell] = m]
        /\ IF cell = LastCell
           THEN SweepOver(changed)
           ELSE /\ cell' = NextCell(cell)
                /\ change' = changed
                /\ UNCHANGED done
  BY DEF Relax
<1>3. ~done /\ weights' = weights /\ changed \in BOOLEAN /\ (changed <=> change \/ m # dist[cell])
  BY <1>2 DEF Relax, PathInv, PathTyped
<1>4. /\ m \in Nat /\ m <= dist[cell]
      /\ \A k \in Switches : m <= dist[<<i, k>>] + dist[<<k, j>>]
      /\ m = dist[cell] \/ \E k \in Switches : m = dist[<<i, k>>] + dist[<<k, j>>]
  BY <1>1, ShortestIsLeast DEF PathInv
<1> HIDE DEF i, j, m
<1>5. WeightsTyped'
  BY <1>3 DEF PathInv, WeightsTyped
<1>6. /\ dist' \in [Cells -> Nat] /\ dist'[cell] = m
      /\ \A c \in Cells : c # cell => dist'[c] = dist[c]
      /\ \A c \in Cells : dist[c] \in Nat
  BY <1>1, <1>2, <1>4 DEF PathInv, PathTyped
<1>7. PathTyped'
  <2>1. CASE cell = LastCell
    BY <1>1, <1>2, <1>3, <1>6, <2>1, SweepOrder DEF PathTyped, SweepOver
  <2>2. CASE cell # LastCell
    <3>1. cell' \in Cells
      BY <1>1, <1>2, <2>2, SweepOrder
    <3>2. change' = changed /\ done' = done
      BY <1>2, <2>2
    <3>3. done \in BOOLEAN
      BY DEF PathInv, PathTyped
    <3> QED
      BY <1>3, <1>6, <3>1, <3>2, <3>3 DEF PathTyped
  <2> QED
    BY <2>1, <2>2
<1>8. NoLongerThanLinks'
  <2>1. \A c \in Cells : dist'[c] <= dist[c] /\ dist'[c] \in Nat
    BY <1>4, <1>6
  <2>2. ASSUME NEW x \in Switches PROVE dist'[<<x, x>>] = 0
    BY <2>1, CellFacts DEF PathInv, NoLongerThanLinks
  <2>3. ASSUME NEW x \in Switches, NEW y \in Switches
        PROVE  dist'[<<x, y>>] <= weights'[<<x, y>>]
    <3>1. /\ dist'[<<x, y>>] \in Nat /\ dist[<<x, y>>] \in Nat /\ weights[<<x, y>>] \in Nat
          /\ dist'[<<x, y>>] <= dist[<<x, y>>] /\ dist[<<x, y>>] <= weights[<<x, y>>]
      BY <1>6, <2>1, CellFacts DEF PathInv, NoLongerThanLinks, WeightsTyped
    <3> QED
      BY <1>3, <3>1
  <2> QED
    BY <2>2, <2>3 DEF NoLongerThanLinks
<1>9. NoShorterThanLinks'
  <2> SUFFICES ASSUME NEW p \in [Switches -> Int], Potential(p)',
                      NEW x \in Switches, NEW y \in Switches
               PROVE  p[x] - p[y] <= dist'[<<x, y>>]
    BY DEF NoShorterThanLinks
  <2>1. Potential(p)
    BY <1>3 DEF Potential
  <2>2. \A u, v \in Switches : p[u] - p[v] <= dist[<<u, v>>] /\ p[u] \in Int /\ dist[<<u, v>>] \in Nat
    BY <1>6, <2>1, CellFacts DEF PathInv, NoShorterThanLinks
  <2>3. CASE <<x, y>> # cell
    BY <1>6, <2>2, <2>3, CellFacts
  <2>4. CASE <<x, y>> = cell
    <3>1. x = i /\ y = j /\ dist'[<<x, y>>] = m
      BY <1>1, <1>6, <2>4
    <3>2. CASE m = dist[cell]
      BY <2>2, <2>4, <3>1, <3>2
    <3>3. CASE \E k \in Switches : m = dist[<<i, k>>] + dist[<<k, j>>]
      <4>1. PICK k \in Switches : m = dist[<<i, k>>] + dist[<<k, j>>]
        BY <3>3
      <4>2. p[x] - p[k] <= dist[<<x, k>>] /\ p[k] - p[y] <= dist[<<k, y>>]
        BY <2>2
      <4> QED
        BY <2>2, <3>1, <4>1, <4>2
    <3> QED
      BY <1>4, <3>2, <3>3
  <2> QED
    BY <2>3, <2>4
<1>10. SweepInv'
  <2>1. CASE changed
    <3>1. CASE cell = LastCell
      <4>1. cell' = <<0, 0>> /\ ~done'
        BY <1>2, <2>1, <3>1 DEF SweepOver
      <4> QED
        BY <1>1, <4>1, SweepOrder DEF SweepInv
    <3>2. CASE cell # LastCell
      BY <1>2, <1>3, <2>1, <3>2 DEF SweepInv
    <3> QED
      BY <3>1, <3>2
  <2>2. CASE ~changed
    <3>1. ~change /\ m = dist[cell]
      BY <1>3, <2>2
    <3>2. dist' = dist
      BY <1>2, <1>6, <3>1 DEF PathInv, PathTyped
    <3>3. \A c \in Cells : Before(c, cell) \/ c = cell => Closed(c)
      BY <1>1, <1>3, <1>4, <3>1 DEF PathInv, SweepInv, Closed, i, j
    <3>4. \A c \in Cells : Closed(c) => Closed(c)'
      BY <3>2 DEF Closed
    <3>5. CASE cell = LastCell
      <4>1. \A c \in Cells : Closed(c)'
        BY <1>1, <3>3, <3>4, <3>5, SweepOrder
      <4> QED
        BY <4>1 DEF SweepInv
    <3>6. CASE cell # LastCell
      <4>1. cell' = NextCell(cell) /\ done' = done
        BY <1>2, <3>6
      <4>2. \A c \in Cells : Before(c, cell') => Closed(c)'
        BY <1>1, <3>3, <3>4, <3>6, <4>1, SweepOrder
      <4> QED
        BY <1>3, <4>1, <4>2 DEF SweepInv
    <3> QED
      BY <3>5, <3>6
  <2> QED
    BY <2>1, <2>2
<1> QED
  BY <1>5, <1>7, <1>8, <1>9, <1>10 DEF PathInv

-----------------------------------------------------------------------------
\* A finished matrix in which every way on is longer than the cell says would
\* leave room for a potential that is one higher at i: no cell is that small.
LEMMA FirstLink ==
  ASSUME PathInv, \A c \in Cells : Closed(c), NEW i \in Switches, NEW j \in Switches, i # j
  PROVE  \E k \in Switches \ {i} : dist[<<i, j>>] = weights[<<i, k>>] + dist[<<k, j>>]
<1>1. \A x, y \in Switches : /\ dist[<<x, y>>] \in Nat /\ weights[<<x, y>>] \in Nat
                             /\ dist[<<x, y>>] <= weights[<<x, y>>]
                             /\ dist[<<x, x>>] = 0 /\ weights[<<x, x>>] = 0
  BY CellFacts DEF PathInv, PathTyped, WeightsTyped, NoLongerThanLinks
<1>2. \A x, y, k \in Switches : dist[<<x, y>>] <= dist[<<x, k>>] + dist[<<k, y>>]
  BY CellFacts DEF Closed
<1>3. \A x, y, k \in Switches : dist[<<x, y>>] <= weights[<<x, k>>] + dist[<<k, y>>]
  <2> TAKE x, y, k \in Switches
  <2>1. dist[<<x, y>>] <= dist[<<x, k>>] + dist[<<k, y>>]
    BY <1>2
  <2>2. /\ dist[<<x, y>>] \in Nat /\ dist[<<x, k>>] \in Nat /\ dist[<<k, y>>] \in Nat
        /\ weights[<<x, k>>] \in Nat /\ dist[<<x, k>>] <= weights[<<x, k>>]
    BY <1>1
  <2> QED
    BY <2>1, <2>2
<1> SUFFICES ASSUME \A k \in Switches \ {i} : dist[<<i, j>>] # weights[<<i, k>>] + dist[<<k, j>>]
             PROVE  FALSE
  OBVIOUS
<1> DEFINE p == [x \in Switches |-> IF x = i THEN dist[<<i, j>>] + 1 ELSE dist[<<x, j>>]]
<1>4. p \in [Switches -> Int]
  <2>1. dist[<<i, j>>] \in Nat /\ \A x \in Switches : dist[<<x, j>>] \in Nat
    BY <1>1
  <2>2. dist[<<i, j>>] + 1 \in Int /\ \A x \in Switches : dist[<<x, j>>] \in Int
    BY <2>1
  <2> QED
    BY <2>2
<1>5. p[i] = dist[<<i, j>>] + 1 /\ \A x \in Switches \ {i} : p[x] = dist[<<x, j>>]
  OBVIOUS
<1> HIDE DEF p
<1>6. Potential(p)
  <2> SUFFICES ASSUME NEW x \in Switches, NEW y \in Switches
               PROVE  p[x] - p[y] <= weights[<<x, y>>]
    BY DEF Potential
  <2>1. CASE x # i
    <3>1. p[x] = dist[<<x, j>>] /\ (p[y] = dist[<<y, j>>] \/ p[y] = dist[<<y, j>>] + 1)
      BY <1>5, <2>1
    <3>2. dist[<<x, j>>] <= weights[<<x, y>>] + dist[<<y, j>>]
      BY <1>3
    <3>3. dist[<<x, j>>] \in Nat /\ weights[<<x, y>>] \in Nat /\ dist[<<y, j>>] \in Nat
      BY <1>1
    <3> QED
      BY <3>1, <3>2, <3>3
  <2>2. CASE x = i /\ y = i
    BY <1>1, <1>5, <2>2
  <2>3. CASE x = i /\ y # i
    <3>1. dist[<<i, j>>] # weights[<<i, y>>] + dist[<<y, j>>]
      BY <2>3
    <3>2. dist[<<i, j>>] <= weights[<<i, y>>] + dist[<<y, j>>]
      BY <1>3
    <3>3. p[i] = dist[<<i, j>>] + 1 /\ p[y] = dist[<<y, j>>]
      BY <1>5, <2>3
    <3>4. /\ dist[<<i, j>>] \in Nat /\ weights[<<i, y>>] \in Nat /\ dist[<<y, j>>] \in Nat
      BY <1>1
    <3> QED
      BY <2>3, <3>1, <3>2, <3>3, <3>4
  <2> QED
    BY <2>1, <2>2, <2>3
<1>7. p[i] - p[j] <= dist[<<i, j>>]
  BY <1>4, <1>6 DEF PathInv, NoShorterThanLinks
<1>8. p[j] = 0 /\ dist[<<i, j>>] \in Nat
  BY <1>1, <1>5
<1> QED
  BY <1>5, <1>7, <1>8

LEMMA ShortestAtEnd == PathInv => EndsShortest
<1> SUFFICES ASSUME PathInv, done, NEW i \in Switches, NEW j \in Switches
             PROVE  /\ dist[<<i, i>>] = 0
                    /\ \A k \in Switches : dist[<<i, j>>] <= weights[<<i, k>>] + dist[<<k, j>>]
                    /\ i # j => \E k \in Switches \ {i} :
                                  dist[<<i, j>>] = weights[<<i, k>>] + dist[<<k, j>>]
  BY DEF EndsShortest
<1>1. \A c \in Cells : Closed(c)
  BY DEF PathInv, SweepInv
<1>2. dist[<<i, i>>] = 0
  BY DEF PathInv, NoLongerThanLinks
<1>3. ASSUME NEW k \in Switches PROVE dist[<<i, j>>] <= weights[<<i, k>>] + dist[<<k, j>>]
  <2>1. dist[<<i, j>>] <= dist[<<i, k>>] + dist[<<k, j>>]
    BY <1>1, CellFacts DEF Closed
  <2>2. /\ dist[<<i, j>>] \in Nat /\ dist[<<i, k>>] \in Nat /\ dist[<<k, j>>] \in Nat
        /\ weights[<<i, k>>] \in Nat /\ dist[<<i, k>>] <= weights[<<i, k>>]
    BY CellFacts DEF PathInv, PathTyped, WeightsTyped, NoLongerThanLinks
  <2> QED
    BY <2>1, <2>2
<1>4. i # j => \E k \in Switches \ {i} : dist[<<i, j>>] = weights[<<i, k>>] + dist[<<k, j>>]
  BY <1>1, FirstLink
<1> QED
  BY <1>2, <1>3, <1>4

LEMMA TablesAtEnd == PathInv => TablesLead
<1> SUFFICES ASSUME PathInv, done, NEW i \in Switches, NEW d \in Switches,
                    i # d, dist[<<i, d>>] < INFINITE_LATENCY
             PROVE  /\ \E k \in Switches : IsLink(i, k) /\ d \in shortest_path_to_node(i, k)
                    /\ \A k \in Switches :
                         IsLink(i, k) /\ d \in shortest_path_to_node(i, k)
                           => dist[<<k, d>>] < dist[<<i, d>>]
  BY DEF TablesLead
<1>1. \A c \in Cells : Closed(c)
  BY DEF PathInv, SweepInv
<1>2. \A x, y \in Switches : dist[<<x, y>>] \in Nat /\ weights[<<x, y>>] \in Nat
  BY CellFacts DEF PathInv, PathTyped, WeightsTyped
<1>3. PICK k \in Switches \ {i} : dist[<<i, d>>] = weights[<<i, k>>] + dist[<<k, d>>]
  BY <1>1, FirstLink
<1>4. weights[<<i, k>>] \in LinkWeights \union {INFINITE_LATENCY}
  BY <1>3 DEF PathInv, WeightsTyped
<1>5. INFINITE_LATENCY \in Nat /\ LinkWeights \subseteq Nat \ {0}
  BY TopologyAssumption
<1>6. weights[<<i, k>>] # INFINITE_LATENCY
  BY <1>2, <1>3, <1>5
<1>7. IsLink(i, k) /\ d \in shortest_path_to_node(i, k)
  BY <1>2, <1>3, <1>4, <1>5, <1>6 DEF IsLink, shortest_path_to_node
<1>8. ASSUME NEW l \in Switches, IsLink(i, l), d \in shortest_path_to_node(i, l)
      PROVE  dist[<<l, d>>] < dist[<<i, d>>]
  BY <1>2, <1>8 DEF IsLink, shortest_path_to_node
<1> QED
  BY <1>7, <1>8

-----------------------------------------------------------------------------
\* The constructor and init() keep both invariants.
LEMMA StartupInvariance == Spec => [](ReaderInv /\ PathInv)
<1>1. Init => ReaderInv /\ PathInv
  BY ReaderInvInit, PathInvInit
<1>2. ReaderInv /\ PathInv /\ [Next]_vars => (ReaderInv /\ PathInv)'
  <2> SUFFICES ASSUME ReaderInv, PathInv, [Next]_vars
               PROVE  ReaderInv' /\ PathInv'
    OBVIOUS
  <2>1. ASSUME UNCHANGED pathVars PROVE PathInv'
    BY <2>1 DEF pathVars, PathInv, PathTyped, WeightsTyped, NoLongerThanLinks,
                NoShorterThanLinks, Potential, SweepInv, Closed
  <2>2. ASSUME UNCHANGED readerVars PROVE ReaderInv'
    BY <2>2 DEF readerVars, ReaderInv, FileTyped, Reading, EntriesRead, Entries,
                AcceptedRingIsTheFile
  <2>3. CASE Construct
    BY <2>1, <2>3, ReadEntryKeeps, CloseRingKeeps DEF Construct
  <2>4. CASE CreateLinks
    BY <2>2, <2>4, RelaxKeeps DEF CreateLinks
  <2>5. CASE UNCHANGED vars
    BY <2>1, <2>2, <2>5 DEF vars
  <2> QED
    BY <2>3, <2>4, <2>5 DEF Next
<1> QED
  BY <1>1, <1>2, PTL DEF Spec

\* init_spinRing builds exactly the path that its file describes, for files of
\* any length, whole or cut off: a read that fails never makes an entry.
THEOREM RingIsTheFile == Spec => []AcceptedRingIsTheFile
<1>1. ReaderInv => AcceptedRingIsTheFile
  BY DEF ReaderInv
<1> QED
  BY <1>1, StartupInvariance, PTL

\* The matrix extend_shortest_path ends with is the matrix of the shortest
\* distances, in every topology and although it is relaxed in place.
THEOREM MatrixIsShortest == Spec => []EndsShortest
  BY StartupInvariance, ShortestAtEnd, PTL

\* The routing tables read off it (shortest_path_to_node) lead from every
\* switch to every node it can reach, each link strictly nearer.
THEOREM TablesLeadThere == Spec => []TablesLead
  BY StartupInvariance, TablesAtEnd, PTL
=============================================================================
