--------------------------- MODULE SpinRingReader ---------------------------
(***************************************************************************)
(* GarnetNetwork::init_spinRing as a program: the loop that reads the      *)
(* spin-ring file token by token, and the node it puts in front.  MeshRing *)
(* states the drain path this reader should build; here the path is built  *)
(* the way the code builds it, for files of every shape.                   *)
(*                                                                         *)
(* A file is its whitespace-separated tokens and whether white space (a    *)
(* final newline) follows the last one.  eof() is false until a read has   *)
(* run into the end of the file, and a read that finds no token leaves its *)
(* string as it was.                                                       *)
(***************************************************************************)
EXTENDS Integers, Sequences, SequencesExt

CONSTANTS
  NumRows,   \* m_num_rows
  Letters,   \* the direction names the code accepts, with the sides they name
  Numbers    \* the words stoi accepts, with their values

\* What data1 may hold between two reads, nothing or a long name, is no letter.
ASSUME ReaderAssumption ==
  /\ NumRows \in Nat \ {0}
  /\ "" \notin DOMAIN Letters
  /\ \A l \in DOMAIN Letters : Letters[l] \notin DOMAIN Letters

VARIABLES
  file,      \* the file given by --spin-file: [tokens, newline]
  pos,       \* tokens consumed
  eof,       \* infile.eof()
  data,      \* the router id last read, "" before the first
  data1,     \* the direction last read
  spinRing,  \* the entries pushed so far
  status     \* "reading", "fatal" (bad direction), "throw" (stoi of a word),
             \* "assert" (no such end of the path) or "ok"

readerVars == <<file, pos, eof, data, data1, spinRing, status>>

Unknown == <<-1, "Unknown">>

\* The reader of a given file before its first read.
ReaderInit ==
  /\ pos = 0
  /\ eof = FALSE
  /\ data = ""
  /\ data1 = ""
  /\ spinRing = <<Unknown>>
  /\ status = "reading"

\* Whether a token is left at position p.
HasToken(p) == p < Len(file.tokens)

\* Whether a read at position p meets the end of the file: always when nothing
\* is left, and otherwise when its token is the last and nothing follows it.
MeetsEnd(p) == p + 1 > Len(file.tokens) \/ (p + 1 = Len(file.tokens) /\ ~file.newline)

\* infile >> old
Extract(p, old) == IF HasToken(p) THEN file.tokens[p + 1] ELSE old

\* The position after a read at position p.
Advance(p) == IF HasToken(p) THEN p + 1 ELSE p

\* Mutant of Entry: the long direction names are accepted too.
EntryLongNames(id, dir) ==
  LET side == IF dir \in DOMAIN Letters THEN Letters[dir] ELSE dir
  IN  IF side \in {"North", "East", "South", "West"} /\ id \in DOMAIN Numbers
      THEN [side |-> side, ring |-> Append(spinRing, <<Numbers[id], side>>), status |-> "reading"]
      ELSE [side |-> side, ring |-> spinRing, status |-> "fatal"]

\* What the loop makes of the strings it holds: the direction's long name
\* replaces the letter in data1, and the entry is pushed.
Entry(id, dir) ==
  IF dir \notin DOMAIN Letters
  THEN [side |-> dir, ring |-> spinRing, status |-> "fatal"]
  ELSE IF id \notin DOMAIN Numbers
  THEN [side |-> Letters[dir], ring |-> spinRing, status |-> "throw"]
  ELSE [side |-> Letters[dir], ring |-> Append(spinRing, <<Numbers[id], Letters[dir]>>),
        status |-> "reading"]

\* The body of the loop: a router id, a direction, and the entry they make.
ReadEntry ==
  /\ status = "reading"
  /\ ~eof
  /\ data' = Extract(pos, data)
  /\ \E e \in {Entry(Extract(pos, data), Extract(Advance(pos), data1))} :
       /\ data1' = e.side
       /\ spinRing' = e.ring
       /\ status' = e.status
  /\ pos' = Advance(Advance(pos))
  /\ eof' = (MeetsEnd(pos) \/ MeetsEnd(Advance(pos)))
  /\ UNCHANGED file

\* The side of router 0 that faces the last router of the file.
FirstSide(lastId) ==
  IF lastId = 1 THEN "East" ELSE IF lastId = NumRows THEN "North" ELSE "none"

\* After the loop: the first node is set, and pushed again to close the path.
CloseRing ==
  /\ status = "reading"
  /\ eof
  /\ \E side \in {FirstSide(Last(spinRing)[1])} :
       IF side = "none"
       THEN /\ status' = "assert"
            /\ UNCHANGED spinRing
       ELSE /\ status' = "ok"
            /\ spinRing' = Append([spinRing EXCEPT ![1] = <<0, side>>], <<0, side>>)
  /\ UNCHANGED <<file, pos, eof, data, data1>>

-----------------------------------------------------------------------------
(***************************************************************************)
(* What the file says, without the reader.                                 *)
(***************************************************************************)

Pairs(f) == Len(f.tokens) \div 2

\* Router ids and directions alternate, and every direction is a known letter.
WellFormed(f) ==
  /\ Len(f.tokens) > 0
  /\ Len(f.tokens) % 2 = 0
  /\ \A i \in 1 .. Pairs(f) :
       /\ f.tokens[2 * i - 1] \in DOMAIN Numbers
       /\ f.tokens[2 * i] \in DOMAIN Letters

Nodes(f) ==
  [i \in 1 .. Pairs(f) |-> <<Numbers[f.tokens[2 * i - 1]], Letters[f.tokens[2 * i]]>>]

\* The neighbours of router 0 and the side it faces them on.
FacesZero(id) == IF id = 1 THEN "East" ELSE "North"

\* The path a file describes: its nodes, with router 0 in front and again at
\* the end.
RingOf(f) ==
  LET first == <<0, FacesZero(Last(Nodes(f))[1])>>
  IN  <<first>> \o Nodes(f) \o <<first>>

\* The values every variable ranges over.
TypeOK ==
  /\ file \in [tokens : Seq(STRING), newline : BOOLEAN]
  /\ pos \in 0 .. Len(file.tokens)
  /\ eof \in BOOLEAN
  /\ data \in STRING
  /\ data1 \in STRING
  /\ spinRing \in Seq((Nat \cup {-1}) \X {"Unknown", "North", "East", "South", "West"})
  /\ status \in {"reading", "fatal", "throw", "assert", "ok"}

(***************************************************************************)
(* The drain path the simulation runs with is exactly the one the file     *)
(* describes, closed at router 0: the reads that fail at the end of the    *)
(* file, a half entry and a bad direction never leave a node too many, too *)
(* few or wrong (the loop and the closing of init_spinRing).               *)
(***************************************************************************)
AcceptedRingIsTheFile ==
  status = "ok" => WellFormed(file) /\ spinRing = RingOf(file)
=============================================================================
