---------------------------- MODULE LifecycleProofs ----------------------------
(***************************************************************************)
(* Proofs about Lifecycle.tla, for every number of streams, keys, changes, *)
(* failures and rebuilds.                                                  *)
(***************************************************************************)
EXTENDS Lifecycle, SequenceTheorems, WellFoundedInduction, TLAPS

-----------------------------------------------------------------------------
(* Least and greatest positions                                              *)

LEMMA LeastExists ==
  ASSUME NEW T \in SUBSET Nat, T # {}
  PROVE  \E x \in T : \A y \in T : x <= y
  <1>1. PICK x \in T : \A y \in T : ~ (<<y, x>> \in OpToRel(<, Nat))
    BY NatLessThanWellFounded, WFMin, Zenon
  <1>2. \A y \in T : <<y, x>> \in OpToRel(<, Nat) <=> y < x
    BY DEF OpToRel
  <1>3. \A y \in T : ~ (y < x)
    BY <1>1, <1>2, Zenon
  <1>4. \A y \in T : x <= y
    BY <1>3
  <1> QED
    BY <1>4

LEMMA GreatestExists ==
  ASSUME NEW n \in Nat, NEW T \in SUBSET (1..n), T # {}
  PROVE  \E x \in T : \A y \in T : y <= x
  <1> DEFINE D == {n - i : i \in T}
  <1>1. \A i \in T : n - i \in Nat
    OBVIOUS
  <1>2. D \in SUBSET Nat /\ D # {}
    BY <1>1, Zenon
  <1> HIDE DEF D
  <1>3. PICK d \in D : \A e \in D : d <= e
    BY <1>2, LeastExists, Zenon
  <1>4. PICK x \in T : d = n - x
    BY DEF D
  <1>5. \A y \in T : n - x <= n - y
    BY <1>3, <1>4, Zenon DEF D
  <1>6. \A y \in T : y <= x
    BY <1>5
  <1> QED
    BY <1>6

-----------------------------------------------------------------------------
(* Types                                                                     *)

Rows == [gtid : Nat \cup {None}, done : BOOLEAN, start : Nat \cup {None},
         cursor : 0..K, base : Nat]
Docs == [ver : Nat, val : Nat]
Blocks == [next : Nat \ {0}, end : Nat]

\* The phases of a scan.
ScanPhases == {"begin", "scan", "finish", "promote"}

SourceTypes ==
  /\ log \in Seq(Entries) /\ Len(Initial) <= Len(log)
  /\ replica \in Nat /\ replica <= Len(log)

IndexTypes ==
  /\ rebuilds \in Nat /\ rebuilds <= MaxRebuilds
  /\ index \in [Streams -> Indices] /\ \A s \in Streams : index[s] <= rebuilds + 1
  /\ alias \in [Streams -> {0} \cup Indices]
  /\ refresh \in [Streams -> [Indices -> {"on", "off"}]]
  /\ dest \in [Streams -> [Indices -> [Keys -> Docs]]]

ProcTypes ==
  /\ phase \in {"down", "load", "stream"} \cup ScanPhases
  /\ at \in 1..(N + 1) /\ scanned \in 0..K /\ loading \in {"no", "on"}
  /\ pos \in [Streams -> Nat] /\ rpos \in Nat

RowTypes ==
  /\ row \in [Streams -> Rows]
  /\ clock \in Nat /\ alloc \in [Streams -> Blocks]
  /\ since \in [Streams -> Nat \cup {None}] /\ rewound \subseteq Streams

\* A scan is of a stream that is scanned, and its start is in the row.
InScan == phase \in ScanPhases => at \in Scanned /\ row[at].start # None

Types == SourceTypes /\ IndexTypes /\ ProcTypes /\ RowTypes /\ InScan

\* What a step that writes a document does to the destination.
LEMMA PutType ==
  ASSUME IndexTypes, NEW s \in Streams, NEW k \in Keys, NEW ver \in Nat, NEW val \in Nat,
         Put(s, k, ver, val)
  PROVE  /\ dest' \in [Streams -> [Indices -> [Keys -> Docs]]]
         /\ dest'[s][index[s]][k] = IF ver > dest[s][index[s]][k].ver
                                      THEN [ver |-> ver, val |-> val]
                                      ELSE dest[s][index[s]][k]
         /\ \A t \in Streams, i \in Indices, j \in Keys :
              <<t, i, j>> # <<s, index[s], k>> => dest'[t][i][j] = dest[t][i][j]
  <1> DEFINE doc == [ver |-> ver, val |-> val]
             i == index[s]
  <1>1. doc \in Docs /\ i \in Indices
    BY DEF Docs, IndexTypes
  <1>2. CASE ver > dest[s][i][k].ver
    <2>1. dest' = [dest EXCEPT ![s][i][k] = doc]
      BY <1>2 DEF Put
    <2> HIDE DEF doc, i
    <2> QED
      BY <1>1, <1>2, <2>1 DEF IndexTypes, i, doc
  <1>3. CASE ~(ver > dest[s][i][k].ver)
    BY <1>3 DEF Put, IndexTypes
  <1> QED
    BY <1>2, <1>3

\* A version is never 0, and taking one keeps the allocators well formed.
LEMMA VersionType ==
  ASSUME RowTypes, NEW s \in Streams
  PROVE  /\ Version(s) \in Nat \ {0}
         /\ TakeVersion(s) => clock' \in Nat /\ alloc' \in [Streams -> Blocks]
  <1> USE LifecycleAssumption DEF LifecycleAssumption
  <1>1. alloc[s] \in Blocks /\ clock \in Nat /\ clock + Block \in Nat
    BY DEF RowTypes
  <1>2. Version(s) \in Nat \ {0}
    BY <1>1 DEF Version, Blocks
  <1>3. ASSUME TakeVersion(s) PROVE clock' \in Nat /\ alloc' \in [Streams -> Blocks]
    <2>1. clock' \in Nat
      BY <1>1, <1>3 DEF TakeVersion
    <2> DEFINE end == IF alloc[s].next <= alloc[s].end THEN alloc[s].end ELSE clock + Block
    <2>2. end \in Nat
      BY <1>1 DEF Blocks
    <2>3. alloc' = [alloc EXCEPT ![s] = [next |-> Version(s) + 1, end |-> end]]
      BY <1>3 DEF TakeVersion
    <2> HIDE DEF end
    <2>4. [next |-> Version(s) + 1, end |-> end] \in Blocks
      BY <1>2, <2>2 DEF Blocks
    <2> QED
      BY <2>1, <2>3, <2>4 DEF RowTypes
  <1> QED
    BY <1>2, <1>3

-----------------------------------------------------------------------------
(* The value of a row at a position                                          *)

\* Change i is a change of row k of stream s.
Concerns(i, s, k) == log[i].stream = s /\ log[i].key = k

\* i is the last change of the row up to position p.
IsLast(i, s, k, p) ==
  i \in 1..p /\ Concerns(i, s, k) /\ \A j \in 1..p : Concerns(j, s, k) => j <= i

\* The value of a row is what its last change left, 0 without one.
LEMMA ContentIs ==
  ASSUME NEW s, NEW k, NEW p \in Nat
  PROVE  \/ /\ \A i \in 1..p : ~Concerns(i, s, k)
            /\ Content(s, k, p) = 0
         \/ \E i \in 1..p : /\ IsLast(i, s, k, p)
                            /\ Content(s, k, p) = IF log[i].op = "delete" THEN 0 ELSE i
  <1> DEFINE mine == {i \in 1..p : log[i].stream = s /\ log[i].key = k}
             last == CHOOSE i \in mine : \A j \in mine : j <= i
  <1>1. Content(s, k, p) = IF mine = {} \/ (mine # {} /\ log[last].op = "delete") THEN 0 ELSE last
    BY Zenon DEF Content
  <1>2. CASE mine = {}
    BY <1>1, <1>2 DEF Concerns
  <1>3. CASE mine # {}
    <2>1. mine \in SUBSET (1..p)
      OBVIOUS
    <2>2. \E i \in mine : \A j \in mine : j <= i
      <3> HIDE DEF mine
      <3> QED
        BY <1>3, <2>1, GreatestExists, Zenon
    <2>3. last \in mine /\ \A j \in mine : j <= last
      BY <2>2, Zenon
    <2> HIDE DEF last
    <2>4. last \in 1..p /\ IsLast(last, s, k, p)
      BY <2>3 DEF IsLast, Concerns
    <2>5. Content(s, k, p) = IF log[last].op = "delete" THEN 0 ELSE last
      <3> HIDE DEF mine
      <3> QED
        BY <1>1, <1>3
    <2> QED
      BY <2>4, <2>5
  <1> QED
    BY <1>2, <1>3

LEMMA ContentType ==
  ASSUME NEW s, NEW k, NEW p \in Nat
  PROVE  Content(s, k, p) \in Nat
  BY ContentIs

\* Without a change in between the value is the same.
LEMMA ContentSame ==
  ASSUME NEW s, NEW k, NEW p \in Nat, NEW q \in Nat, p <= q,
         \A i \in (p + 1)..q : ~Concerns(i, s, k)
  PROVE  Content(s, k, q) = Content(s, k, p)
  <1>1. \A i \in 1..q : Concerns(i, s, k) => i \in 1..p
    OBVIOUS
  <1>2. 1..p \subseteq 1..q
    OBVIOUS
  <1>3. CASE \A i \in 1..q : ~Concerns(i, s, k)
    <2>1. Content(s, k, q) = 0
      BY <1>3, ContentIs DEF IsLast
    <2>2. Content(s, k, p) = 0
      BY <1>2, <1>3, ContentIs DEF IsLast
    <2> QED
      BY <2>1, <2>2
  <1>4. CASE \E i \in 1..q : Concerns(i, s, k)
    <2>1. PICK i \in 1..q : /\ IsLast(i, s, k, q)
                            /\ Content(s, k, q) = IF log[i].op = "delete" THEN 0 ELSE i
      BY <1>4, ContentIs
    <2>2. PICK j \in 1..p : /\ IsLast(j, s, k, p)
                            /\ Content(s, k, p) = IF log[j].op = "delete" THEN 0 ELSE j
      BY <1>1, <1>4, ContentIs
    <2>3. i = j
      BY <1>1, <1>2, <2>1, <2>2 DEF IsLast
    <2> QED
      BY <2>1, <2>2, <2>3
  <1> QED
    BY <1>3, <1>4

\* The next change is one of the row, or it leaves the value alone.
LEMMA ContentNext ==
  ASSUME NEW s, NEW k, NEW p \in Nat
  PROVE  Content(s, k, p + 1) =
           IF Concerns(p + 1, s, k)
             THEN IF log[p + 1].op = "delete" THEN 0 ELSE p + 1
             ELSE Content(s, k, p)
  <1>1. CASE Concerns(p + 1, s, k)
    <2>1. PICK i \in 1..(p + 1) :
            /\ IsLast(i, s, k, p + 1)
            /\ Content(s, k, p + 1) = IF log[i].op = "delete" THEN 0 ELSE i
      BY <1>1, ContentIs
    <2>2. i = p + 1
      BY <1>1, <2>1 DEF IsLast
    <2> QED
      BY <1>1, <2>1, <2>2
  <1>2. CASE ~Concerns(p + 1, s, k)
    <2>1. \A i \in (p + 1)..(p + 1) : ~Concerns(i, s, k)
      BY <1>2
    <2>2. Content(s, k, p + 1) = Content(s, k, p)
      BY <2>1, ContentSame
    <2> QED
      BY <1>2, <2>2
  <1> QED
    BY <1>1, <1>2

\* What is appended to the log changes no earlier value.
LEMMA ContentKept ==
  ASSUME NEW s, NEW k, NEW p \in Nat, \A i \in 1..p : log'[i] = log[i]
  PROVE  Content(s, k, p)' = Content(s, k, p)
  <1>1. \A i \in 1..p : Concerns(i, s, k)' <=> Concerns(i, s, k)
    BY DEF Concerns
  <1>2. CASE \A i \in 1..p : ~Concerns(i, s, k)
    <2>1. {i \in 1..p : log'[i].stream = s /\ log'[i].key = k} = {}
      BY <1>1, <1>2 DEF Concerns
    <2>2. Content(s, k, p)' = 0
      BY <2>1, Zenon DEF Content
    <2>3. Content(s, k, p) = 0
      BY <1>2, ContentIs DEF IsLast
    <2> QED
      BY <2>2, <2>3
  <1>3. CASE \E i \in 1..p : Concerns(i, s, k)
    <2>1. PICK i \in 1..p : /\ IsLast(i, s, k, p)
                            /\ Content(s, k, p) = IF log[i].op = "delete" THEN 0 ELSE i
      BY <1>3, ContentIs
    <2> DEFINE mine == {j \in 1..p : log'[j].stream = s /\ log'[j].key = k}
               last == CHOOSE j \in mine : \A l \in mine : l <= j
    <2>2. i \in mine /\ \A l \in mine : l <= i
      BY <1>1, <2>1 DEF IsLast, Concerns
    <2>3. \A j \in mine : (\A l \in mine : l <= j) => j = i
      BY <2>2
    <2>4. last = i
      <3> HIDE DEF mine
      <3> QED
        BY <2>2, <2>3, Zenon
    <2>5. Content(s, k, p)' = IF mine = {} \/ (mine # {} /\ log'[last].op = "delete") THEN 0 ELSE last
      BY Zenon DEF Content
    <2> HIDE DEF mine, last
    <2> QED
      BY <2>1, <2>2, <2>4, <2>5
  <1> QED
    BY <1>2, <1>3

\* A row that lasts has a value at every position after the first start.
LEMMA LastingContent ==
  ASSUME SourceTypes, NEW s, NEW k, NEW p \in Nat, Len(Initial) <= p, p <= Len(log),
         Lasting(s, k)
  PROVE  Content(s, k, p) # 0
  <1> USE LifecycleAssumption DEF LifecycleAssumption
  <1>1. Len(Initial) \in Nat /\ Len(log) \in Nat
    BY LenProperties DEF SourceTypes
  <1>2. \E i \in 1..p : Concerns(i, s, k)
    BY <1>1 DEF Lasting, Concerns
  <1>3. PICK i \in 1..p : /\ IsLast(i, s, k, p)
                          /\ Content(s, k, p) = IF log[i].op = "delete" THEN 0 ELSE i
    BY <1>2, ContentIs
  <1>4. log[i].op = "put"
    BY <1>1, <1>3 DEF IsLast, Concerns, Lasting
  <1> QED
    BY <1>3, <1>4

\* The reader starts at a stream's position that is behind all others.
LEMMA SharedStart ==
  ASSUME ProcTypes
  PROVE  /\ SharedStartPosition \in Nat
         /\ \E s \in Streams : SharedStartPosition = pos[s]
         /\ \A s \in Streams : SharedStartPosition <= pos[s]
  <1> DEFINE all == {pos[s] : s \in Streams}
  <1>1. 1 \in Streams
    BY LifecycleAssumption DEF LifecycleAssumption, Streams
  <1>2. all \in SUBSET Nat /\ all # {}
    BY <1>1 DEF ProcTypes
  <1>3. \E p \in all : \A q \in all : p <= q
    <2> HIDE DEF all
    <2> QED
      BY <1>2, LeastExists, Zenon
  <1>4. \E p \in all : \A s \in Streams : p <= pos[s]
    BY <1>3
  <1>5. SharedStartPosition \in all /\ \A s \in Streams : SharedStartPosition <= pos[s]
    BY <1>4, Zenon DEF SharedStartPosition
  <1> QED
    BY <1>2, <1>5

LEMMA NewRowType ==
  /\ NewRow \in Rows /\ NewRow.gtid = None /\ NewRow.start = None /\ NewRow.cursor = 0
  /\ NewRow.done = FALSE
  BY LifecycleAssumption DEF LifecycleAssumption, NewRow, Rows

LEMMA TypesInit == Init => Types
  <1> SUFFICES ASSUME Init PROVE Types
    OBVIOUS
  <1> USE LifecycleAssumption DEF LifecycleAssumption
  <1>1. SourceTypes
    BY LenProperties DEF Init, SourceTypes
  <1>2. IndexTypes
    BY DEF Init, IndexTypes, Indices, Docs
  <1>3. NewRow \in Rows
    BY NewRowType
  <1>4. ProcTypes
    BY DEF Init, ProcTypes, Streams
  <1>5. RowTypes
    BY <1>3 DEF Init, RowTypes, Blocks
  <1>6. InScan
    BY DEF Init, InScan, ScanPhases
  <1> QED
    BY <1>1, <1>2, <1>4, <1>5, <1>6 DEF Types

\* The stream a scan is about.
LEMMA AtIsAStream ==
  ASSUME Types, Loading \/ phase \in ScanPhases
  PROVE  at \in Streams
  BY LifecycleAssumption DEF LifecycleAssumption, Types, ProcTypes, InScan, Loading, Streams

LEMMA RowFields ==
  ASSUME RowTypes, NEW s \in Streams
  PROVE  /\ row[s] \in Rows
         /\ row[s].gtid \in Nat \cup {None} /\ row[s].start \in Nat \cup {None}
         /\ row[s].cursor \in 0..K /\ row[s].base \in Nat /\ row[s].done \in BOOLEAN
  BY DEF RowTypes, Rows

LEMMA TypesStep == Types /\ [Next]_vars => Types'
  <1> SUFFICES ASSUME Types, [Next]_vars PROVE Types'
    OBVIOUS
  <1> USE LifecycleAssumption DEF LifecycleAssumption
  <1>1. CASE Start
    <2>1. [next |-> 1, end |-> 0] \in Blocks
      BY DEF Blocks
    <2> QED
      BY <1>1, <2>1 DEF Start, Types, SourceTypes, IndexTypes, ProcTypes, RowTypes, InScan,
         ScanPhases, sourceVars, indexVars, countVars, histVars
  <1>2. CASE UseRecorded
    <2>1. at \in Streams /\ row[at].gtid \in Nat /\ at + 1 \in 1..(N + 1)
      <3>1. at \in Streams /\ row[at].gtid # None
        BY <1>2, AtIsAStream DEF UseRecorded
      <3> QED
        BY <3>1, RowFields DEF Types, Streams
    <2> QED
      BY <1>2, <2>1 DEF UseRecorded, Loading, Types, SourceTypes, IndexTypes, ProcTypes, RowTypes,
         InScan, ScanPhases, sourceVars, indexVars, countVars, histVars, versionVars
  <1>3. CASE StartWithoutSnapshot
    <2> DEFINE from == IF row[at].gtid # None THEN row[at].gtid ELSE Len(log)
    <2>1. at \in Streams /\ from \in Nat /\ at + 1 \in 1..(N + 1)
      <3>1. at \in Streams
        BY <1>3, AtIsAStream DEF StartWithoutSnapshot
      <3>2. row[at].gtid \in Nat \cup {None} /\ Len(log) \in Nat
        BY <3>1, RowFields, LenProperties DEF Types, SourceTypes
      <3> QED
        BY <3>1, <3>2 DEF Streams
    <2>2. /\ pos' = [pos EXCEPT ![at] = from] /\ at' = at + 1
          /\ UNCHANGED <<sourceVars, indexVars, phase, scanned, loading, rpos, versionVars,
                         countVars, rewound>>
          /\ \/ UNCHANGED <<row, since>>
             \/ /\ row' = [row EXCEPT ![at].done = TRUE, ![at].gtid = from]
                /\ since' = [since EXCEPT ![at] = from]
      BY <1>3 DEF StartWithoutSnapshot
    <2>3. phase = "load"
      BY <1>3 DEF StartWithoutSnapshot, Loading
    <2> HIDE DEF from
    <2>4. row' \in [Streams -> Rows] /\ since' \in [Streams -> Nat \cup {None}]
      <3>1. [row[at] EXCEPT !.done = TRUE, !.gtid = from] \in Rows
        BY <2>1 DEF Types, RowTypes, Rows
      <3> QED
        BY <2>1, <2>2, <3>1 DEF Types, RowTypes
    <2> QED
      BY <2>1, <2>2, <2>3, <2>4 DEF Types, SourceTypes, IndexTypes, ProcTypes, RowTypes,
         InScan, ScanPhases, sourceVars, indexVars, countVars, versionVars
  <1>4. CASE MarkScanStarted
    <2>1. at \in Streams /\ Len(log) \in Nat /\ Version(at) \in Nat /\ at \in Scanned
      BY <1>4, AtIsAStream, VersionType, LenProperties DEF MarkScanStarted, Types, SourceTypes
    <2>2. clock' \in Nat /\ alloc' \in [Streams -> Blocks]
      BY <1>4, <2>1, VersionType DEF MarkScanStarted, Types
    <2>3. row' = [row EXCEPT ![at].start = Len(log), ![at].base = Version(at)]
      BY <1>4 DEF MarkScanStarted
    <2>4. row' \in [Streams -> Rows] /\ row'[at].start = Len(log)
      <3>1. [row[at] EXCEPT !.start = Len(log), !.base = Version(at)] \in Rows
        BY <2>1 DEF Types, RowTypes, Rows
      <3> QED
        BY <2>1, <2>3, <3>1 DEF Types, RowTypes, Rows
    <2>5. row'[at].start # None
      BY <2>1, <2>4 DEF None
    <2> QED
      BY <1>4, <2>1, <2>2, <2>4, <2>5 DEF MarkScanStarted, Types, SourceTypes, IndexTypes, ProcTypes,
         RowTypes, InScan, ScanPhases, sourceVars, indexVars, countVars, histVars
  <1>5. CASE ResumeScan
    BY <1>5 DEF ResumeScan, Types, SourceTypes, IndexTypes, ProcTypes, RowTypes,
       InScan, ScanPhases, sourceVars, indexVars, countVars, histVars, versionVars
  <1>6. CASE BeginBulkLoad
    <2>1. at \in Streams /\ index[at] \in Indices /\ row[at].cursor \in 0..K
      BY <1>6, AtIsAStream DEF BeginBulkLoad, ScanPhases, Types, IndexTypes, RowTypes, Rows
    <2>2. refresh' \in [Streams -> [Indices -> {"on", "off"}]] /\ loading' \in {"no", "on"}
      <3>1. refresh[at][index[at]] \in {"on", "off"}
        BY <2>1 DEF Types, IndexTypes
      <3>2. [refresh EXCEPT ![at][index[at]] = "off"] \in [Streams -> [Indices -> {"on", "off"}]]
        BY <2>1 DEF Types, IndexTypes
      <3> QED
        BY <1>6, <3>1, <3>2 DEF BeginBulkLoad, Refreshing, PutBack, Types, IndexTypes
    <2>3. UNCHANGED rebuilds
      BY <1>6 DEF BeginBulkLoad, Fault, countVars
    <2> QED
      BY <1>6, <2>1, <2>2, <2>3 DEF BeginBulkLoad, Types, SourceTypes, IndexTypes, ProcTypes,
         RowTypes, InScan, ScanPhases, sourceVars, versionVars
  <1>7. CASE ScanRow
    <2> DEFINE k == scanned + 1
               p == IF server = "replica" THEN replica ELSE Len(log)
               val == Content(at, k, p)
    <2>1. at \in Streams /\ k \in Keys /\ k \in 0..K
      BY <1>7, AtIsAStream DEF ScanRow, ScanPhases, KeysLeft, Types, ProcTypes, Keys
    <2>2. p \in Nat /\ row[at].base \in Nat
      BY <2>1, LenProperties DEF Types, SourceTypes, RowTypes, Rows
    <2>3. val \in Nat
      BY <2>2, ContentType
    <2>4. /\ scanned' = k
          /\ (val = 0 /\ UNCHANGED dest) \/ Put(at, k, row[at].base, val)
          /\ row' = [row EXCEPT ![at].cursor = k] \/ UNCHANGED row
      BY <1>7 DEF ScanRow
    <2> HIDE DEF k, p, val
    <2>5. dest' \in [Streams -> [Indices -> [Keys -> Docs]]]
      <3>1. IndexTypes
        BY DEF Types
      <3>2. CASE UNCHANGED dest
        BY <3>1, <3>2 DEF IndexTypes
      <3>3. CASE Put(at, k, row[at].base, val)
        BY <3>1, <3>3, <2>1, <2>2, <2>3, PutType
      <3> QED
        BY <2>4, <3>2, <3>3
    <2>6. row' \in [Streams -> Rows] /\ row'[at].start = row[at].start
      <3>1. [row[at] EXCEPT !.cursor = k] \in Rows
        BY <2>1 DEF Types, RowTypes, Rows
      <3> QED
        BY <2>1, <2>4, <3>1 DEF Types, RowTypes, Rows
    <2> QED
      BY <1>7, <2>1, <2>4, <2>5, <2>6 DEF ScanRow, Types, SourceTypes, IndexTypes, ProcTypes,
         RowTypes, InScan, ScanPhases, sourceVars, versionVars, countVars
  <1>8. CASE EndScan
    <2>1. at \in Streams /\ index[at] \in Indices
      BY <1>8, AtIsAStream DEF EndScan, ScanPhases, Types, IndexTypes
    <2>2. refresh' \in [Streams -> [Indices -> {"on", "off"}]] /\ UNCHANGED rebuilds
      BY <1>8, <2>1 DEF EndScan, Restore, Refreshing, Fault, countVars, Types, IndexTypes, ProcTypes
    <2> QED
      BY <1>8, <2>1, <2>2 DEF EndScan, Types, SourceTypes, IndexTypes, ProcTypes,
         RowTypes, InScan, ScanPhases, sourceVars, versionVars
  <1>9. CASE FinishScan
    <2>1. at \in Streams
      BY <1>9, AtIsAStream DEF FinishScan, ScanPhases
    <2>2. row' \in [Streams -> Rows] /\ row'[at].start = row[at].start
      <3>1. [row[at] EXCEPT !.done = TRUE] \in Rows
        BY <2>1 DEF Types, RowTypes, Rows
      <3> QED
        BY <1>9, <2>1, <3>1 DEF FinishScan, Types, RowTypes, Rows
    <2> QED
      BY <1>9, <2>1, <2>2 DEF FinishScan, Types, SourceTypes, IndexTypes, ProcTypes,
         RowTypes, InScan, ScanPhases, sourceVars, indexVars, versionVars, countVars, histVars
  <1>10. CASE Promote
    <2>1. at \in Streams /\ at + 1 \in 1..(N + 1)
      BY <1>10, AtIsAStream DEF Promote, ScanPhases, Streams
    <2>2. index[at] \in Indices /\ row[at].start \in Nat
      BY <1>10, <2>1 DEF Promote, Types, IndexTypes, RowTypes, Rows, InScan, ScanPhases
    <2> QED
      BY <1>10, <2>1, <2>2 DEF Promote, Types, SourceTypes, IndexTypes, ProcTypes,
         RowTypes, InScan, ScanPhases, sourceVars, versionVars, countVars, histVars
  <1>11. CASE StartReader
    <2>1. SharedStartPosition \in Nat
      BY SharedStart DEF Types
    <2> QED
      BY <1>11, <2>1 DEF StartReader, Types, SourceTypes, IndexTypes, ProcTypes,
         RowTypes, InScan, ScanPhases, sourceVars, indexVars, versionVars, countVars, histVars
  <1>12. CASE ReadChange
    <2> DEFINE c == log[rpos + 1]
               val == IF c.op = "delete" THEN 0 ELSE rpos + 1
    <2>1. rpos \in Nat /\ rpos + 1 \in 1..Len(log) /\ Len(log) \in Nat
      BY <1>12, LenProperties DEF ReadChange, Types, ProcTypes, SourceTypes
    <2>2. c \in Entries
      BY <2>1, ElementOfSeq DEF Types, SourceTypes
    <2>3. c.stream \in Streams /\ c.key \in Keys
      BY <2>2 DEF Entries
    <2>4. val \in Nat
      BY <2>1
    <2>5. 1 \in Streams /\ Version(1) \in Nat
      BY VersionType DEF Types, Streams
    <2>6. clock' \in Nat /\ alloc' \in [Streams -> Blocks]
      BY <1>12, <2>5, VersionType DEF ReadChange, Types
    <2>7. /\ Put(c.stream, c.key, Version(1), val)
          /\ row' = [row EXCEPT ![c.stream].gtid = rpos] \/ UNCHANGED row
          /\ rewound' = {s \in rewound \cup {c.stream} : ResumesAt(s)' > rpos + 1}
          /\ rpos' = rpos + 1
          /\ UNCHANGED <<sourceVars, index, alias, refresh, phase, at, scanned, loading,
                         pos, countVars, since, trouble>>
      BY <1>12 DEF ReadChange
    <2> HIDE DEF c, val
    <2>8. dest' \in [Streams -> [Indices -> [Keys -> Docs]]]
      BY <2>3, <2>4, <2>5, <2>7, PutType DEF Types
    <2>9. row' \in [Streams -> Rows] /\ \A s \in Streams : row'[s].start = row[s].start
      <3>1. [row[c.stream] EXCEPT !.gtid = rpos] \in Rows
        BY <2>1, <2>3 DEF Types, RowTypes, Rows
      <3>2. \A s \in Streams : [row[s] EXCEPT !.gtid = rpos].start = row[s].start
        BY RowFields DEF Types, Rows
      <3> QED
        BY <2>3, <2>7, <3>1, <3>2 DEF Types, RowTypes
    <2>10. phase = "stream" /\ rewound' \subseteq Streams
      BY <1>12, <2>3, <2>7 DEF ReadChange, Types, RowTypes
    <2>11. SourceTypes' /\ IndexTypes'
      BY <2>7, <2>8 DEF Types, SourceTypes, IndexTypes, sourceVars, countVars
    <2>12. ProcTypes' /\ InScan'
      BY <2>1, <2>7, <2>10 DEF Types, ProcTypes, InScan, ScanPhases
    <2>13. RowTypes'
      BY <2>6, <2>7, <2>9, <2>10 DEF Types, RowTypes
    <2> QED
      BY <2>11, <2>12, <2>13 DEF Types
  <1>13. CASE Change
    <2>1. PICK c \in Changes : log' = Append(log, c)
      BY <1>13 DEF Change
    <2>2. log' \in Seq(Entries) /\ Len(log') = Len(log) + 1 /\ Len(log) \in Nat /\ Len(Initial) \in Nat
      BY <2>1, AppendProperties, LenProperties DEF Types, SourceTypes
    <2> QED
      BY <1>13, <2>2 DEF Change, Types, SourceTypes, IndexTypes, ProcTypes,
         RowTypes, InScan, ScanPhases, indexVars, procVars, versionVars, countVars, histVars
  <1>14. CASE ReplicaCatchesUp
    BY <1>14, LenProperties DEF ReplicaCatchesUp, Types, SourceTypes, IndexTypes, ProcTypes,
       RowTypes, InScan, ScanPhases, indexVars, procVars, versionVars, countVars, histVars
  <1>15. CASE Crash \/ StopScan \/ PromoteFails
    <2>1. Stopped /\ UNCHANGED rebuilds
      BY <1>15 DEF Crash, StopScan, PromoteFails, Fault
    <2>2. refresh' \in [Streams -> [Indices -> {"on", "off"}]]
          /\ alias' \in [Streams -> {0} \cup Indices]
      <3>1. CASE Crash
        BY <3>1 DEF Crash, Types, IndexTypes
      <3>2. CASE StopScan
        <4>1. at \in Streams /\ index[at] \in Indices /\ loading \in {"no", "on"}
          BY <3>2, AtIsAStream DEF StopScan, ScanPhases, Types, IndexTypes, ProcTypes
        <4>2. refresh' = refresh \/ refresh' = [refresh EXCEPT ![at][index[at]] = "on"]
          BY <3>2, <4>1 DEF StopScan, Refreshing
        <4>3. UNCHANGED alias
          BY <3>2 DEF StopScan
        <4>4. [refresh EXCEPT ![at][index[at]] = "on"] \in [Streams -> [Indices -> {"on", "off"}]]
          BY <4>1 DEF Types, IndexTypes
        <4> QED
          BY <4>2, <4>3, <4>4 DEF Types, IndexTypes
      <3>3. CASE PromoteFails
        BY <3>3, AtIsAStream DEF PromoteFails, ScanPhases, Types, IndexTypes
      <3> QED
        BY <1>15, <3>1, <3>2, <3>3
    <2> QED
      BY <2>1, <2>2 DEF Stopped, Types, SourceTypes, IndexTypes, ProcTypes,
         RowTypes, InScan, ScanPhases, sourceVars, versionVars, histVars
  <1>16. CASE Rebuild
    <2>1. PICK s \in Streams :
            /\ row' = [row EXCEPT ![s] = [NewRow EXCEPT !.gtid = row[s].gtid]]
            /\ index' = [index EXCEPT ![s] = @ + 1]
            /\ since' = [since EXCEPT ![s] = row[s].gtid]
            /\ rewound' = rewound \ {s}
      BY <1>16 DEF Rebuild
    <2>2. [NewRow EXCEPT !.gtid = row[s].gtid] \in Rows /\ row[s].gtid \in Nat \cup {None}
      <3>1. row[s].gtid \in Nat \cup {None}
        BY RowFields DEF Types
      <3> QED
        BY <3>1, NewRowType DEF Rows
    <2>3. rebuilds' = rebuilds + 1 /\ rebuilds' <= MaxRebuilds /\ rebuilds' \in Nat
      BY <1>16 DEF Rebuild, Types, IndexTypes
    <2>4. index[s] + 1 \in Indices /\ index[s] + 1 <= rebuilds' + 1
      BY <2>3 DEF Types, IndexTypes, Indices
    <2>5. index' \in [Streams -> Indices] /\ \A t \in Streams : index'[t] <= rebuilds' + 1
      BY <2>1, <2>3, <2>4 DEF Types, IndexTypes, Indices
    <2> QED
      BY <1>16, <2>1, <2>2, <2>3, <2>5 DEF Rebuild, Types, SourceTypes, IndexTypes, ProcTypes,
         RowTypes, InScan, ScanPhases, sourceVars, procVars, versionVars
  <1>17. CASE Idle \/ UNCHANGED vars
    BY <1>17 DEF Idle, vars, Types, SourceTypes, IndexTypes, ProcTypes,
       RowTypes, InScan, ScanPhases, sourceVars, indexVars, procVars, versionVars, countVars, histVars
  <1> QED
    BY <1>1, <1>2, <1>3, <1>4, <1>5, <1>6, <1>7, <1>8, <1>9, <1>10, <1>11, <1>12, <1>13,
       <1>14, <1>15, <1>16, <1>17 DEF Next, Progress

LEMMA Typing == Spec => []Types
  BY TypesInit, TypesStep, PTL DEF Spec

-----------------------------------------------------------------------------
(* Readers see what is written                                               *)

\* An index that readers use or are about to use refreshes; the scan of an
\* index that does not will put that back.
RefreshInv ==
  "settings" \notin trouble =>
    /\ \A s \in Streams : alias[s] # 0 => refresh[s][alias[s]] = "on"
    /\ phase \in {"finish", "promote"} \/ (phase = "scan" /\ loading = "no")
         => refresh[at][index[at]] = "on"

\* A change of the refresh setting of the current index of a stream whose
\* readers are elsewhere.
LEMMA RefreshChanges ==
  ASSUME Types, NEW s \in Streams, NEW value \in {"on", "off"}, Refreshing(s, value)
  PROVE  /\ refresh'[s][index[s]] = value
         /\ \A t \in Streams, i \in Indices :
              <<t, i>> # <<s, index[s]>> => refresh'[t][i] = refresh[t][i]
  <1>1. index[s] \in Indices
    BY DEF Types, IndexTypes
  <1> QED
    BY <1>1 DEF Refreshing, Types, IndexTypes

LEMMA RefreshStep == Types /\ RefreshInv /\ [Next]_vars => RefreshInv'
  <1> SUFFICES ASSUME Types, RefreshInv, [Next]_vars, "settings" \notin trouble' PROVE RefreshInv'
    BY DEF RefreshInv
  <1>1. CASE BeginBulkLoad
    <2>1. at \in Streams /\ index[at] \in Indices /\ index[at] # 0
      BY <1>1, AtIsAStream DEF BeginBulkLoad, ScanPhases, Types, IndexTypes, Indices
    <2>2. CASE alias[at] = index[at]
      BY <1>1, <2>1, <2>2 DEF BeginBulkLoad, RefreshInv
    <2>3. CASE alias[at] # index[at]
      <3>1. Refreshing(at, "off") /\ loading' = PutBack(refresh[at][index[at]]) /\ UNCHANGED trouble
        BY <1>1, <2>3 DEF BeginBulkLoad, Troubled
      <3>2. loading' = "on"
        BY <2>1, <3>1 DEF PutBack, Types, IndexTypes
      <3>3. \A t \in Streams, i \in Indices : <<t, i>> # <<at, index[at]>> => refresh'[t][i] = refresh[t][i]
        BY <2>1, <3>1, RefreshChanges
      <3>4. \A t \in Streams : alias[t] # 0 => alias[t] \in Indices /\ <<t, alias[t]>> # <<at, index[at]>>
        BY <2>3 DEF Types, IndexTypes
      <3> QED
        BY <1>1, <3>1, <3>2, <3>3, <3>4 DEF BeginBulkLoad, RefreshInv
    <2> QED
      BY <2>2, <2>3
  <1>2. CASE EndScan
    <2>1. at \in Streams /\ index[at] \in Indices
      BY <1>2, AtIsAStream DEF EndScan, ScanPhases, Types, IndexTypes
    <2>2. CASE loading = "no"
      BY <1>2, <2>2 DEF EndScan, Restore, RefreshInv
    <2>3. CASE loading # "no"
      <3>1. Refreshing(at, "on") /\ UNCHANGED trouble
        BY <1>2, <2>3 DEF EndScan, Restore, Troubled, Types, ProcTypes
      <3>2. refresh'[at][index[at]] = "on"
        BY <2>1, <3>1, RefreshChanges
      <3>3. \A t \in Streams, i \in Indices : <<t, i>> # <<at, index[at]>> => refresh'[t][i] = refresh[t][i]
        BY <2>1, <3>1, RefreshChanges
      <3>4. \A t \in Streams : alias[t] # 0 => alias[t] \in Indices
        BY DEF Types, IndexTypes
      <3> QED
        BY <1>2, <3>1, <3>2, <3>3, <3>4 DEF EndScan, RefreshInv
    <2> QED
      BY <2>2, <2>3
  <1>3. CASE Promote
    <2>1. at \in Streams
      BY <1>3, AtIsAStream DEF Promote, ScanPhases
    <2> QED
      BY <1>3, <2>1 DEF Promote, RefreshInv, histVars, Types, IndexTypes
  <1>4. CASE StopScan
    <2>1. at \in Streams /\ index[at] \in Indices
      BY <1>4, AtIsAStream DEF StopScan, ScanPhases, Types, IndexTypes
    <2>2. CASE loading = "no"
      BY <1>4, <2>2 DEF StopScan, Stopped, RefreshInv, histVars
    <2>3. CASE loading # "no"
      <3>1. Refreshing(at, "on")
        BY <1>4, <2>3 DEF StopScan, Types, ProcTypes
      <3>2. refresh'[at][index[at]] = "on"
        BY <2>1, <3>1, RefreshChanges
      <3>3. \A t \in Streams, i \in Indices : <<t, i>> # <<at, index[at]>> => refresh'[t][i] = refresh[t][i]
        BY <2>1, <3>1, RefreshChanges
      <3>4. \A t \in Streams : alias[t] # 0 => alias[t] \in Indices
        BY DEF Types, IndexTypes
      <3> QED
        BY <1>4, <3>2, <3>3, <3>4 DEF StopScan, Stopped, RefreshInv, histVars
    <2> QED
      BY <2>2, <2>3
  <1>5. CASE PromoteFails
    <2>1. at \in Streams
      BY <1>5, AtIsAStream DEF PromoteFails, ScanPhases
    <2> QED
      BY <1>5, <2>1 DEF PromoteFails, Stopped, RefreshInv, histVars, Types, IndexTypes
  <1>6. CASE Rebuild
    BY <1>6 DEF Rebuild, RefreshInv, procVars
  <1>7. CASE ScanRow \/ FinishScan
    BY <1>7 DEF ScanRow, FinishScan, Troubled, RefreshInv, indexVars, histVars
  <1>8. CASE Start \/ UseRecorded \/ StartWithoutSnapshot \/ MarkScanStarted \/ ResumeScan
    BY <1>8 DEF Start, UseRecorded, StartWithoutSnapshot, MarkScanStarted, ResumeScan, Loading,
       RefreshInv, indexVars, histVars
  <1>9. CASE StartReader \/ ReadChange \/ Crash
    BY <1>9 DEF StartReader, ReadChange, Crash, Stopped, RefreshInv, indexVars, histVars
  <1>10. CASE Change \/ ReplicaCatchesUp \/ Idle \/ UNCHANGED vars
    BY <1>10 DEF Change, ReplicaCatchesUp, Idle, vars, RefreshInv, indexVars, procVars, histVars
  <1> QED
    BY <1>1, <1>2, <1>3, <1>4, <1>5, <1>6, <1>7, <1>8, <1>9, <1>10 DEF Next, Progress

\* Readers are never left on an index that does not refresh unless a change of
\* its settings failed: BeginBulkLoad leaves the index readers use alone, and
\* puts the default back where an interrupted scan had switched it off.
THEOREM ReadersAlwaysRefreshed == Spec => []ReadersSeeWrites
  <1>1. Init => RefreshInv
    BY DEF Init, RefreshInv
  <1>2. RefreshInv => ReadersSeeWrites
    BY DEF RefreshInv, ReadersSeeWrites, ReadersAlwaysSeeWrites
  <1> QED
    BY <1>1, <1>2, Typing, RefreshStep, PTL DEF Spec

-----------------------------------------------------------------------------
(* Readers miss nothing                                                      *)

\* The scan of a stream has passed a key, in this run or an earlier one.
Passed(s, k) ==
  \/ k <= row[s].cursor
  \/ row[s].done /\ s \in Scanned
  \/ phase \in {"scan", "finish"} /\ at = s /\ k <= scanned

\* A scan has a version for its rows and a position that is not before the first
\* start, and is over when every key was passed.
ScanInv ==
  /\ \A s \in Streams : row[s].start # None => row[s].base # 0 /\ Len(Initial) <= row[s].start
  /\ phase = "finish" => scanned = K
  /\ phase = "promote" => row[at].done
  /\ \A s \in Streams : row[s].start = None => row[s].cursor = 0

\* A row that lasts is in every index a scan has passed it for, and in those
\* readers were moved to.
MissRows ==
  \A s \in Streams, k \in Keys :
    Lasting(s, k) =>
      /\ \A i \in Indices : dest[s][i][k].ver # 0 => dest[s][i][k].val # 0
      /\ alias[s] # 0 => dest[s][alias[s]][k].ver # 0
      /\ Passed(s, k) => dest[s][index[s]][k].ver # 0

\* So it is unless a replica was scanned that was behind the position of the scan.
MissInv == "lag" \notin trouble => MissRows

\* The log only grows.
LEMMA LogGrows ==
  ASSUME Types, [Next]_vars
  PROVE  /\ Len(log) \in Nat /\ Len(log') \in Nat /\ Len(log) <= Len(log')
         /\ \A i \in 1..Len(log) : log'[i] = log[i]
  <1>1. Len(log) \in Nat
    BY LenProperties DEF Types, SourceTypes
  <1>2. CASE Change
    <2>1. PICK c \in Changes : log' = Append(log, c)
      BY <1>2 DEF Change
    <2>2. c \in Entries /\ log \in Seq(Entries)
      BY LifecycleAssumption DEF LifecycleAssumption, Types, SourceTypes
    <2>3. Len(log') = Len(log) + 1 /\ \A i \in 1..Len(log) : log'[i] = log[i]
      BY <2>1, <2>2, AppendProperties
    <2> QED
      BY <1>1, <2>3
  <1>3. CASE UNCHANGED log
    BY <1>1, <1>3
  <1>4. CASE Start \/ UseRecorded \/ StartWithoutSnapshot \/ MarkScanStarted \/ ResumeScan
    BY <1>3, <1>4 DEF Start, UseRecorded, StartWithoutSnapshot, MarkScanStarted, ResumeScan, sourceVars
  <1>5. CASE BeginBulkLoad \/ ScanRow \/ EndScan \/ FinishScan \/ Promote \/ StartReader \/ ReadChange
    BY <1>3, <1>5 DEF BeginBulkLoad, ScanRow, EndScan, FinishScan, Promote, StartReader, ReadChange,
       sourceVars
  <1>6. CASE \/ ReplicaCatchesUp \/ Crash \/ StopScan \/ PromoteFails \/ Rebuild \/ Idle
             \/ UNCHANGED vars
    BY <1>3, <1>6 DEF ReplicaCatchesUp, Crash, StopScan, PromoteFails, Stopped, Rebuild, Idle,
       vars, sourceVars
  <1> QED
    BY <1>2, <1>4, <1>5, <1>6 DEF Next, Progress

\* A row that lasts has lasted.
LEMMA LastingBefore ==
  ASSUME Types, [Next]_vars, NEW s, NEW k, Lasting(s, k)'
  PROVE  Lasting(s, k)
  <1>1. /\ Len(log) \in Nat /\ Len(log') \in Nat /\ Len(log) <= Len(log')
        /\ \A i \in 1..Len(log) : log'[i] = log[i]
    BY LogGrows
  <1>2. Len(Initial) \in Nat /\ Len(Initial) <= Len(log)
    BY LenProperties, LifecycleAssumption DEF LifecycleAssumption, Types, SourceTypes
  <1>3. 1..Len(Initial) \subseteq 1..Len(log) /\ 1..Len(log) \subseteq 1..Len(log')
    BY <1>1, <1>2
  <1> QED
    BY <1>1, <1>3 DEF Lasting

\* What the reader reads, and what it does to the rows.
LEMMA ReadIs ==
  ASSUME Types, ReadChange
  PROVE  /\ rpos + 1 \in 1..Len(log) /\ log[rpos + 1] \in Entries
         /\ log[rpos + 1].stream \in Streams /\ log[rpos + 1].key \in Keys
         /\ \A s \in Streams :
              /\ row'[s].start = row[s].start /\ row'[s].base = row[s].base
              /\ row'[s].cursor = row[s].cursor /\ row'[s].done = row[s].done
              /\ row'[s].gtid = row[s].gtid \/ (s = log[rpos + 1].stream /\ row'[s].gtid = rpos)
  <1>1. rpos + 1 \in 1..Len(log)
    BY LenProperties DEF ReadChange, Types, ProcTypes, SourceTypes
  <1>2. log[rpos + 1] \in Entries
    BY <1>1, ElementOfSeq DEF Types, SourceTypes
  <1>3. log[rpos + 1].stream \in Streams /\ log[rpos + 1].key \in Keys
    BY <1>2 DEF Entries
  <1>4. PICK t \in Streams : t = log[rpos + 1].stream
    BY <1>3
  <1>5. row' = [row EXCEPT ![t].gtid = rpos] \/ row' = row
    BY <1>4 DEF ReadChange
  <1>6. \A s \in Streams :
          /\ row'[s].start = row[s].start /\ row'[s].base = row[s].base
          /\ row'[s].cursor = row[s].cursor /\ row'[s].done = row[s].done
          /\ row'[s].gtid = row[s].gtid \/ (s = t /\ row'[s].gtid = rpos)
    BY <1>5 DEF Types, RowTypes, Rows
  <1> QED
    BY <1>1, <1>2, <1>3, <1>4, <1>6

\* What a start without a scan does to the rows.
LEMMA StartIs ==
  ASSUME Types, StartWithoutSnapshot
  PROVE  /\ at \in Streams /\ phase = "load" /\ at \notin Scanned
         /\ \A s \in Streams :
              /\ row'[s].start = row[s].start /\ row'[s].base = row[s].base
              /\ row'[s].cursor = row[s].cursor
              /\ s # at => row'[s] = row[s] /\ since'[s] = since[s]
         /\ \/ row[at].gtid # None /\ row' = row /\ since' = since /\ pos' = [pos EXCEPT ![at] = row[at].gtid]
            \/ /\ row[at].gtid = None /\ row'[at].gtid = Len(log) /\ since'[at] = Len(log)
               /\ pos' = [pos EXCEPT ![at] = Len(log)]
  <1>1. at \in Streams /\ phase = "load" /\ at \notin Scanned
    BY AtIsAStream DEF StartWithoutSnapshot, Loading
  <1>2. CASE row[at].gtid # None
    BY <1>1, <1>2 DEF StartWithoutSnapshot
  <1>3. CASE row[at].gtid = None
    <2> DEFINE n == Len(log)
    <2>1. /\ row' = [row EXCEPT ![at].done = TRUE, ![at].gtid = n]
          /\ since' = [since EXCEPT ![at] = n] /\ pos' = [pos EXCEPT ![at] = n]
      BY <1>3 DEF StartWithoutSnapshot
    <2> HIDE DEF n
    <2>2. \A s \in Streams :
              /\ row'[s].start = row[s].start /\ row'[s].base = row[s].base
              /\ row'[s].cursor = row[s].cursor
              /\ s # at => row'[s] = row[s] /\ since'[s] = since[s]
      BY <1>1, <2>1 DEF Types, RowTypes, Rows
    <2>3. row'[at].gtid = n /\ since'[at] = n
      BY <1>1, <2>1 DEF Types, RowTypes, Rows
    <2> QED
      BY <1>1, <1>3, <2>1, <2>2, <2>3 DEF n
  <1> QED
    BY <1>2, <1>3

LEMMA ScanStep == Types /\ ScanInv /\ [Next]_vars => ScanInv'
  <1> SUFFICES ASSUME Types, ScanInv, [Next]_vars PROVE ScanInv'
    OBVIOUS
  <1>1. CASE UNCHANGED <<row, phase, scanned, at>>
    BY <1>1 DEF ScanInv
  <1>2. CASE ResumeScan \/ Start \/ UseRecorded \/ StartReader \/ Promote
    BY <1>2 DEF ResumeScan, Start, UseRecorded, StartReader, Promote, Loading, ScanInv
  <1>3. CASE StartWithoutSnapshot
    <2>1. phase' = "load"
      BY <1>3 DEF StartWithoutSnapshot, Loading
    <2> QED
      BY <1>3, <2>1, StartIs DEF ScanInv
  <1>4. CASE MarkScanStarted
    <2>1. at \in Streams /\ phase' = "begin" /\ Version(at) # 0 /\ Len(log) \in Nat /\ Len(Initial) <= Len(log)
      BY <1>4, AtIsAStream, VersionType, LenProperties DEF MarkScanStarted, Types, SourceTypes
    <2>2. /\ row'[at].base = Version(at) /\ row'[at].start = Len(log)
          /\ \A s \in Streams : s # at => row'[s] = row[s]
      BY <1>4, <2>1 DEF MarkScanStarted, Types, RowTypes, Rows
    <2> QED
      BY <2>1, <2>2 DEF ScanInv, None
  <1>5. CASE BeginBulkLoad
    BY <1>5 DEF BeginBulkLoad, ScanInv
  <1>6. CASE ScanRow
    <2>1. at \in Streams /\ phase' = "scan" /\ row[at].start # None
      BY <1>6, AtIsAStream DEF ScanRow, ScanPhases, Types, InScan
    <2>2. \A s \in Streams : /\ row'[s].start = row[s].start /\ row'[s].base = row[s].base
                             /\ s # at => row'[s].cursor = row[s].cursor
      BY <1>6, <2>1 DEF ScanRow, Types, RowTypes, Rows
    <2> QED
      BY <2>1, <2>2 DEF ScanInv
  <1>7. CASE EndScan
    <2>1. scanned = K
      BY <1>7, LifecycleAssumption DEF LifecycleAssumption, EndScan, KeysLeft, Types, ProcTypes
    <2> QED
      BY <1>7, <2>1 DEF EndScan, ScanInv
  <1>8. CASE FinishScan
    <2>1. at \in Streams /\ phase' = "promote" /\ at' = at
      BY <1>8, AtIsAStream DEF FinishScan, ScanPhases
    <2>2. \A s \in Streams : /\ row'[s].start = row[s].start /\ row'[s].base = row[s].base
                             /\ row'[s].cursor = row[s].cursor
      BY <1>8, <2>1 DEF FinishScan, Types, RowTypes, Rows
    <2>3. row'[at].done
      BY <1>8, <2>1 DEF FinishScan, Types, RowTypes, Rows
    <2> QED
      BY <2>1, <2>2, <2>3 DEF ScanInv
  <1>9. CASE ReadChange
    <2>1. phase' = "stream"
      BY <1>9 DEF ReadChange
    <2> QED
      BY <1>9, <2>1, ReadIs DEF ScanInv
  <1>10. CASE Crash \/ StopScan \/ PromoteFails
    BY <1>10 DEF Crash, StopScan, PromoteFails, Stopped, ScanInv
  <1>11. CASE Rebuild
    <2>1. PICK s \in Streams : row' = [row EXCEPT ![s] = [NewRow EXCEPT !.gtid = row[s].gtid]]
      BY <1>11 DEF Rebuild
    <2>2. [NewRow EXCEPT !.gtid = row[s].gtid].start = None /\ [NewRow EXCEPT !.gtid = row[s].gtid].cursor = 0
      BY NewRowType DEF Rows
    <2>3. row'[s].start = None /\ row'[s].cursor = 0 /\ \A t \in Streams : t # s => row'[t] = row[t]
      BY <2>1, <2>2 DEF Types, RowTypes
    <2>4. phase' = "down"
      BY <1>11 DEF Rebuild, procVars
    <2> QED
      BY <2>3, <2>4 DEF ScanInv
  <1>12. CASE Change \/ ReplicaCatchesUp \/ Idle \/ UNCHANGED vars
    BY <1>1, <1>12 DEF Change, ReplicaCatchesUp, Idle, vars, procVars
  <1> QED
    BY <1>2, <1>3, <1>4, <1>5, <1>6, <1>7, <1>8, <1>9, <1>10, <1>11, <1>12 DEF Next, Progress

\* A step that writes no document and passes no key.
LEMMA MissKept ==
  ASSUME Types, MissRows, NEW s \in Streams, NEW k \in Keys, Lasting(s, k),
         dest' = dest, index'[s] = index[s], alias'[s] = alias[s], Passed(s, k)' => Passed(s, k)
  PROVE  /\ \A i \in Indices : dest'[s][i][k].ver # 0 => dest'[s][i][k].val # 0
         /\ alias'[s] # 0 => dest'[s][alias'[s]][k].ver # 0
         /\ Passed(s, k)' => dest'[s][index'[s]][k].ver # 0
  BY DEF MissRows

\* A version and a value are written over those of a row that lasts.
LEMMA MissPut ==
  ASSUME Types, MissRows, NEW s \in Streams, NEW k \in Keys, Lasting(s, k),
         NEW t \in Streams, NEW j \in Keys, NEW ver \in Nat \ {0}, NEW val \in Nat,
         Put(t, j, ver, val), s = t /\ k = j => val # 0
  PROVE  /\ \A i \in Indices : dest'[s][i][k].ver # 0 => dest'[s][i][k].val # 0
         /\ \A i \in Indices : dest[s][i][k].ver # 0 => dest'[s][i][k].ver # 0
         /\ s = t /\ k = j => dest'[s][index[s]][k].ver # 0
  <1>1. dest[t][index[t]][j] \in Docs /\ index[t] \in Indices
    BY DEF Types, IndexTypes
  <1>2. /\ dest'[t][index[t]][j] = IF ver > dest[t][index[t]][j].ver
                                     THEN [ver |-> ver, val |-> val]
                                     ELSE dest[t][index[t]][j]
        /\ \A a \in Streams, i \in Indices, b \in Keys :
             <<a, i, b>> # <<t, index[t], j>> => dest'[a][i][b] = dest[a][i][b]
    BY PutType DEF Types
  <1>3. CASE s = t /\ k = j
    <2>1. dest'[t][index[t]][j].ver # 0
      BY <1>1, <1>2 DEF Docs
    <2>2. dest'[t][index[t]][j].val # 0
      BY <1>1, <1>2, <1>3 DEF Docs, MissRows
    <2>3. \A i \in Indices : i # index[t] => dest'[s][i][k] = dest[s][i][k]
      BY <1>2, <1>3
    <2> QED
      BY <1>3, <2>1, <2>2, <2>3 DEF MissRows
  <1>4. CASE ~(s = t /\ k = j)
    <2>1. \A i \in Indices : dest'[s][i][k] = dest[s][i][k]
      BY <1>2, <1>4
    <2> QED
      BY <1>4, <2>1 DEF MissRows
  <1> QED
    BY <1>3, <1>4

\* A replica that was behind is not forgotten.
LEMMA LagStays == ASSUME [Next]_vars, "lag" \notin trouble' PROVE "lag" \notin trouble
  <1>1. CASE Start \/ UseRecorded \/ StartWithoutSnapshot \/ MarkScanStarted \/ ResumeScan \/ FinishScan
    BY <1>1 DEF Start, UseRecorded, StartWithoutSnapshot, MarkScanStarted, ResumeScan, FinishScan, histVars
  <1>2. CASE BeginBulkLoad \/ EndScan \/ ScanRow
    BY <1>2 DEF BeginBulkLoad, EndScan, Restore, ScanRow, Troubled
  <1>3. CASE Promote \/ StartReader \/ ReadChange \/ Crash \/ StopScan \/ PromoteFails \/ Rebuild
    BY <1>3 DEF Promote, StartReader, ReadChange, Crash, StopScan, PromoteFails, Stopped, Rebuild, histVars
  <1>4. CASE Change \/ ReplicaCatchesUp \/ Idle \/ UNCHANGED vars
    BY <1>4 DEF Change, ReplicaCatchesUp, Idle, vars, histVars
  <1> QED
    BY <1>1, <1>2, <1>3, <1>4 DEF Next, Progress

\* A scan that is not behind its position reads where every row that lasts is.
LEMMA ScansPastInitial ==
  ASSUME Types, ScanInv, ScanRow, "lag" \notin trouble', NEW p,
         p = IF server = "replica" THEN replica ELSE Len(log)
  PROVE  p \in Nat /\ Len(Initial) <= p /\ p <= Len(log)
  <1>1. at \in Streams /\ row[at].start # None
    BY AtIsAStream DEF ScanRow, ScanPhases, Types, InScan
  <1>2. row[at].start \in Nat /\ Len(Initial) <= row[at].start
    BY <1>1, RowFields DEF ScanInv, Types
  <1>3. Len(Initial) \in Nat /\ Len(log) \in Nat
    BY LenProperties, LifecycleAssumption DEF LifecycleAssumption, Types, SourceTypes
  <1>4. ~(server = "replica" /\ replica < row[at].start)
    BY DEF ScanRow, Troubled
  <1> QED
    BY <1>2, <1>3, <1>4 DEF Types, SourceTypes

LEMMA MissStep == Types /\ ScanInv /\ MissInv /\ [Next]_vars => MissInv'
  <1> SUFFICES ASSUME Types, ScanInv, MissInv, [Next]_vars, "lag" \notin trouble'
               PROVE  MissRows'
    BY DEF MissInv
  <1>0. MissRows
    BY LagStays DEF MissInv
  <1> SUFFICES ASSUME MissRows,
                      NEW s \in Streams, NEW k \in Keys, Lasting(s, k)'
               PROVE  /\ \A i \in Indices : dest'[s][i][k].ver # 0 => dest'[s][i][k].val # 0
                      /\ alias'[s] # 0 => dest'[s][alias'[s]][k].ver # 0
                      /\ Passed(s, k)' => dest'[s][index'[s]][k].ver # 0
    BY <1>0 DEF MissRows
  <1>1. Lasting(s, k)
    BY LastingBefore
  <1>2. k \in 1..K /\ K \in Nat /\ row[s].cursor \in 0..K /\ scanned \in 0..K
    BY RowFields, LifecycleAssumption DEF LifecycleAssumption, Keys, Types, ProcTypes
  <1>3. CASE Start \/ UseRecorded \/ ResumeScan \/ StartReader
    BY <1>1, <1>3, MissKept DEF Start, UseRecorded, ResumeScan, StartReader, indexVars, Passed, Loading
  <1>4. CASE StartWithoutSnapshot
    <2>1. row'[s].cursor = row[s].cursor /\ (row'[s].done /\ s \in Scanned => row[s].done)
      BY <1>4, StartIs
    <2> QED
      BY <1>1, <1>4, <2>1, MissKept DEF StartWithoutSnapshot, indexVars, Passed, Loading
  <1>5. CASE MarkScanStarted
    <2>1. row'[s].cursor = row[s].cursor /\ row'[s].done = row[s].done
      BY <1>5, AtIsAStream DEF MarkScanStarted, Types, RowTypes, Rows
    <2> QED
      BY <1>1, <1>5, <2>1, MissKept DEF MarkScanStarted, indexVars, Passed
  <1>6. CASE BeginBulkLoad
    <2>1. Passed(s, k)' => Passed(s, k)
      BY <1>6 DEF BeginBulkLoad, Passed
    <2> QED
      BY <1>1, <1>6, <2>1, MissKept DEF BeginBulkLoad
  <1>7. CASE EndScan
    <2>1. Passed(s, k)' => Passed(s, k)
      BY <1>7 DEF EndScan, Passed
    <2> QED
      BY <1>1, <1>7, <2>1, MissKept DEF EndScan
  <1>8. CASE FinishScan
    <2>1. at \in Streams /\ scanned = K /\ phase = "finish" /\ phase' = "promote"
      BY <1>8, AtIsAStream DEF FinishScan, ScanPhases, ScanInv
    <2>2. row'[s].cursor = row[s].cursor /\ (s # at => row'[s].done = row[s].done)
      BY <1>8, <2>1 DEF FinishScan, Types, RowTypes, Rows
    <2>3. Passed(s, k)' => Passed(s, k)
      BY <1>2, <2>1, <2>2 DEF Passed
    <2> QED
      BY <1>1, <1>8, <2>3, MissKept DEF FinishScan, indexVars
  <1>9. CASE ScanRow
    <2> DEFINE j == scanned + 1
               p == IF server = "replica" THEN replica ELSE Len(log)
               val == Content(at, j, p)
    <2>1. at \in Streams /\ j \in Keys /\ row[at].base \in Nat \ {0}
      <3>1. at \in Streams /\ row[at].start # None
        BY <1>9, AtIsAStream DEF ScanRow, ScanPhases, Types, InScan
      <3>2. row[at].base \in Nat \ {0}
        BY <3>1, RowFields DEF Types, ScanInv
      <3>3. j \in Keys
        BY <1>2, <1>9 DEF ScanRow, KeysLeft, Keys
      <3> QED
        BY <3>1, <3>2, <3>3
    <2>2. p \in Nat /\ Len(Initial) <= p /\ p <= Len(log)
      BY <1>9, ScansPastInitial
    <2>3. /\ IF val = 0 THEN UNCHANGED dest ELSE Put(at, j, row[at].base, val)
          /\ scanned' = j
          /\ row' = [row EXCEPT ![at].cursor = j] \/ UNCHANGED row
          /\ UNCHANGED <<index, alias, phase, at>> /\ phase = "scan"
      BY <1>9, Zenon DEF ScanRow
    <2>4. val \in Nat
      BY <2>2, ContentType
    <2>5. s = at /\ k = j => val # 0
      BY <1>1, <2>2, LastingContent DEF Types
    <2> HIDE DEF p, val
    <2>6. /\ row'[s].done = row[s].done
          /\ row'[s].cursor = row[s].cursor \/ (s = at /\ row'[s].cursor = j)
      BY <2>1, <2>3 DEF Types, RowTypes, Rows
    <2>7. Passed(s, k)' => Passed(s, k) \/ (s = at /\ k = j)
      BY <1>2, <2>3, <2>6 DEF Passed
    <2> HIDE DEF j
    <2>8. CASE val = 0
      BY <1>1, <2>3, <2>5, <2>7, <2>8, MissKept
    <2>9. CASE val # 0
      <3>1. /\ \A i \in Indices : dest'[s][i][k].ver # 0 => dest'[s][i][k].val # 0
            /\ \A i \in Indices : dest[s][i][k].ver # 0 => dest'[s][i][k].ver # 0
            /\ s = at /\ k = j => dest'[s][index[s]][k].ver # 0
        BY <1>1, <2>1, <2>3, <2>4, <2>5, <2>9, MissPut
      <3>2. index[s] \in Indices /\ alias[s] \in {0} \cup Indices
        BY DEF Types, IndexTypes
      <3> QED
        BY <1>1, <2>3, <2>7, <3>1, <3>2 DEF MissRows
    <2> QED
      BY <2>8, <2>9
  <1>10. CASE ReadChange
    <2> DEFINE c == log[rpos + 1]
               val == IF c.op = "delete" THEN 0 ELSE rpos + 1
    <2>1. c.stream \in Streams /\ c.key \in Keys /\ rpos + 1 \in 1..Len(log)
      BY <1>10, ReadIs
    <2>2. Put(c.stream, c.key, Version(1), val)
      BY <1>10 DEF ReadChange
    <2>3. val \in Nat /\ Version(1) \in Nat \ {0}
      BY VersionType, LifecycleAssumption DEF LifecycleAssumption, Streams, Types, ProcTypes
    <2>4. s = c.stream /\ k = c.key => val # 0
      BY <1>1, <2>1 DEF Lasting, Types, ProcTypes
    <2>5. /\ row'[s].cursor = row[s].cursor /\ row'[s].done = row[s].done
          /\ UNCHANGED <<index, alias, phase, at, scanned>>
      BY <1>10, ReadIs DEF ReadChange
    <2> HIDE DEF c, val
    <2>6. /\ \A i \in Indices : dest'[s][i][k].ver # 0 => dest'[s][i][k].val # 0
          /\ \A i \in Indices : dest[s][i][k].ver # 0 => dest'[s][i][k].ver # 0
      BY <1>1, <2>1, <2>2, <2>3, <2>4, MissPut
    <2>7. Passed(s, k)' => Passed(s, k)
      BY <2>5 DEF Passed
    <2>8. index[s] \in Indices /\ alias[s] \in {0} \cup Indices
      BY DEF Types, IndexTypes
    <2> QED
      BY <1>1, <2>5, <2>6, <2>7, <2>8 DEF MissRows
  <1>11. CASE Promote \/ PromoteFails
    <2>1. at \in Streams /\ phase = "promote" /\ row[at].done /\ at \in Scanned
      BY <1>11, AtIsAStream DEF Promote, PromoteFails, ScanPhases, ScanInv, Types, InScan
    <2>2. /\ alias' = [alias EXCEPT ![at] = index[at]] \/ UNCHANGED alias
          /\ UNCHANGED <<row, index, dest>> /\ phase' \in {"load", "down"}
      BY <1>11 DEF Promote, PromoteFails, Stopped
    <2>3. Passed(s, k)' => Passed(s, k)
      BY <2>2 DEF Passed
    <2>4. s = at => Passed(s, k)
      BY <2>1 DEF Passed
    <2>5. alias'[s] = alias[s] \/ (s = at /\ alias'[s] = index[s])
      BY <2>1, <2>2 DEF Types, IndexTypes
    <2> QED
      BY <1>1, <2>2, <2>3, <2>4, <2>5 DEF MissRows
  <1>12. CASE Crash \/ StopScan
    <2>1. UNCHANGED <<row, index, dest, alias>> /\ phase' = "down"
      BY <1>12 DEF Crash, StopScan, Stopped
    <2> QED
      BY <1>1, <2>1, MissKept DEF Passed
  <1>13. CASE Rebuild
    <2>1. PICK t \in Streams : /\ row' = [row EXCEPT ![t] = [NewRow EXCEPT !.gtid = row[t].gtid]]
                               /\ index' = [index EXCEPT ![t] = @ + 1]
      BY <1>13 DEF Rebuild
    <2>2. UNCHANGED <<alias, dest, at>> /\ phase' = "down"
      BY <1>13 DEF Rebuild, procVars
    <2>3. CASE s = t
      <3>1. [NewRow EXCEPT !.gtid = row[t].gtid].done = FALSE /\ [NewRow EXCEPT !.gtid = row[t].gtid].cursor = 0
        BY NewRowType DEF Rows
      <3>2. ~row'[s].done /\ row'[s].cursor = 0
        BY <2>1, <2>3, <3>1 DEF Types, RowTypes
      <3>3. ~Passed(s, k)'
        BY <1>2, <2>2, <3>2 DEF Passed
      <3> QED
        BY <1>1, <2>2, <3>3 DEF MissRows
    <2>4. CASE s # t
      <3>1. row'[s] = row[s] /\ index'[s] = index[s]
        BY <2>1, <2>4 DEF Types, RowTypes, IndexTypes
      <3> QED
        BY <1>1, <2>2, <3>1, MissKept DEF Passed
    <2> QED
      BY <2>3, <2>4
  <1>14. CASE Change \/ ReplicaCatchesUp \/ Idle \/ UNCHANGED vars
    <2>1. UNCHANGED <<row, index, dest, alias, phase, at, scanned>>
      BY <1>14 DEF Change, ReplicaCatchesUp, Idle, vars, indexVars, procVars
    <2> QED
      BY <1>1, <2>1, MissKept DEF Passed
  <1> QED
    BY <1>3, <1>4, <1>5, <1>6, <1>7, <1>8, <1>9, <1>10, <1>11, <1>12, <1>13, <1>14 DEF Next, Progress

\* Readers never see a half-built index: a row that was there before the first
\* start and was never deleted is in the index the alias resolves to, in the
\* middle of a rebuild and after any interruption, for promoteAlias comes after
\* a scan that passed every key.  But for a scan of a replica that was behind the
\* position the scan had recorded: however far behind the first start the replica
\* was, one that has reached that position holds the row.
THEOREM ReadersNeverMiss == Spec => []ReadersMissNothing
  <1>1. Init => ScanInv /\ MissInv
    <2> SUFFICES ASSUME Init PROVE ScanInv /\ MissInv
      OBVIOUS
    <2>1. \A s \in Streams : row[s] = NewRow /\ alias[s] = 0 /\ index[s] \in Indices
      BY LifecycleAssumption DEF LifecycleAssumption, Init, Indices
    <2>2. ScanInv
      BY <2>1, NewRowType DEF Init, ScanInv
    <2>3. \A s \in Streams, k \in Keys : ~Passed(s, k)
      BY <2>1, NewRowType, LifecycleAssumption DEF LifecycleAssumption, Init, Passed, Keys
    <2>4. \A s \in Streams, i \in Indices, k \in Keys : dest[s][i][k].ver = 0
      BY DEF Init
    <2> QED
      BY <2>1, <2>2, <2>3, <2>4 DEF MissInv, MissRows
  <1>2. Types /\ MissInv => ReadersMissNothing
    BY DEF Types, IndexTypes, MissInv, MissRows, ReadersMissNothing,
       ReadersNeverMissARow
  <1> QED
    BY <1>1, <1>2, Typing, ScanStep, MissStep, PTL DEF Spec

-----------------------------------------------------------------------------
(* The copy is exact                                                         *)

\* Versions from one allocator: the stream that is scanned is the first, whose
\* allocator also numbers the changes the reader reads.
OnlyFirstScanned == Scanned \subseteq {1}

\* The next version is above every version in a document or a row.
VersionInv ==
  /\ alloc[1].end <= clock
  /\ \A s \in Streams : row[s].base < Version(1)
  /\ \A s \in Streams, i \in Indices, k \in Keys : dest[s][i][k].ver < Version(1)

\* Where a stream goes on after a stop, None for one that begins anew.
Recorded(s) ==
  IF row[s].gtid # None /\ (row[s].done \/ s \notin Scanned) THEN row[s].gtid ELSE row[s].start

\* Backfill is done with a stream.
Settled(s) == IF s \in Scanned THEN row[s].done ELSE row[s].gtid # None

\* Where a stream goes on from here, with what the process has in hand.
From(s) ==
  IF phase = "load" /\ s < at THEN pos[s]
  ELSE IF phase = "promote" /\ s = at THEN row[s].start ELSE Recorded(s)

\* Positions lie within the log; one that is used later is not behind the one a
\* stop would fall back to.
RowPositions ==
  \A s \in Streams :
    /\ row[s].gtid <= Len(log) /\ row[s].start <= Len(log) /\ pos[s] <= Len(log)
    /\ s \in Scanned /\ row[s].start = None => ~row[s].done
    /\ s \notin Scanned => /\ since[s] # None /\ row[s].start = None
                           /\ row[s].gtid = None => row[s] = NewRow
    /\ row[s].start # None /\ ~row[s].done => row[s].gtid <= row[s].start

RunPositions ==
  /\ rpos <= Len(log)
  /\ phase \in {"begin", "scan", "finish"} => ~(row[at].done /\ row[at].gtid # None)
  /\ phase = "promote" => row[at].gtid <= row[at].start
  /\ phase = "load" => \A s \in Streams : s < at => Settled(s) /\ Recorded(s) <= pos[s]
  /\ phase = "stream" => /\ \A s \in Streams : Settled(s)
                         /\ \E s \in Streams : Recorded(s) <= rpos

\* An index a scan has not begun to fill is empty.
EmptyInv ==
  \A s \in Streams, k \in Keys :
    /\ \A i \in Indices : /\ dest[s][i][k].ver = 0 => dest[s][i][k].val = 0
                          /\ i > index[s] => dest[s][i][k].ver = 0
    /\ s \in Scanned /\ row[s].start = None => dest[s][index[s]][k].ver = 0

\* The document holds a value the row had at position p or later.
Holds(s, k, p) == \E q \in p..Len(log) : dest[s][index[s]][k].val = Content(s, k, q)

\* So it does if the row is one to copy and position p is reached.
Exact(s, k, p) ==
  (s \in Scanned \/ \E i \in (since[s] + 1)..p : Concerns(i, s, k)) => Holds(s, k, p)

\* A row that was scanned or written, or whose stream has begun.
Touched(s, k) ==
  IF s \in Scanned THEN Passed(s, k) \/ dest[s][index[s]][k].ver # 0 ELSE row[s].gtid # None

\* Neither a replica that is behind nor a replay that was cut short.
Untroubled == trouble \cap {"lag", "replay"} = {}

\* A reader that starts where some stream goes on makes the row exact.
ExactFromOne(s, k) ==
  phase # "stream" /\ Touched(s, k) => \E t \in Streams : From(t) # None /\ Exact(s, k, From(t))

\* While the reader reads, every row is exact where it is.
ExactAtReader(s, k) == phase = "stream" => Exact(s, k, rpos)

\* A row is exact where its own stream goes on, unless a replay took it back.
ExactFromOwn(s, k) ==
  s \notin rewound /\ Touched(s, k) => Recorded(s) # None /\ Exact(s, k, Recorded(s))

CopyInv ==
  Untroubled => \A s \in Streams, k \in Keys :
                  ExactFromOne(s, k) /\ ExactAtReader(s, k) /\ ExactFromOwn(s, k)

LEMMA FirstIsAStream == 1 \in Streams
  BY LifecycleAssumption DEF LifecycleAssumption, Streams

\* Taking a version raises the next one.
LEMMA VersionRises ==
  ASSUME RowTypes, alloc[1].end <= clock, TakeVersion(1)
  PROVE  alloc'[1].end <= clock' /\ Version(1) < Version(1)'
  <1>1. alloc[1] \in Blocks /\ clock \in Nat /\ Block \in Nat \ {0}
    BY FirstIsAStream, LifecycleAssumption DEF LifecycleAssumption, RowTypes
  <1> DEFINE end == IF alloc[1].next <= alloc[1].end THEN alloc[1].end ELSE clock + Block
  <1>2. clock' = IF alloc[1].next <= alloc[1].end THEN clock ELSE clock + Block
    BY DEF TakeVersion
  <1>3. alloc'[1] = [next |-> Version(1) + 1, end |-> end]
    BY FirstIsAStream DEF TakeVersion, RowTypes
  <1>4. end <= clock' /\ alloc'[1].end = end /\ alloc'[1].next = Version(1) + 1
    BY <1>1, <1>2, <1>3 DEF Blocks
  <1>5. Version(1)' = IF alloc'[1].next <= alloc'[1].end THEN alloc'[1].next ELSE clock' + 1
    BY DEF Version
  <1>6. Version(1) \in Nat /\ Version(1) <= clock'
    BY <1>1, <1>2 DEF Version, Blocks
  <1>7. clock' \in Nat /\ end \in Nat
    BY <1>1, <1>2 DEF Blocks
  <1> HIDE DEF end
  <1>8. Version(1) < Version(1)'
    BY <1>4, <1>5, <1>6, <1>7
  <1> QED
    BY <1>4, <1>8

\* A document's version is the one it had or the one that is written.
LEMMA PutVersions ==
  ASSUME IndexTypes, NEW s \in Streams, NEW k \in Keys, NEW ver \in Nat, NEW val \in Nat,
         Put(s, k, ver, val)
  PROVE  \A t \in Streams, i \in Indices, j \in Keys :
           dest'[t][i][j].ver = dest[t][i][j].ver \/ dest'[t][i][j].ver = ver
  <1>1. /\ dest'[s][index[s]][k] = IF ver > dest[s][index[s]][k].ver
                                      THEN [ver |-> ver, val |-> val]
                                      ELSE dest[s][index[s]][k]
        /\ \A t \in Streams, i \in Indices, j \in Keys :
              <<t, i, j>> # <<s, index[s], k>> => dest'[t][i][j] = dest[t][i][j]
    BY PutType
  <1>2. dest'[s][index[s]][k].ver \in {dest[s][index[s]][k].ver, ver}
    BY <1>1
  <1> QED
    BY <1>1, <1>2

\* The row that is scanned, and what is written of it.
LEMMA ScanIs ==
  ASSUME Types, ScanInv, ScanRow,
         NEW j, j = scanned + 1, NEW p, p = IF server = "replica" THEN replica ELSE Len(log)
  PROVE  /\ at \in Streams /\ at \in Scanned /\ j \in Keys /\ p \in Nat /\ p <= Len(log)
         /\ row[at].base \in Nat \ {0} /\ row[at].start \in Nat /\ Content(at, j, p) \in Nat
         /\ IF Content(at, j, p) = 0 THEN UNCHANGED dest
                                     ELSE Put(at, j, row[at].base, Content(at, j, p))
         /\ trouble' = trouble \/ trouble' = trouble \cup {"lag"}
         /\ "lag" \in trouble' \/ row[at].start <= p \/ row[at].start > Len(log)
         /\ scanned' = j /\ phase = "scan" /\ phase' = "scan"
         /\ UNCHANGED <<log, index, alias, at, pos, rpos, clock, alloc, since, rewound>>
         /\ \A s \in Streams :
              /\ row'[s].gtid = row[s].gtid /\ row'[s].done = row[s].done
              /\ row'[s].start = row[s].start /\ row'[s].base = row[s].base
              /\ row'[s].cursor = row[s].cursor \/ (s = at /\ row'[s].cursor = j)
              /\ s # at => row'[s] = row[s]
  <1>1. at \in Streams /\ at \in Scanned /\ row[at].start # None
    BY AtIsAStream DEF ScanRow, ScanPhases, Types, InScan
  <1>2. row[at].base \in Nat \ {0} /\ row[at].start \in Nat
    BY <1>1, RowFields DEF Types, ScanInv
  <1>3. j \in Keys
    BY LifecycleAssumption DEF LifecycleAssumption, ScanRow, KeysLeft, Keys, Types, ProcTypes
  <1>4. p \in Nat /\ p <= Len(log)
    BY LenProperties DEF Types, SourceTypes
  <1>5. Content(at, j, p) \in Nat
    BY <1>4, ContentType
  <1>6. /\ IF Content(at, j, p) = 0 THEN UNCHANGED dest ELSE Put(at, j, row[at].base, Content(at, j, p))
        /\ scanned' = j /\ phase = "scan"
        /\ UNCHANGED <<sourceVars, index, alias, refresh, phase, at, loading, pos, rpos, versionVars,
                       countVars, since, rewound>>
        /\ IF server = "replica" /\ replica < row[at].start THEN Troubled("lag") ELSE UNCHANGED trouble
        /\ row' = [row EXCEPT ![at].cursor = j] \/ UNCHANGED row
    BY Zenon DEF ScanRow
  <1>7. trouble' = trouble \/ trouble' = trouble \cup {"lag"}
    BY <1>6 DEF Troubled
  <1>8. "lag" \in trouble' \/ row[at].start <= p \/ row[at].start > Len(log)
    BY <1>2, <1>4, <1>6 DEF Troubled, Types, SourceTypes
  <1>9. \A s \in Streams :
              /\ row'[s].gtid = row[s].gtid /\ row'[s].done = row[s].done
              /\ row'[s].start = row[s].start /\ row'[s].base = row[s].base
              /\ row'[s].cursor = row[s].cursor \/ (s = at /\ row'[s].cursor = j)
              /\ s # at => row'[s] = row[s]
    BY <1>1, <1>6 DEF Types, RowTypes, Rows
  <1> QED
    BY <1>1, <1>2, <1>3, <1>4, <1>5, <1>6, <1>7, <1>8, <1>9 DEF sourceVars, versionVars

LEMMA VersionStep ==
  ASSUME OnlyFirstScanned, Types, ScanInv, VersionInv, [Next]_vars
  PROVE  VersionInv'
  <1>0. Version(1) \in Nat \ {0}
    BY FirstIsAStream, VersionType DEF Types
  <1>1. CASE UNCHANGED <<row, dest, alloc, clock>>
    BY <1>1 DEF VersionInv, Version
  <1>2. CASE Start
    <2>1. UNCHANGED <<row, dest, clock>> /\ alloc'[1] = [next |-> 1, end |-> 0]
      BY <1>2, FirstIsAStream DEF Start, indexVars
    <2>2. Version(1)' = clock + 1 /\ clock \in Nat /\ alloc[1] \in Blocks
      BY <2>1, FirstIsAStream DEF Version, Types, RowTypes
    <2>3. Version(1) <= Version(1)'
      BY <2>2 DEF Version, VersionInv, Blocks
    <2>4. alloc'[1].end = 0
      BY <2>1
    <2>5. \A s \in Streams, i \in Indices, k \in Keys : dest[s][i][k].ver \in Nat
      BY DEF Types, IndexTypes, Docs
    <2>6. \A s \in Streams : row[s].base \in Nat
      BY RowFields DEF Types
    <2>7. \A n \in Nat : n < Version(1) => n < Version(1)'
      BY <1>0, <2>2, <2>3
    <2> QED
      BY <2>1, <2>2, <2>4, <2>5, <2>6, <2>7 DEF VersionInv
  <1>3. CASE MarkScanStarted
    <2>1. at = 1 /\ TakeVersion(1) /\ dest' = dest
      BY <1>3 DEF MarkScanStarted, OnlyFirstScanned, indexVars
    <2>2. alloc'[1].end <= clock' /\ Version(1) < Version(1)'
      BY <2>1, VersionRises DEF Types, VersionInv
    <2>3. \A s \in Streams : row'[s].base \in Nat /\ (row'[s].base = row[s].base \/ row'[s].base = Version(1))
      BY <1>0, <1>3, <2>1 DEF MarkScanStarted, Types, RowTypes, Rows
    <2>4. Version(1)' \in Nat
      BY TypesStep, FirstIsAStream, VersionType DEF Types, Version, RowTypes, Blocks
    <2>5. \A n \in Nat : n < Version(1) \/ n = Version(1) => n < Version(1)'
      BY <1>0, <2>2, <2>4
    <2>6. \A s \in Streams, i \in Indices, k \in Keys : dest[s][i][k].ver \in Nat
      BY DEF Types, IndexTypes, Docs
    <2> QED
      BY <2>1, <2>2, <2>3, <2>5, <2>6 DEF VersionInv
  <1>4. CASE ScanRow
    <2> DEFINE j == scanned + 1
               p == IF server = "replica" THEN replica ELSE Len(log)
    <2>0. j = scanned + 1 /\ p = IF server = "replica" THEN replica ELSE Len(log)
      OBVIOUS
    <2> HIDE DEF j, p
    <2>1. /\ at \in Streams /\ j \in Keys /\ row[at].base \in Nat /\ Content(at, j, p) \in Nat
          /\ IF Content(at, j, p) = 0 THEN UNCHANGED dest
                                      ELSE Put(at, j, row[at].base, Content(at, j, p))
          /\ UNCHANGED <<clock, alloc>> /\ \A s \in Streams : row'[s].base = row[s].base
      BY <1>4, <2>0, ScanIs
    <2>2. \A t \in Streams, i \in Indices, k \in Keys :
            dest'[t][i][k].ver = dest[t][i][k].ver \/ dest'[t][i][k].ver = row[at].base
      BY <2>1, PutVersions DEF Types
    <2> QED
      BY <2>1, <2>2 DEF VersionInv, Version
  <1>5. CASE ReadChange
    <2> DEFINE c == log[rpos + 1]
               val == IF c.op = "delete" THEN 0 ELSE rpos + 1
    <2>1. c.stream \in Streams /\ c.key \in Keys /\ val \in Nat
      BY <1>5, ReadIs DEF Types, ProcTypes
    <2>2. Put(c.stream, c.key, Version(1), val) /\ TakeVersion(1)
      BY <1>5 DEF ReadChange
    <2>3. \A s \in Streams : row'[s].base = row[s].base
      BY <1>5, ReadIs
    <2> HIDE DEF c, val
    <2>4. \A t \in Streams, i \in Indices, k \in Keys :
            dest'[t][i][k].ver = dest[t][i][k].ver \/ dest'[t][i][k].ver = Version(1)
      BY <1>0, <2>1, <2>2, PutVersions DEF Types
    <2>5. alloc'[1].end <= clock' /\ Version(1) < Version(1)'
      BY <2>2, VersionRises DEF Types, VersionInv
    <2>6. Version(1)' \in Nat
      BY TypesStep, FirstIsAStream, VersionType DEF Types, Version, RowTypes, Blocks
    <2>7. \A n \in Nat : n < Version(1) \/ n = Version(1) => n < Version(1)'
      BY <1>0, <2>5, <2>6
    <2>8. \A s \in Streams, i \in Indices, k \in Keys : dest[s][i][k].ver \in Nat
      BY DEF Types, IndexTypes, Docs
    <2>9. \A s \in Streams : row[s].base \in Nat
      BY RowFields DEF Types
    <2> QED
      BY <1>0, <2>3, <2>4, <2>5, <2>7, <2>8, <2>9 DEF VersionInv
  <1>6. CASE Rebuild
    <2>1. PICK t \in Streams : row' = [row EXCEPT ![t] = [NewRow EXCEPT !.gtid = row[t].gtid]]
      BY <1>6 DEF Rebuild
    <2>2. [NewRow EXCEPT !.gtid = row[t].gtid].base = 0
      BY DEF NewRow
    <2>3. row'[t].base = 0 /\ \A s \in Streams : s # t => row'[s] = row[s]
      BY <2>1, <2>2 DEF Types, RowTypes
    <2>4. UNCHANGED <<dest, alloc, clock>>
      BY <1>6 DEF Rebuild, versionVars
    <2> QED
      BY <1>0, <2>3, <2>4 DEF VersionInv, Version
  <1>7. CASE StartWithoutSnapshot
    <2>1. UNCHANGED <<dest, alloc, clock>> /\ \A s \in Streams : row'[s].base = row[s].base
      BY <1>7, StartIs DEF StartWithoutSnapshot, indexVars, versionVars
    <2> QED
      BY <2>1 DEF VersionInv, Version
  <1>8. CASE FinishScan
    <2>1. UNCHANGED <<dest, alloc, clock>> /\ at \in Streams
      BY <1>8, AtIsAStream DEF FinishScan, ScanPhases, indexVars, versionVars
    <2>2. \A s \in Streams : row'[s].base = row[s].base
      BY <1>8, <2>1 DEF FinishScan, Types, RowTypes, Rows
    <2> QED
      BY <2>1, <2>2 DEF VersionInv, Version
  <1>9. CASE UseRecorded \/ ResumeScan \/ BeginBulkLoad \/ EndScan \/ Promote \/ StartReader
    BY <1>1, <1>9 DEF UseRecorded, ResumeScan, BeginBulkLoad, EndScan, Promote, StartReader, indexVars,
       versionVars
  <1>10. CASE Crash \/ StopScan \/ PromoteFails \/ Change \/ ReplicaCatchesUp \/ Idle \/ UNCHANGED vars
    BY <1>1, <1>10 DEF Crash, StopScan, PromoteFails, Stopped, Change, ReplicaCatchesUp, Idle, vars,
       indexVars, versionVars
  <1> QED
    BY <1>2, <1>3, <1>4, <1>5, <1>6, <1>7, <1>8, <1>9, <1>10 DEF Next, Progress

PosInv == RowPositions /\ RunPositions

LEMMA PosTypes ==
  ASSUME Types
  PROVE  /\ Len(log) \in Nat /\ rpos \in Nat /\ at \in Nat /\ N \in Nat \ {0}
         /\ \A s \in Streams : /\ row[s].gtid \in Nat \cup {-1} /\ row[s].start \in Nat \cup {-1}
                               /\ row[s].done \in BOOLEAN /\ pos[s] \in Nat
                               /\ Recorded(s) \in Nat \cup {-1} /\ s \in Nat /\ s <= N /\ s >= 1
  <1>1. Len(log) \in Nat /\ rpos \in Nat /\ at \in Nat /\ N \in Nat \ {0}
    BY LenProperties, LifecycleAssumption DEF LifecycleAssumption, Types, SourceTypes, ProcTypes
  <1>2. ASSUME NEW s \in Streams
        PROVE  /\ row[s].gtid \in Nat \cup {-1} /\ row[s].start \in Nat \cup {-1}
               /\ row[s].done \in BOOLEAN
    BY <1>2, RowFields DEF Types, None
  <1>3. ASSUME NEW s \in Streams PROVE pos[s] \in Nat /\ s \in Nat /\ s <= N /\ s >= 1
    BY <1>1, <1>3 DEF Types, ProcTypes, Streams
  <1>4. ASSUME NEW s \in Streams PROVE Recorded(s) \in Nat \cup {-1}
    BY <1>2, <1>4 DEF Recorded
  <1> QED
    BY <1>1, <1>2, <1>3, <1>4

\* A step that leaves the positions in the rows alone.
LEMMA RowPositionsKept ==
  ASSUME Types, [Next]_vars, RowPositions, UNCHANGED <<row, since>>,
         \A s \in Streams : pos'[s] <= Len(log')
  PROVE  RowPositions'
  <1>1. /\ Len(log) \in Nat /\ Len(log') \in Nat /\ Len(log) <= Len(log')
    BY LogGrows
  <1>2. \A s \in Streams : /\ row[s].gtid \in Nat \cup {-1} /\ row[s].start \in Nat \cup {-1}
                           /\ row[s].gtid <= Len(log) /\ row[s].start <= Len(log)
    BY PosTypes DEF RowPositions
  <1>3. \A s \in Streams : row[s].gtid <= Len(log') /\ row[s].start <= Len(log')
    BY <1>1, <1>2
  <1> QED
    BY <1>3 DEF RowPositions

LEMMA ScannedPhase ==
  ASSUME OnlyFirstScanned, Types, phase \in ScanPhases
  PROVE  at = 1 /\ 1 \in Scanned /\ row[1].start # None
  BY DEF OnlyFirstScanned, Types, InScan

LEMMA PosStep ==
  ASSUME OnlyFirstScanned, Types, ScanInv, PosInv, [Next]_vars
  PROVE  PosInv'
  <1> USE DEF None
  <1>0. /\ Len(log) \in Nat /\ rpos \in Nat /\ at \in Nat /\ N \in Nat \ {0}
        /\ \A s \in Streams : /\ row[s].gtid \in Nat \cup {-1} /\ row[s].start \in Nat \cup {-1}
                              /\ row[s].done \in BOOLEAN /\ pos[s] \in Nat
                              /\ Recorded(s) \in Nat \cup {-1} /\ s \in Nat /\ s <= N /\ s >= 1
    BY PosTypes
  <1>1. CASE Start
    <2>1. UNCHANGED <<row, since, pos, log, rpos>> /\ phase' = "load" /\ at' = 1
      BY <1>1 DEF Start, sourceVars, histVars
    <2>2. RowPositions'
      BY <2>1 DEF PosInv, RowPositions
    <2>3. RunPositions'
      BY <1>0, <2>1 DEF PosInv, RunPositions
    <2> QED
      BY <2>2, <2>3 DEF PosInv
  <1>2. CASE UseRecorded
    <2>1. /\ UNCHANGED <<row, since, log, rpos>> /\ phase' = "load" /\ phase = "load"
          /\ at' = at + 1 /\ pos' = [pos EXCEPT ![at] = row[at].gtid]
          /\ row[at].done /\ row[at].gtid # None /\ at \in Streams
      BY <1>2, AtIsAStream DEF UseRecorded, Loading, sourceVars, histVars
    <2>2. pos'[at] = row[at].gtid /\ \A s \in Streams : s # at => pos'[s] = pos[s]
      BY <2>1 DEF Types, ProcTypes
    <2>3. RowPositions'
      BY <2>1, <2>2 DEF PosInv, RowPositions
    <2>4. Recorded(at) = row[at].gtid /\ Settled(at)
      BY <2>1 DEF Recorded, Settled
    <2>5. \A s \in Streams : (Recorded(s)' = Recorded(s)) /\ (Settled(s)' <=> Settled(s))
      BY <2>1 DEF Recorded, Settled
    <2>6. \A s \in Streams : s < at + 1 => Settled(s) /\ Recorded(s) <= pos'[s]
      BY <1>0, <2>1, <2>2, <2>4 DEF PosInv, RunPositions
    <2>7. RunPositions'
      BY <2>1, <2>5, <2>6 DEF PosInv, RunPositions
    <2> QED
      BY <2>3, <2>7 DEF PosInv
  <1>3. CASE StartWithoutSnapshot
    <2>1. /\ UNCHANGED <<log, rpos>> /\ phase' = "load" /\ phase = "load"
          /\ at' = at + 1 /\ at \in Streams /\ at \notin Scanned
      BY <1>3, StartIs DEF StartWithoutSnapshot, Loading, sourceVars
    <2>2. \A s \in Streams : s # at => row'[s] = row[s] /\ since'[s] = since[s] /\ pos'[s] = pos[s]
      BY <1>3, StartIs DEF Types, ProcTypes
    <2>3. /\ row'[at].start = row[at].start /\ row'[at].gtid # None
          /\ row'[at].gtid <= Len(log) /\ pos'[at] = row'[at].gtid
          /\ since'[at] # None
      <3>1. row'[at].start = row[at].start
        BY <1>3, <2>1, StartIs
      <3>2. CASE row[at].gtid # None
        BY <1>3, <2>1, <3>1, <3>2, StartIs DEF PosInv, RowPositions, Types, ProcTypes
      <3>3. CASE row[at].gtid = None
        BY <1>0, <1>3, <2>1, <3>1, <3>3, StartIs DEF Types, ProcTypes
      <3> QED
        BY <3>2, <3>3
    <2>4. RowPositions'
      BY <2>1, <2>2, <2>3 DEF PosInv, RowPositions
    <2>5. \A s \in Streams : s # at => (Recorded(s)' = Recorded(s)) /\ (Settled(s)' <=> Settled(s))
      BY <2>2 DEF Recorded, Settled
    <2>6. \A s \in Streams : s = at => Recorded(s)' = pos'[s] /\ Settled(s)'
      BY <2>1, <2>3 DEF Recorded, Settled
    <2>7. \A s \in Streams : pos'[s] <= pos'[s]
      <3>1. pos' \in [Streams -> Nat]
        BY TypesStep DEF Types, ProcTypes
      <3> QED
        BY <3>1
    <2>8. \A s \in Streams : s < at + 1 => Settled(s)' /\ Recorded(s)' <= pos'[s]
      BY <1>0, <2>1, <2>2, <2>5, <2>6, <2>7 DEF PosInv, RunPositions
    <2>9. RunPositions'
      BY <2>1, <2>8 DEF PosInv, RunPositions
    <2> QED
      BY <2>4, <2>9 DEF PosInv
  <1>4. CASE MarkScanStarted
    <2> DEFINE n == Len(log)
    <2>1. /\ UNCHANGED <<log, rpos, pos, since, at>> /\ phase' = "begin" /\ at \in Streams /\ at \in Scanned
          /\ ~(row[at].done /\ row[at].gtid # None)
          /\ row' = [row EXCEPT ![at].start = n, ![at].base = Version(at)]
      BY <1>4, AtIsAStream DEF MarkScanStarted, sourceVars, histVars
    <2> HIDE DEF n
    <2>2. /\ \A s \in Streams : s # at => row'[s] = row[s]
          /\ row'[at].start = n /\ row'[at].gtid = row[at].gtid /\ row'[at].done = row[at].done
      BY <2>1 DEF Types, RowTypes, Rows
    <2>3. ASSUME NEW s \in Streams
          PROVE  /\ row'[s].gtid <= n /\ row'[s].start <= n /\ pos'[s] <= n
                 /\ s \in Scanned /\ row'[s].start = None => ~row'[s].done
                 /\ s \notin Scanned => /\ since'[s] # None /\ row'[s].start = None
                                        /\ row'[s].gtid = None => row'[s] = NewRow
                 /\ row'[s].start # None /\ ~row'[s].done => row'[s].gtid <= row'[s].start
      <3>1. CASE s = at
        BY <1>0, <2>1, <2>2, <3>1 DEF PosInv, RowPositions, n
      <3>2. CASE s # at
        BY <2>1, <2>2, <3>2 DEF PosInv, RowPositions, n
      <3> QED
        BY <3>1, <3>2
    <2>4. RunPositions'
      BY <2>1, <2>2 DEF PosInv, RunPositions
    <2>5. RowPositions'
      BY <2>1, <2>3 DEF RowPositions, n
    <2> QED
      BY <2>4, <2>5 DEF PosInv
  <1>5. CASE ResumeScan
    <2>1. /\ UNCHANGED <<log, rpos, pos, since, at, row>> /\ phase' = "begin"
          /\ ~(row[at].done /\ row[at].gtid # None)
      BY <1>5 DEF ResumeScan, sourceVars, histVars
    <2> QED
      BY <2>1 DEF PosInv, RowPositions, RunPositions
  <1>6. CASE BeginBulkLoad \/ EndScan
    <2>1. /\ UNCHANGED <<log, rpos, pos, since, at, row>>
          /\ phase \in {"begin", "scan"} /\ phase' \in {"scan", "finish"}
      BY <1>6 DEF BeginBulkLoad, EndScan, sourceVars
    <2> QED
      BY <2>1 DEF PosInv, RowPositions, RunPositions
  <1>7. CASE ScanRow
    <2> DEFINE j == scanned + 1
               p == IF server = "replica" THEN replica ELSE Len(log)
    <2>0. j = scanned + 1 /\ p = IF server = "replica" THEN replica ELSE Len(log)
      OBVIOUS
    <2> HIDE DEF j, p
    <2>1. /\ phase = "scan" /\ phase' = "scan" /\ at \in Streams /\ at \in Scanned
          /\ UNCHANGED <<log, at, pos, rpos, since>>
          /\ \A s \in Streams :
               /\ row'[s].gtid = row[s].gtid /\ row'[s].done = row[s].done
               /\ row'[s].start = row[s].start
               /\ s # at => row'[s] = row[s]
      BY <1>7, <2>0, ScanIs
    <2>2. RowPositions'
      BY <2>1 DEF PosInv, RowPositions
    <2>3. RunPositions'
      BY <2>1 DEF PosInv, RunPositions
    <2> QED
      BY <2>2, <2>3 DEF PosInv
  <1>8. CASE FinishScan
    <2>1. /\ UNCHANGED <<log, rpos, pos, since, at>> /\ phase = "finish" /\ phase' = "promote"
          /\ at \in Streams /\ at \in Scanned /\ row[at].start # None
      BY <1>8, AtIsAStream DEF FinishScan, sourceVars, histVars, ScanPhases, Types, InScan
    <2>2. /\ \A s \in Streams : s # at => row'[s] = row[s]
          /\ row'[at].start = row[at].start /\ row'[at].gtid = row[at].gtid /\ row'[at].done
      BY <1>8, <2>1 DEF FinishScan, Types, RowTypes, Rows
    <2>3. RowPositions'
      BY <2>1, <2>2 DEF PosInv, RowPositions
    <2>4. row[at].gtid <= row[at].start
      BY <1>0, <2>1 DEF PosInv, RowPositions, RunPositions
    <2>5. RunPositions'
      BY <2>1, <2>2, <2>4 DEF PosInv, RunPositions
    <2> QED
      BY <2>3, <2>5 DEF PosInv
  <1>9. CASE Promote
    <2>1. /\ UNCHANGED <<log, rpos, since, row>> /\ phase = "promote" /\ phase' = "load"
          /\ at' = at + 1 /\ at = 1 /\ 1 \in Scanned /\ pos' = [pos EXCEPT ![at] = row[at].start]
          /\ row[1].start # None /\ row[1].done
      BY <1>9, ScannedPhase DEF Promote, ScanPhases, sourceVars, histVars, ScanInv
    <2>2. pos'[1] = row[1].start /\ \A s \in Streams : s # 1 => pos'[s] = pos[s]
      BY <2>1, FirstIsAStream DEF Types, ProcTypes
    <2>3. RowPositions'
      BY <2>1, <2>2 DEF PosInv, RowPositions
    <2>4. Settled(1)' /\ Recorded(1)' <= pos'[1]
      BY <1>0, <2>1, <2>2, FirstIsAStream DEF PosInv, RunPositions, Settled, Recorded
    <2>5. \A s \in Streams : s < at' => s = 1
      BY <1>0, <2>1
    <2>6. RunPositions'
      BY <2>1, <2>4, <2>5 DEF PosInv, RunPositions
    <2> QED
      BY <2>3, <2>6 DEF PosInv
  <1>10. CASE StartReader
    <2>1. /\ UNCHANGED <<log, pos, since, row>> /\ phase = "load" /\ phase' = "stream"
          /\ at > N /\ rpos' = SharedStartPosition
      BY <1>10 DEF StartReader, sourceVars, histVars
    <2>2. RowPositions'
      BY <2>1 DEF PosInv, RowPositions
    <2>3. PICK s \in Streams : rpos' = pos[s]
      BY <2>1, SharedStart DEF Types
    <2>4. \A t \in Streams : Settled(t) /\ Recorded(t) <= pos[t]
      BY <1>0, <2>1 DEF PosInv, RunPositions
    <2>5. \A t \in Streams : Recorded(t)' = Recorded(t) /\ (Settled(t)' <=> Settled(t))
      BY <2>1 DEF Recorded, Settled
    <2>6. rpos' <= Len(log)
      BY <2>3 DEF PosInv, RowPositions
    <2>7. RunPositions'
      BY <2>1, <2>3, <2>4, <2>5, <2>6 DEF RunPositions
    <2> QED
      BY <2>2, <2>7 DEF PosInv
  <1>11. CASE ReadChange
    <2>1. /\ UNCHANGED <<log, pos, since>> /\ phase = "stream" /\ phase' = "stream"
          /\ rpos' = rpos + 1 /\ rpos < Len(log)
      BY <1>11 DEF ReadChange, sourceVars
    <2>2. \A s \in Streams :
            /\ row'[s].start = row[s].start /\ row'[s].done = row[s].done
            /\ row'[s].gtid = row[s].gtid \/ row'[s].gtid = rpos
      BY <1>11, ReadIs
    <2>3. \A s \in Streams : Settled(s)
      BY <2>1 DEF PosInv, RunPositions
    <2>4. \A s \in Streams : row'[s].gtid <= Len(log) /\ row'[s].start <= Len(log)
      BY <1>0, <2>1, <2>2 DEF PosInv, RowPositions
    <2>5. \A s \in Streams : s \notin Scanned => row'[s].gtid # None
      BY <1>0, <2>2, <2>3 DEF Settled
    <2>6. RowPositions'
      BY <2>1, <2>2, <2>3, <2>4, <2>5 DEF PosInv, RowPositions, Settled
    <2>7. \A s \in Streams : Settled(s)'
      BY <1>0, <2>2, <2>3 DEF Settled
    <2>8. PICK s \in Streams : Recorded(s) <= rpos
      BY <2>1 DEF PosInv, RunPositions
    <2>9. Recorded(s)' <= rpos + 1
      <3>1. CASE row'[s].gtid = row[s].gtid
        <4>1. Recorded(s)' = Recorded(s)
          BY <2>2, <3>1 DEF Recorded
        <4> QED
          BY <1>0, <2>8, <4>1
      <3>2. CASE row'[s].gtid = rpos
        <4>1. Recorded(s)' = rpos
          BY <1>0, <2>2, <2>3, <3>2 DEF Recorded, Settled
        <4> QED
          BY <1>0, <4>1
      <3> QED
        BY <2>2, <3>1, <3>2
    <2>10. RunPositions'
      BY <1>0, <2>1, <2>7, <2>9 DEF RunPositions
    <2> QED
      BY <2>6, <2>10 DEF PosInv
  <1>12. CASE Crash \/ StopScan \/ PromoteFails
    <2>1. /\ UNCHANGED <<log, since, row>> /\ phase' = "down" /\ rpos' = 0
          /\ pos' = [s \in Streams |-> 0]
      BY <1>12 DEF Crash, StopScan, PromoteFails, Stopped, sourceVars, histVars
    <2>2. RowPositions'
      BY <1>0, <2>1 DEF PosInv, RowPositions
    <2>3. RunPositions'
      BY <1>0, <2>1 DEF RunPositions
    <2> QED
      BY <2>2, <2>3 DEF PosInv
  <1>13. CASE Rebuild
    <2>1. PICK t \in Streams : /\ row' = [row EXCEPT ![t] = [NewRow EXCEPT !.gtid = row[t].gtid]]
                               /\ since' = [since EXCEPT ![t] = row[t].gtid]
                               /\ row[t] # NewRow
      BY <1>13 DEF Rebuild
    <2>2. UNCHANGED <<log, rpos, pos>> /\ phase' = "down"
      BY <1>13 DEF Rebuild, procVars, sourceVars
    <2> DEFINE r == [NewRow EXCEPT !.gtid = row[t].gtid]
    <2>3. r.gtid = row[t].gtid /\ r.start = None /\ r.done = FALSE
      BY NewRowType DEF Rows
    <2> HIDE DEF r
    <2>4. row'[t] = r /\ \A s \in Streams : s # t => row'[s] = row[s] /\ since'[s] = since[s]
      BY <2>1 DEF Types, RowTypes, r
    <2>5. t \notin Scanned => since'[t] # None /\ row'[t].gtid # None
      BY <2>1, <2>3, <2>4 DEF PosInv, RowPositions, Types, RowTypes
    <2>6. RowPositions'
      BY <1>0, <2>2, <2>3, <2>4, <2>5 DEF PosInv, RowPositions
    <2>7. RunPositions'
      BY <2>2 DEF PosInv, RunPositions
    <2> QED
      BY <2>6, <2>7 DEF PosInv
  <1>14. CASE Change \/ ReplicaCatchesUp \/ Idle \/ UNCHANGED vars
    <2>1. UNCHANGED <<row, since, pos, rpos, phase, at>>
      BY <1>14 DEF Change, ReplicaCatchesUp, Idle, vars, procVars, histVars
    <2>2. Len(log') \in Nat /\ Len(log) <= Len(log')
      BY LogGrows
    <2>3. rpos <= Len(log) /\ \A s \in Streams : pos[s] <= Len(log)
      BY DEF PosInv, RowPositions, RunPositions
    <2>4. rpos <= Len(log') /\ \A s \in Streams : pos[s] <= Len(log')
      BY <1>0, <2>2, <2>3
    <2>5. RowPositions'
      BY <2>1, <2>4, RowPositionsKept DEF PosInv
    <2>6. \A t \in Streams : Recorded(t)' = Recorded(t) /\ (Settled(t)' <=> Settled(t))
      BY <2>1 DEF Recorded, Settled
    <2>7. RunPositions'
      BY <2>1, <2>4, <2>6 DEF PosInv, RunPositions
    <2> QED
      BY <2>5, <2>7 DEF PosInv
  <1> QED
    BY <1>1, <1>2, <1>3, <1>4, <1>5, <1>6, <1>7, <1>8, <1>9, <1>10, <1>11, <1>12, <1>13, <1>14
       DEF Next, Progress

\* A write to an index whose stream has begun.
LEMMA EmptyPut ==
  ASSUME Types, EmptyInv, NEW t \in Streams, NEW j \in Keys, NEW ver \in Nat \ {0}, NEW val \in Nat,
         Put(t, j, ver, val), index' = index,
         \A s \in Streams : s \in Scanned /\ row'[s].start = None => row[s].start = None /\ s # t
  PROVE  EmptyInv'
  <1>1. /\ dest'[t][index[t]][j] = IF ver > dest[t][index[t]][j].ver
                                      THEN [ver |-> ver, val |-> val]
                                      ELSE dest[t][index[t]][j]
        /\ \A a \in Streams, i \in Indices, b \in Keys :
              <<a, i, b>> # <<t, index[t], j>> => dest'[a][i][b] = dest[a][i][b]
    BY PutType DEF Types
  <1>2. index \in [Streams -> Indices] /\ \A i \in Indices : i \in Nat
    BY DEF Types, IndexTypes, Indices
  <1>3. dest'[t][index[t]][j].ver = 0 => dest'[t][index[t]][j].val = 0
    BY <1>1, <1>2 DEF EmptyInv
  <1>4. ASSUME NEW s \in Streams, NEW k \in Keys, NEW i \in Indices
        PROVE  /\ dest'[s][i][k].ver = 0 => dest'[s][i][k].val = 0
               /\ i > index[s] => dest'[s][i][k].ver = 0
    <2>1. CASE <<s, i, k>> = <<t, index[t], j>>
      BY <1>2, <1>3, <1>4, <2>1
    <2>2. CASE <<s, i, k>> # <<t, index[t], j>>
      BY <1>1, <1>4, <2>2 DEF EmptyInv
    <2> QED
      BY <2>1, <2>2
  <1>5. ASSUME NEW s \in Streams, NEW k \in Keys, s \in Scanned, row'[s].start = None
        PROVE  dest'[s][index[s]][k].ver = 0
    <2>1. row[s].start = None /\ s # t
      BY <1>5
    <2>2. dest'[s][index[s]][k] = dest[s][index[s]][k]
      BY <1>1, <1>2, <2>1
    <2> QED
      BY <1>5, <2>1, <2>2 DEF EmptyInv
  <1> QED
    BY <1>4, <1>5 DEF EmptyInv

LEMMA EmptyStep ==
  ASSUME OnlyFirstScanned, Types, ScanInv, PosInv, EmptyInv, [Next]_vars
  PROVE  EmptyInv'
  <1>1. CASE UNCHANGED <<dest, index, row>>
    BY <1>1 DEF EmptyInv
  <1>2. CASE StartWithoutSnapshot
    <2>1. UNCHANGED <<dest, index>> /\ \A s \in Streams : row'[s].start = row[s].start
      BY <1>2, StartIs DEF StartWithoutSnapshot, indexVars
    <2> QED
      BY <2>1 DEF EmptyInv
  <1>3. CASE MarkScanStarted
    <2>1. UNCHANGED <<dest, index>> /\ at \in Streams
      BY <1>3, AtIsAStream DEF MarkScanStarted, indexVars
    <2>2. row'[at].start = Len(log) /\ \A s \in Streams : s # at => row'[s] = row[s]
      BY <1>3, <2>1 DEF MarkScanStarted, Types, RowTypes, Rows
    <2>3. row'[at].start # None
      BY <2>2, PosTypes DEF None
    <2> QED
      BY <2>1, <2>2, <2>3 DEF EmptyInv
  <1>4. CASE FinishScan
    <2>1. UNCHANGED <<dest, index>> /\ at \in Streams
      BY <1>4, AtIsAStream DEF FinishScan, ScanPhases, indexVars
    <2>2. \A s \in Streams : row'[s].start = row[s].start
      BY <1>4, <2>1 DEF FinishScan, Types, RowTypes, Rows
    <2> QED
      BY <2>1, <2>2 DEF EmptyInv
  <1>5. CASE ScanRow
    <2> DEFINE j == scanned + 1
               p == IF server = "replica" THEN replica ELSE Len(log)
    <2>0. j = scanned + 1 /\ p = IF server = "replica" THEN replica ELSE Len(log)
      OBVIOUS
    <2> HIDE DEF j, p
    <2>1. /\ at \in Streams /\ j \in Keys /\ row[at].start \in Nat /\ row[at].base \in Nat \ {0}
          /\ Content(at, j, p) \in Nat /\ index' = index
          /\ IF Content(at, j, p) = 0 THEN UNCHANGED dest
                                      ELSE Put(at, j, row[at].base, Content(at, j, p))
          /\ \A s \in Streams : row'[s].start = row[s].start
      BY <1>5, <2>0, ScanIs
    <2>2. CASE Content(at, j, p) = 0
      BY <2>1, <2>2 DEF EmptyInv
    <2>3. CASE Content(at, j, p) # 0
      <3>1. \A s \in Streams : s \in Scanned /\ row'[s].start = None => row[s].start = None /\ s # at
        BY <2>1 DEF None
      <3> QED
        BY <2>1, <2>3, <3>1, EmptyPut
    <2> QED
      BY <2>2, <2>3
  <1>6. CASE ReadChange
    <2> DEFINE c == log[rpos + 1]
               val == IF c.op = "delete" THEN 0 ELSE rpos + 1
    <2>1. c.stream \in Streams /\ c.key \in Keys /\ val \in Nat
      BY <1>6, ReadIs DEF Types, ProcTypes
    <2>2. Put(c.stream, c.key, Version(1), val) /\ index' = index /\ phase = "stream"
      BY <1>6 DEF ReadChange
    <2>3. \A s \in Streams : row'[s].start = row[s].start
      BY <1>6, ReadIs
    <2>4. \A s \in Streams : s \in Scanned => row[s].start # None
      BY <2>2 DEF PosInv, RowPositions, RunPositions, Settled
    <2>5. Version(1) \in Nat \ {0}
      BY FirstIsAStream, VersionType DEF Types
    <2> HIDE DEF c, val
    <2> QED
      BY <2>1, <2>2, <2>3, <2>4, <2>5, EmptyPut
  <1>7. CASE Rebuild
    <2>1. PICK t \in Streams : /\ row' = [row EXCEPT ![t] = [NewRow EXCEPT !.gtid = row[t].gtid]]
                               /\ index' = [index EXCEPT ![t] = @ + 1]
      BY <1>7 DEF Rebuild
    <2>2. dest' = dest /\ index' \in [Streams -> Indices] /\ index \in [Streams -> Indices]
      BY <1>7, TypesStep DEF Rebuild, Types, IndexTypes
    <2>3. \A s \in Streams : index[s] \in Nat /\ (s # t => index'[s] = index[s] /\ row'[s] = row[s])
      BY <2>1, <2>2 DEF Types, RowTypes, Indices
    <2>4. index'[t] = index[t] + 1 /\ index'[t] \in Indices
      BY <2>1, <2>2
    <2>5. index'[t] > index[t]
      BY <2>3, <2>4
    <2>6. ASSUME NEW s \in Streams, NEW k \in Keys, NEW i \in Indices, i > index'[s]
          PROVE  dest[s][i][k].ver = 0
      <3>1. i > index[s]
        BY <2>3, <2>4, <2>6 DEF Indices
      <3> QED
        BY <3>1 DEF EmptyInv
    <2>7. \A k \in Keys : dest[t][index'[t]][k].ver = 0
      BY <2>4, <2>5 DEF EmptyInv
    <2> QED
      BY <2>2, <2>3, <2>6, <2>7 DEF EmptyInv
  <1>8. CASE Start \/ UseRecorded \/ ResumeScan \/ BeginBulkLoad \/ EndScan \/ Promote \/ StartReader
    BY <1>1, <1>8 DEF Start, UseRecorded, ResumeScan, BeginBulkLoad, EndScan, Promote, StartReader, indexVars
  <1>9. CASE Crash \/ StopScan \/ PromoteFails \/ Change \/ ReplicaCatchesUp \/ Idle \/ UNCHANGED vars
    BY <1>1, <1>9 DEF Crash, StopScan, PromoteFails, Stopped, Change, ReplicaCatchesUp, Idle, vars, indexVars
  <1> QED
    BY <1>2, <1>3, <1>4, <1>5, <1>6, <1>7, <1>8, <1>9 DEF Next, Progress

\* What may have gone wrong is not forgotten.
LEMMA TroubleStays == ASSUME [Next]_vars, Untroubled' PROVE Untroubled
  <1>1. CASE Start \/ UseRecorded \/ StartWithoutSnapshot \/ MarkScanStarted \/ ResumeScan \/ FinishScan
    BY <1>1 DEF Start, UseRecorded, StartWithoutSnapshot, MarkScanStarted, ResumeScan, FinishScan,
       histVars, Untroubled
  <1>2. CASE BeginBulkLoad \/ EndScan \/ ScanRow
    BY <1>2 DEF BeginBulkLoad, EndScan, Restore, ScanRow, Troubled, Untroubled
  <1>3. CASE Promote \/ StartReader \/ ReadChange \/ Crash \/ StopScan \/ PromoteFails \/ Rebuild
    BY <1>3 DEF Promote, StartReader, ReadChange, Crash, StopScan, PromoteFails, Stopped, Rebuild,
       histVars, Untroubled
  <1>4. CASE Change \/ ReplicaCatchesUp \/ Idle \/ UNCHANGED vars
    BY <1>4 DEF Change, ReplicaCatchesUp, Idle, vars, histVars, Untroubled
  <1> QED
    BY <1>1, <1>2, <1>3, <1>4 DEF Next, Progress

\* A row that is exact at a position is exact at an earlier one, and no step but
\* a write of the row changes that.
LEMMA ExactKept ==
  ASSUME Types, [Next]_vars, NEW s \in Streams, NEW k \in Keys,
         NEW p \in Nat, NEW q \in Nat, q <= p, p <= Len(log),
         s \notin Scanned => since[s] # None,
         dest'[s][index'[s]][k] = dest[s][index[s]][k], since'[s] = since[s],
         Exact(s, k, p)
  PROVE  Exact(s, k, q)'
  <1>1. /\ Len(log) \in Nat /\ Len(log') \in Nat /\ Len(log) <= Len(log')
        /\ \A i \in 1..Len(log) : log'[i] = log[i]
    BY LogGrows
  <1>2. s \notin Scanned => since[s] \in Nat
    BY DEF Types, RowTypes
  <1>3. SUFFICES ASSUME s \in Scanned \/ \E i \in (since[s] + 1)..q : Concerns(i, s, k)'
                 PROVE  \E r \in q..Len(log') : dest[s][index[s]][k].val = Content(s, k, r)'
    BY DEF Exact, Holds
  <1>4. s \in Scanned \/ \E i \in (since[s] + 1)..p : Concerns(i, s, k)
    <2>1. CASE s \notin Scanned
      <3>1. PICK i \in (since[s] + 1)..q : Concerns(i, s, k)'
        BY <1>3, <2>1
      <3>2. i \in 1..Len(log) /\ i \in (since[s] + 1)..p
        BY <1>1, <1>2, <2>1
      <3> QED
        BY <1>1, <3>1, <3>2 DEF Concerns
    <2> QED
      BY <2>1
  <1>5. PICK r \in p..Len(log) : dest[s][index[s]][k].val = Content(s, k, r)
    BY <1>4 DEF Exact, Holds
  <1>6. r \in Nat /\ r \in q..Len(log') /\ 1..r \subseteq 1..Len(log)
    BY <1>1
  <1>7. Content(s, k, r)' = Content(s, k, r)
    BY <1>1, <1>6, ContentKept
  <1> QED
    BY <1>5, <1>6, <1>7

\* Exact at a position, after a step, is exact at an earlier one.
LEMMA ExactBefore ==
  ASSUME NEW s \in Streams, NEW k \in Keys, NEW p \in Nat, NEW q \in Nat, q <= p,
         Len(log') \in Nat, s \notin Scanned => since'[s] \in Nat, Exact(s, k, p)'
  PROVE  Exact(s, k, q)'
  <1>1. SUFFICES ASSUME s \in Scanned \/ \E i \in (since'[s] + 1)..q : Concerns(i, s, k)'
                 PROVE  \E r \in q..Len(log') : dest'[s][index'[s]][k].val = Content(s, k, r)'
    BY DEF Exact, Holds
  <1>2. s \in Scanned \/ \E i \in (since'[s] + 1)..p : Concerns(i, s, k)'
    BY <1>1
  <1>3. PICK r \in p..Len(log') : dest'[s][index'[s]][k].val = Content(s, k, r)'
    BY <1>2 DEF Exact, Holds
  <1> QED
    BY <1>3

LEMMA FromTypes ==
  ASSUME Types, PosInv, NEW t \in Streams
  PROVE  /\ From(t) \in Nat \cup {-1} /\ From(t) <= Len(log)
         /\ Recorded(t) \in Nat \cup {-1} /\ Recorded(t) <= Len(log)
  <1>1. Recorded(t) \in Nat \cup {-1} /\ Recorded(t) <= Len(log)
    BY PosTypes DEF PosInv, RowPositions, Recorded
  <1>2. From(t) \in Nat \cup {-1} /\ From(t) <= Len(log)
    BY <1>1, PosTypes DEF PosInv, RowPositions, From
  <1> QED
    BY <1>1, <1>2

\* A step of backfill, or one that stops it, that leaves a row alone and takes
\* no stream further ahead.
LEMMA FromOneKept ==
  ASSUME Types, PosInv, CopyInv, Untroubled, [Next]_vars, NEW s \in Streams, NEW k \in Keys,
         phase # "stream", Touched(s, k)' => Touched(s, k),
         dest'[s][index'[s]][k] = dest[s][index[s]][k], since'[s] = since[s],
         \A t \in Streams : From(t) # None => From(t)' \in Nat /\ From(t)' <= From(t)
  PROVE  ExactFromOne(s, k)'
  <1> SUFFICES ASSUME Touched(s, k)'
               PROVE  \E t \in Streams : From(t)' # None /\ Exact(s, k, From(t))'
    BY DEF ExactFromOne
  <1>1. PICK t \in Streams : From(t) # None /\ Exact(s, k, From(t))
    BY DEF CopyInv, ExactFromOne
  <1>2. PICK p \in Nat : p = From(t) /\ p <= Len(log)
    BY <1>1, FromTypes DEF None
  <1>3. PICK q \in Nat : q = From(t)' /\ q <= p
    BY <1>1, <1>2
  <1>4. s \notin Scanned => since[s] # None
    BY DEF PosInv, RowPositions
  <1>5. Exact(s, k, p)
    BY <1>1, <1>2
  <1>6. Exact(s, k, q)'
    BY <1>2, <1>3, <1>4, <1>5, ExactKept
  <1>7. Exact(s, k, From(t))'
    BY <1>3, <1>6 DEF Exact, Holds
  <1> QED
    BY <1>3, <1>7 DEF None

\* The same for where its own stream goes on.
LEMMA FromOwnKept ==
  ASSUME Types, PosInv, CopyInv, Untroubled, [Next]_vars, NEW s \in Streams, NEW k \in Keys,
         Touched(s, k)' => Touched(s, k), s \notin rewound' => s \notin rewound,
         dest'[s][index'[s]][k] = dest[s][index[s]][k], since'[s] = since[s],
         Recorded(s) # None => Recorded(s)' \in Nat /\ Recorded(s)' <= Recorded(s)
  PROVE  ExactFromOwn(s, k)'
  <1> SUFFICES ASSUME Touched(s, k)', s \notin rewound'
               PROVE  Recorded(s)' # None /\ Exact(s, k, Recorded(s))'
    BY DEF ExactFromOwn
  <1>1. Recorded(s) # None /\ Exact(s, k, Recorded(s))
    BY DEF CopyInv, ExactFromOwn
  <1>2. PICK p \in Nat : p = Recorded(s) /\ p <= Len(log)
    BY <1>1, FromTypes DEF None
  <1>3. PICK q \in Nat : q = Recorded(s)' /\ q <= p
    BY <1>1, <1>2
  <1>4. s \notin Scanned => since[s] # None
    BY DEF PosInv, RowPositions
  <1>5. Exact(s, k, p)
    BY <1>1, <1>2
  <1>6. Exact(s, k, q)'
    BY <1>2, <1>3, <1>4, <1>5, ExactKept
  <1>7. Exact(s, k, Recorded(s))'
    BY <1>3, <1>6 DEF Exact, Holds
  <1> QED
    BY <1>3, <1>7 DEF None

\* A row of the scanned table is read and written.
LEMMA CopyScan ==
  ASSUME OnlyFirstScanned, Types, ScanInv, PosInv, EmptyInv, CopyInv, Untroubled', [Next]_vars, ScanRow,
         NEW s \in Streams, NEW k \in Keys
  PROVE  ExactFromOne(s, k)' /\ ExactAtReader(s, k)' /\ ExactFromOwn(s, k)'
  <1>0. PICK j \in Nat, p \in Nat : j = scanned + 1 /\ p = IF server = "replica" THEN replica ELSE Len(log)
    BY LenProperties DEF Types, SourceTypes, ProcTypes
  <1> DEFINE val == Content(at, j, p)
  <1>1. /\ at \in Streams /\ at \in Scanned /\ j \in Keys /\ p \in Nat /\ p <= Len(log)
        /\ row[at].base \in Nat \ {0} /\ row[at].start \in Nat /\ val \in Nat
        /\ IF val = 0 THEN UNCHANGED dest ELSE Put(at, j, row[at].base, val)
        /\ "lag" \in trouble' \/ row[at].start <= p \/ row[at].start > Len(log)
        /\ scanned' = j /\ phase = "scan" /\ phase' = "scan"
        /\ UNCHANGED <<log, index, at, pos, since, rewound>>
    BY <1>0, ScanIs
  <1>2. \A t \in Streams :
              /\ row'[t].gtid = row[t].gtid /\ row'[t].done = row[t].done
              /\ row'[t].start = row[t].start
              /\ row'[t].cursor = row[t].cursor \/ (t = at /\ row'[t].cursor = j)
    BY <1>0, ScanIs
  <1>3. \A t \in Streams : Recorded(t)' = Recorded(t) /\ From(t) = Recorded(t) /\ From(t)' = Recorded(t)'
    BY <1>1, <1>2 DEF Recorded, From
  <1>4. \A t \in Streams :
          /\ From(t) # None => From(t)' \in Nat /\ From(t)' <= From(t)
          /\ Recorded(t) # None => Recorded(t)' \in Nat /\ Recorded(t)' <= Recorded(t)
    BY <1>3, PosTypes DEF None
  <1>5. Passed(s, k)' => Passed(s, k) \/ (s = at /\ k = j)
    <2>1. k \in Nat /\ row[s].cursor \in Nat /\ scanned \in Nat
      BY RowFields, LifecycleAssumption DEF LifecycleAssumption, Types, ProcTypes, Keys
    <2> QED
      BY <1>0, <1>1, <1>2, <2>1 DEF Passed
  <1>6. Untroubled
    BY TroubleStays
  <1>7. ExactAtReader(s, k)'
    BY <1>1 DEF ExactAtReader
  <1> HIDE DEF val
  <1>8. index \in [Streams -> Indices]
    BY DEF Types, IndexTypes
  <1>9. CASE ~(s = at /\ k = j)
    <2>1. dest'[s][index'[s]][k] = dest[s][index[s]][k]
      <3>1. CASE val = 0
        BY <1>1, <3>1
      <3>2. CASE val # 0
        <4>1. \A t \in Streams, i \in Indices, l \in Keys :
                 <<t, i, l>> # <<at, index[at], j>> => dest'[t][i][l] = dest[t][i][l]
          BY <1>1, <3>2, PutType DEF Types
        <4>2. <<s, index[s], k>> # <<at, index[at], j>> /\ index[s] \in Indices
          BY <1>8, <1>9
        <4> QED
          BY <1>1, <4>1, <4>2
      <3> QED
        BY <3>1, <3>2
    <2>2. Touched(s, k)' => Touched(s, k)
      BY <1>2, <1>5, <1>9, <2>1 DEF Touched
    <2>3. ExactFromOne(s, k)'
      BY <1>1, <1>4, <1>6, <2>1, <2>2, FromOneKept
    <2>4. ExactFromOwn(s, k)'
      BY <1>1, <1>4, <1>6, <2>1, <2>2, FromOwnKept
    <2> QED
      BY <1>7, <2>3, <2>4
  <1>10. CASE s = at /\ k = j
    <2> DEFINE doc == dest[s][index[s]][k]
    <2>1. doc \in Docs
      BY <1>8 DEF Types, IndexTypes
    <2>2. dest'[s][index'[s]][k] = IF val # 0 /\ row[s].base > doc.ver
                                     THEN [ver |-> row[s].base, val |-> val] ELSE doc
      <3>1. CASE val = 0
        BY <1>1, <1>10, <3>1
      <3>2. CASE val # 0
        <4>1. dest'[s][index[s]][k] = IF row[s].base > doc.ver
                                        THEN [ver |-> row[s].base, val |-> val] ELSE doc
          BY <1>1, <1>10, <3>2, PutType DEF Types
        <4> QED
          BY <1>1, <3>2, <4>1
      <3> QED
        BY <3>1, <3>2
    <2>3. doc.ver = 0 => doc.val = 0
      BY <1>8 DEF EmptyInv
    <2> HIDE DEF doc
    <2>4. CASE doc.ver # 0 /\ ~(val # 0 /\ row[s].base > doc.ver)
      <3>1. dest'[s][index'[s]][k] = dest[s][index[s]][k]
        BY <2>2, <2>4 DEF doc
      <3>2. Touched(s, k)
        BY <1>1, <1>10, <2>4 DEF Touched, doc
      <3>3. ExactFromOne(s, k)'
        BY <1>1, <1>4, <1>6, <3>1, <3>2, FromOneKept
      <3>4. ExactFromOwn(s, k)'
        BY <1>1, <1>4, <1>6, <3>1, <3>2, FromOwnKept
      <3> QED
        BY <1>7, <3>3, <3>4
    <2>5. CASE doc.ver = 0 \/ (val # 0 /\ row[s].base > doc.ver)
      <3>1. dest'[s][index'[s]][k].val = val
        <4>1. CASE val # 0 /\ row[s].base > doc.ver
          BY <2>2, <4>1
        <4>2. CASE ~(val # 0 /\ row[s].base > doc.ver)
          <5>1. row[s].base > 0
            BY <1>1, <1>10
          <5>2. doc.ver = 0 /\ val = 0
            BY <2>5, <4>2, <5>1
          <5> QED
            BY <2>2, <2>3, <4>2, <5>2
        <4> QED
          BY <4>1, <4>2
      <3>2. PICK n \in Nat : n = row[s].start
        BY <1>1, <1>10
      <3>3. n <= p /\ Len(log) \in Nat
        <4>1. "lag" \notin trouble'
          BY DEF Untroubled
        <4>2. n <= Len(log) /\ Len(log) \in Nat
          BY <3>2, PosTypes DEF PosInv, RowPositions
        <4> QED
          BY <1>1, <1>10, <3>2, <4>1, <4>2
      <3>4. val = Content(s, k, p)'
        <4>1. \A i \in 1..p : log'[i] = log[i]
          BY <1>1
        <4>2. Content(s, k, p)' = Content(s, k, p)
          BY <1>1, <4>1, ContentKept
        <4> QED
          BY <1>10, <4>2 DEF val
      <3>5. Exact(s, k, n)'
        <4>1. p \in n..Len(log')
          BY <1>1, <3>3
        <4> QED
          BY <3>1, <3>4, <4>1 DEF Exact, Holds
      <3>6. Recorded(s)' = n
        <4>1. ~(row[s].done /\ row[s].gtid # None)
          BY <1>1, <1>10 DEF PosInv, RunPositions
        <4>2. Recorded(s) = n
          BY <1>1, <1>10, <3>2, <4>1 DEF Recorded
        <4> QED
          BY <1>3, <4>2
      <3>7. From(s)' = n /\ n # None
        BY <1>3, <3>6 DEF None
      <3>8. Exact(s, k, Recorded(s))' /\ Exact(s, k, From(s))'
        BY <3>5, <3>6, <3>7 DEF Exact, Holds
      <3>9. ExactFromOne(s, k)'
        BY <3>7, <3>8 DEF ExactFromOne
      <3>10. ExactFromOwn(s, k)'
        BY <3>6, <3>7, <3>8 DEF ExactFromOwn
      <3> QED
        BY <1>7, <3>9, <3>10
    <2> QED
      BY <2>4, <2>5
  <1> QED
    BY <1>9, <1>10

\* The reader reads a change, and its stream writes it.
LEMMA CopyRead ==
  ASSUME Types, PosInv, VersionInv, CopyInv, Untroubled, [Next]_vars, ReadChange,
         NEW s \in Streams, NEW k \in Keys
  PROVE  ExactFromOne(s, k)' /\ ExactAtReader(s, k)' /\ ExactFromOwn(s, k)'
  <1> DEFINE c == log[rpos + 1]
             val == IF c.op = "delete" THEN 0 ELSE rpos + 1
  <1>1. /\ rpos + 1 \in 1..Len(log) /\ c.stream \in Streams /\ c.key \in Keys /\ c \in Entries
        /\ \A t \in Streams :
             /\ row'[t].start = row[t].start
             /\ row'[t].cursor = row[t].cursor /\ row'[t].done = row[t].done
             /\ row'[t].gtid = row[t].gtid \/ (t = c.stream /\ row'[t].gtid = rpos)
    BY ReadIs
  <1>2. /\ Put(c.stream, c.key, Version(1), val) /\ phase = "stream" /\ phase' = "stream"
        /\ rpos' = rpos + 1 /\ UNCHANGED <<log, index, at, scanned, since>>
        /\ rewound' = {t \in rewound \cup {c.stream} : ResumesAt(t)' > rpos + 1}
    BY DEF ReadChange, sourceVars
  <1>3. /\ rpos \in Nat /\ Len(log) \in Nat /\ val \in Nat /\ Version(1) \in Nat
        /\ rpos <= Len(log)
    BY <1>1, PosTypes, FirstIsAStream, VersionType DEF Types, PosInv, RunPositions
  <1>4. ExactFromOne(s, k)'
    BY <1>2 DEF ExactFromOne
  <1>5. s \notin Scanned => since[s] \in Nat
    BY DEF PosInv, RowPositions, Types, RowTypes
  <1>6. \A q \in 0..Len(log) : Content(s, k, q)' = Content(s, k, q)
    <2>1. \A q \in 0..Len(log) : q \in Nat /\ \A i \in 1..q : log'[i] = log[i]
      BY <1>2
    <2> QED
      BY <2>1, ContentKept
  <1>7. Concerns(rpos + 1, s, k) <=> s = c.stream /\ k = c.key
    BY DEF Concerns
  <1>8. index \in [Streams -> Indices]
    BY DEF Types, IndexTypes
  <1>9. Content(s, k, rpos + 1) = IF s = c.stream /\ k = c.key THEN val ELSE Content(s, k, rpos)
    <2>1. Content(s, k, rpos + 1) =
           IF Concerns(rpos + 1, s, k)
             THEN IF log[rpos + 1].op = "delete" THEN 0 ELSE rpos + 1
             ELSE Content(s, k, rpos)
      BY <1>3, ContentNext
    <2> QED
      BY <1>7, <2>1
  <1> HIDE DEF c, val
  <1>10. ~(s = c.stream /\ k = c.key) => dest'[s][index'[s]][k] = dest[s][index[s]][k]
    <2>1. \A t \in Streams, i \in Indices, l \in Keys :
             <<t, i, l>> # <<c.stream, index[c.stream], c.key>> => dest'[t][i][l] = dest[t][i][l]
      BY <1>1, <1>2, <1>3, PutType DEF Types
    <2> QED
      BY <1>2, <1>8, <2>1
  <1>11. PICK n \in Nat : n = rpos + 1
    BY <1>3
  <1>12. Exact(s, k, n)'
    <2>1. CASE s = c.stream /\ k = c.key
      <3>1. dest[s][index[s]][k].ver < Version(1)
        BY <1>8 DEF VersionInv
      <3>2. dest[s][index[s]][k] \in Docs
        BY <1>8 DEF Types, IndexTypes
      <3>3. dest'[s][index[s]][k] = IF Version(1) > dest[s][index[s]][k].ver
                                      THEN [ver |-> Version(1), val |-> val]
                                      ELSE dest[s][index[s]][k]
        BY <1>1, <1>2, <1>3, <2>1, PutType DEF Types
      <3>4. dest'[s][index'[s]][k].val = val
        BY <1>2, <1>3, <3>1, <3>2, <3>3 DEF Docs
      <3>5. n \in 0..Len(log) /\ n \in n..Len(log')
        BY <1>1, <1>2, <1>3, <1>11
      <3>6. val = Content(s, k, n)'
        BY <1>6, <1>9, <1>11, <2>1, <3>5
      <3> QED
        BY <3>4, <3>5, <3>6 DEF Exact, Holds
    <2>2. CASE ~(s = c.stream /\ k = c.key)
      <3> SUFFICES ASSUME s \in Scanned \/ \E i \in (since[s] + 1)..n : Concerns(i, s, k)'
                   PROVE  \E q \in n..Len(log) : dest[s][index[s]][k].val = Content(s, k, q)'
        BY <1>2, <1>10, <2>2 DEF Exact, Holds
      <3>1. s \in Scanned \/ \E i \in (since[s] + 1)..rpos : Concerns(i, s, k)
        <4>1. \A i \in (since[s] + 1)..n : Concerns(i, s, k)' => Concerns(i, s, k)
          BY <1>2 DEF Concerns
        <4>2. s \notin Scanned => \A i \in (since[s] + 1)..n : i = n \/ i \in (since[s] + 1)..rpos
          BY <1>3, <1>5, <1>11
        <4> QED
          BY <1>7, <1>11, <2>2, <4>1, <4>2
      <3>2. PICK q \in rpos..Len(log) : dest[s][index[s]][k].val = Content(s, k, q)
        BY <1>2, <3>1 DEF CopyInv, ExactAtReader, Exact, Holds
      <3>3. CASE q = rpos
        <4>1. n \in n..Len(log) /\ n \in 0..Len(log)
          BY <1>1, <1>3, <1>11
        <4>2. Content(s, k, n) = Content(s, k, q)
          BY <1>9, <1>11, <2>2, <3>3
        <4> QED
          BY <1>6, <3>2, <4>1, <4>2
      <3>4. CASE q # rpos
        <4>1. q \in n..Len(log) /\ q \in 0..Len(log)
          BY <1>3, <1>11, <3>4
        <4> QED
          BY <1>6, <3>2, <4>1
      <3> QED
        BY <3>3, <3>4
    <2> QED
      BY <2>1, <2>2
  <1>13. ExactAtReader(s, k)'
    <2>1. n = rpos'
      BY <1>2, <1>11
    <2>2. Exact(s, k, rpos)'
      BY <1>12, <2>1 DEF Exact, Holds
    <2> QED
      BY <2>2 DEF ExactAtReader
  <1>14. ExactFromOwn(s, k)'
    <2>1. Settled(s)
      BY <1>2 DEF PosInv, RunPositions
    <2>2. CASE s # c.stream /\ s \notin rewound
      <3>1. Recorded(s)' = Recorded(s) /\ (Passed(s, k)' <=> Passed(s, k)) /\ row'[s].gtid = row[s].gtid
        BY <1>1, <1>2, <2>2 DEF Recorded, Passed
      <3>2. dest'[s][index'[s]][k] = dest[s][index[s]][k]
        BY <1>10, <2>2
      <3>3. Touched(s, k)' => Touched(s, k)
        BY <3>1, <3>2 DEF Touched
      <3>4. Recorded(s) # None => Recorded(s)' \in Nat /\ Recorded(s)' <= Recorded(s)
        BY <3>1, PosTypes DEF None
      <3> QED
        BY <1>2, <2>2, <3>2, <3>3, <3>4, FromOwnKept
    <2>3. CASE s = c.stream \/ s \in rewound
      <3> SUFFICES ASSUME s \notin rewound'
                   PROVE  Recorded(s)' # None /\ Exact(s, k, Recorded(s))'
        BY DEF ExactFromOwn
      <3>1. ~(ResumesAt(s)' > rpos + 1)
        BY <1>2, <2>3
      <3>2. row'[s].gtid \in Nat \cup {-1} /\ row'[s].start \in Nat \cup {-1}
        BY <1>1, <1>3, PosTypes
      <3>3. s \in Scanned => row'[s].start # None /\ row'[s].done
        BY <1>1, <2>1 DEF Settled, PosInv, RowPositions
      <3>4. s \notin Scanned => row'[s].gtid # None
        BY <1>1, <1>3, <2>1 DEF Settled, None
      <3>5. Recorded(s)' = ResumesAt(s)' /\ Recorded(s)' \in Nat
        BY <3>2, <3>3, <3>4 DEF Recorded, ResumesAt, None
      <3>6. PICK q \in Nat : q = Recorded(s)' /\ q <= n
        BY <1>3, <1>11, <3>1, <3>5
      <3>7. Exact(s, k, q)'
        <4>1. Len(log') \in Nat /\ (s \notin Scanned => since'[s] \in Nat)
          BY <1>2, <1>3, <1>5
        <4> QED
          BY <1>12, <3>6, <4>1, ExactBefore
      <3>8. Exact(s, k, Recorded(s))'
        BY <3>6, <3>7 DEF Exact, Holds
      <3> QED
        BY <3>6, <3>8 DEF None
    <2> QED
      BY <2>2, <2>3
  <1> QED
    BY <1>4, <1>13, <1>14

LEMMA SettledIsRecorded ==
  ASSUME Types, PosInv, NEW t \in Streams, Settled(t)
  PROVE  Recorded(t) \in Nat
  <1>1. t \in Scanned => row[t].start # None
    BY DEF PosInv, RowPositions, Settled
  <1> QED
    BY <1>1, PosTypes DEF Settled, Recorded, None

\* A stop takes no stream further ahead.
LEMMA StopFallsBack ==
  ASSUME Types, ScanInv, PosInv, phase # "stream", NEW t \in Streams, From(t) # None
  PROVE  Recorded(t) \in Nat /\ Recorded(t) <= From(t)
  <1>1. CASE phase = "load" /\ t < at
    BY <1>1, SettledIsRecorded DEF From, PosInv, RunPositions
  <1>2. CASE phase = "promote" /\ t = at
    BY <1>2, PosTypes DEF From, Recorded, PosInv, RunPositions, ScanInv, None
  <1>3. CASE ~(phase = "load" /\ t < at) /\ ~(phase = "promote" /\ t = at)
    BY <1>3, PosTypes DEF From, None
  <1> QED
    BY <1>1, <1>2, <1>3

LEMMA CopyStop ==
  ASSUME Types, ScanInv, PosInv, CopyInv, Untroubled, [Next]_vars, Crash \/ StopScan \/ PromoteFails,
         NEW s \in Streams, NEW k \in Keys
  PROVE  ExactFromOne(s, k)' /\ ExactAtReader(s, k)' /\ ExactFromOwn(s, k)'
  <1>1. UNCHANGED <<row, index, dest, log, since, rewound>> /\ phase' = "down"
    BY DEF Crash, StopScan, PromoteFails, Stopped, sourceVars, histVars
  <1>2. \A t \in Streams : Recorded(t)' = Recorded(t) /\ From(t)' = Recorded(t)
    BY <1>1 DEF Recorded, From
  <1>3. Touched(s, k)' => Touched(s, k)
    BY <1>1 DEF Touched, Passed
  <1>4. ExactAtReader(s, k)'
    BY <1>1 DEF ExactAtReader
  <1>5. Recorded(s) # None => Recorded(s)' \in Nat /\ Recorded(s)' <= Recorded(s)
    BY <1>2, PosTypes DEF None
  <1>6. ExactFromOwn(s, k)'
    BY <1>1, <1>3, <1>5, FromOwnKept
  <1>7. CASE phase # "stream"
    <2>1. \A t \in Streams : From(t) # None => From(t)' \in Nat /\ From(t)' <= From(t)
      BY <1>2, <1>7, StopFallsBack
    <2>2. ExactFromOne(s, k)'
      BY <1>1, <1>3, <1>7, <2>1, FromOneKept
    <2> QED
      BY <1>4, <1>6, <2>2
  <1>8. CASE phase = "stream"
    <2>1. PICK t \in Streams : Recorded(t) <= rpos /\ Settled(t)
      BY <1>8 DEF PosInv, RunPositions
    <2>2. PICK q \in Nat : q = Recorded(t) /\ q <= rpos
      BY <2>1, SettledIsRecorded
    <2>3. PICK p \in Nat : p = rpos /\ p <= Len(log)
      BY PosTypes DEF PosInv, RunPositions
    <2>4. Exact(s, k, p)
      BY <1>8, <2>3 DEF CopyInv, ExactAtReader
    <2>5. s \notin Scanned => since[s] # None
      BY DEF PosInv, RowPositions
    <2>6. Exact(s, k, q)'
      BY <1>1, <2>2, <2>3, <2>4, <2>5, ExactKept
    <2>7. Exact(s, k, From(t))' /\ From(t)' # None
      BY <1>2, <2>2, <2>6 DEF Exact, Holds, None
    <2> QED
      BY <1>4, <1>6, <2>7 DEF ExactFromOne
  <1> QED
    BY <1>7, <1>8

LEMMA CopyStartReader ==
  ASSUME Types, PosInv, CopyInv, Untroubled, [Next]_vars, StartReader, NEW s \in Streams, NEW k \in Keys
  PROVE  ExactFromOne(s, k)' /\ ExactAtReader(s, k)' /\ ExactFromOwn(s, k)'
  <1>1. /\ UNCHANGED <<row, index, dest, log, since, rewound>> /\ phase' = "stream"
        /\ phase = "load" /\ at > N /\ rpos' = SharedStartPosition
    BY DEF StartReader, sourceVars, indexVars, histVars
  <1>2. \A t \in Streams : t < at /\ From(t) = pos[t]
    BY <1>1, PosTypes DEF From
  <1>3. Touched(s, k)
    BY <1>1, <1>2 DEF Touched, Passed, PosInv, RunPositions, Settled
  <1>4. PICK t \in Streams : From(t) # None /\ Exact(s, k, From(t))
    BY <1>1, <1>3 DEF CopyInv, ExactFromOne
  <1>5. PICK p \in Nat : p = From(t) /\ p <= Len(log)
    BY <1>4, FromTypes DEF None
  <1>6. PICK q \in Nat : q = rpos' /\ q <= p
    BY <1>1, <1>2, <1>5, SharedStart DEF Types
  <1>7. s \notin Scanned => since[s] # None
    BY DEF PosInv, RowPositions
  <1>8. Exact(s, k, p)
    BY <1>4, <1>5
  <1>9. Exact(s, k, q)'
    BY <1>1, <1>5, <1>6, <1>7, <1>8, ExactKept
  <1>10. Exact(s, k, rpos)'
    BY <1>6, <1>9 DEF Exact, Holds
  <1>11. Recorded(s)' = Recorded(s)
    BY <1>1 DEF Recorded
  <1>12. Recorded(s) # None => Recorded(s)' \in Nat /\ Recorded(s)' <= Recorded(s)
    BY <1>11, PosTypes DEF None
  <1>13. ExactFromOwn(s, k)'
    BY <1>1, <1>3, <1>12, FromOwnKept
  <1> QED
    BY <1>1, <1>10, <1>13 DEF ExactFromOne, ExactAtReader

LEMMA CopyRebuild ==
  ASSUME OnlyFirstScanned, Types, PosInv, EmptyInv, CopyInv, Untroubled', [Next]_vars, Rebuild,
         NEW s \in Streams, NEW k \in Keys
  PROVE  ExactFromOne(s, k)' /\ ExactAtReader(s, k)' /\ ExactFromOwn(s, k)'
  <1> USE DEF None
  <1>1. PICK t \in Streams :
          /\ row' = [row EXCEPT ![t] = [NewRow EXCEPT !.gtid = row[t].gtid]]
          /\ row[t] # NewRow /\ index' = [index EXCEPT ![t] = @ + 1]
          /\ since' = [since EXCEPT ![t] = row[t].gtid] /\ rewound' = rewound \ {t}
          /\ trouble' = IF t \in Scanned /\ rewound' # {} THEN trouble \cup {"replay"} ELSE trouble
    BY DEF Rebuild
  <1>2. UNCHANGED <<dest, log, at>> /\ phase = "down" /\ phase' = "down"
    BY DEF Rebuild, procVars, sourceVars
  <1>3. Untroubled
    BY TroubleStays
  <1> DEFINE r == [NewRow EXCEPT !.gtid = row[t].gtid]
  <1>4. r.gtid = row[t].gtid /\ r.start = None /\ r.done = FALSE /\ r.cursor = 0
    BY NewRowType DEF Rows
  <1> HIDE DEF r
  <1>5. /\ row'[t] = r /\ since'[t] = row[t].gtid
        /\ \A u \in Streams : u # t => row'[u] = row[u] /\ since'[u] = since[u] /\ index'[u] = index[u]
    BY <1>1 DEF Types, RowTypes, IndexTypes, r
  <1>6. \A u \in Streams : From(u) = Recorded(u) /\ From(u)' = Recorded(u)'
    BY <1>2 DEF From
  <1>7. \A u \in Streams : u # t => Recorded(u)' = Recorded(u)
    BY <1>5 DEF Recorded
  <1>8. ExactAtReader(s, k)'
    BY <1>2 DEF ExactAtReader
  <1>9. s # t => (Touched(s, k)' <=> Touched(s, k)) /\ dest'[s][index'[s]][k] = dest[s][index[s]][k]
    BY <1>2, <1>5 DEF Touched, Passed
  <1>10. \A u \in Streams : Recorded(u) # None => Recorded(u) \in Nat /\ Recorded(u) <= Recorded(u)
    BY PosTypes
  <1>11. s # t => ExactFromOwn(s, k)'
    <2> SUFFICES ASSUME s # t PROVE ExactFromOwn(s, k)'
      OBVIOUS
    <2>1. Recorded(s) # None => Recorded(s)' \in Nat /\ Recorded(s)' <= Recorded(s)
      BY <1>7, <1>10
    <2> QED
      BY <1>1, <1>3, <1>5, <1>9, <2>1, FromOwnKept
  <1>12. CASE t \notin Scanned
    <2>1. row[t].gtid # None
      BY <1>1, <1>12 DEF PosInv, RowPositions
    <2>2. Recorded(t)' = row[t].gtid /\ Recorded(t) = row[t].gtid
      BY <1>4, <1>5, <1>12, <2>1 DEF Recorded
    <2>3. \A u \in Streams : From(u) # None => From(u)' \in Nat /\ From(u)' <= From(u)
      BY <1>6, <1>7, <1>10, <2>2
    <2>4. CASE s # t
      <3>1. ExactFromOne(s, k)'
        BY <1>2, <1>3, <1>5, <1>9, <2>3, <2>4, FromOneKept
      <3> QED
        BY <1>8, <1>11, <2>4, <3>1
    <2>5. CASE s = t
      <3>1. PICK n \in Nat : n = row[t].gtid
        BY <2>1, PosTypes
      <3>2. Exact(s, k, n)'
        <4>1. since'[s] = n /\ (n + 1)..n = {}
          BY <1>5, <2>5, <3>1
        <4> QED
          BY <1>12, <2>5, <4>1 DEF Exact
      <3>3. Recorded(s)' = n /\ From(s)' = n /\ n # None
        BY <1>6, <2>2, <2>5, <3>1
      <3>4. Exact(s, k, Recorded(s))' /\ Exact(s, k, From(s))'
        BY <3>2, <3>3 DEF Exact, Holds
      <3> QED
        BY <1>8, <3>3, <3>4 DEF ExactFromOne, ExactFromOwn
    <2> QED
      BY <2>4, <2>5
  <1>13. CASE t \in Scanned
    <2>1. rewound' = {}
      BY <1>1, <1>13 DEF Untroubled
    <2>2. CASE s # t
      <3>1. s \notin Scanned
        BY <1>13, <2>2 DEF OnlyFirstScanned
      <3>2. From(s)' = Recorded(s)'
        BY <1>6
      <3>3. ExactFromOwn(s, k)'
        BY <1>11, <2>2
      <3>4. Touched(s, k)' => Recorded(s)' # None /\ Exact(s, k, Recorded(s))'
        BY <2>1, <3>3 DEF ExactFromOwn
      <3>5. Touched(s, k)' => From(s)' # None /\ Exact(s, k, From(s))'
        BY <3>2, <3>4 DEF Exact, Holds
      <3> QED
        BY <1>8, <3>3, <3>5 DEF ExactFromOne
    <2>3. CASE s = t
      <3>1. k \in Nat /\ k # 0
        BY LifecycleAssumption DEF LifecycleAssumption, Keys
      <3>2. ~Passed(s, k)'
        BY <1>2, <1>4, <1>5, <2>3, <3>1 DEF Passed
      <3>3. index'[s] = index[s] + 1 /\ index'[s] \in Indices /\ index[s] \in Indices
        BY <1>1, <2>3, TypesStep DEF Types, IndexTypes
      <3>4. index'[s] > index[s]
        BY <3>3 DEF Indices
      <3>5. dest'[s][index'[s]][k].ver = 0
        BY <1>2, <3>3, <3>4 DEF EmptyInv
      <3>6. ~Touched(s, k)'
        BY <1>13, <2>3, <3>2, <3>5 DEF Touched
      <3> QED
        BY <1>8, <3>6 DEF ExactFromOne, ExactFromOwn
    <2> QED
      BY <2>2, <2>3
  <1> QED
    BY <1>12, <1>13

\* A step of backfill that writes nothing, for a row it does not begin to copy.
LEMMA CopyBackfill ==
  ASSUME Types, PosInv, CopyInv, Untroubled, [Next]_vars, NEW s \in Streams, NEW k \in Keys,
         phase # "stream", phase' # "stream",
         UNCHANGED <<dest, index, rewound>>, since'[s] = since[s], Touched(s, k)' => Touched(s, k),
         \A t \in Streams :
           /\ From(t) # None => From(t)' \in Nat /\ From(t)' <= From(t)
           /\ Recorded(t) # None => Recorded(t)' \in Nat /\ Recorded(t)' <= Recorded(t)
  PROVE  ExactFromOne(s, k)' /\ ExactAtReader(s, k)' /\ ExactFromOwn(s, k)'
  <1>1. ExactFromOne(s, k)'
    BY FromOneKept
  <1>2. ExactFromOwn(s, k)'
    BY FromOwnKept
  <1> QED
    BY <1>1, <1>2 DEF ExactAtReader

LEMMA CopyStep ==
  ASSUME OnlyFirstScanned, Types, ScanInv, VersionInv, PosInv, EmptyInv, CopyInv, [Next]_vars
  PROVE  CopyInv'
  <1> SUFFICES ASSUME Untroubled', NEW s \in Streams, NEW k \in Keys
               PROVE  ExactFromOne(s, k)' /\ ExactAtReader(s, k)' /\ ExactFromOwn(s, k)'
    BY DEF CopyInv
  <1>1. Untroubled
    BY TroubleStays
  <1>2. \A t \in Streams :
          /\ From(t) # None => From(t) \in Nat /\ From(t) <= From(t)
          /\ Recorded(t) # None => Recorded(t) \in Nat /\ Recorded(t) <= Recorded(t)
    BY FromTypes DEF None
  <1>3. CASE Start
    <2>1. /\ UNCHANGED <<row, dest, index, since, rewound>> /\ phase = "down" /\ phase' = "load"
          /\ at' = 1
      BY <1>3 DEF Start, indexVars, histVars
    <2>2. \A t \in Streams : Recorded(t)' = Recorded(t) /\ From(t) = Recorded(t) /\ ~(t < 1)
      BY <2>1, PosTypes DEF Recorded, From
    <2>3. \A t \in Streams : From(t)' = From(t)
      BY <2>1, <2>2 DEF From
    <2>4. Touched(s, k)' => Touched(s, k)
      BY <2>1 DEF Touched, Passed
    <2> QED
      BY <1>1, <1>2, <2>1, <2>2, <2>3, <2>4, CopyBackfill
  <1>4. CASE UseRecorded
    <2>1. /\ UNCHANGED <<row, dest, index, since, rewound>> /\ phase = "load" /\ phase' = "load"
          /\ at' = at + 1 /\ at \in Streams /\ row[at].done /\ row[at].gtid # None
          /\ pos' = [pos EXCEPT ![at] = row[at].gtid]
      BY <1>4, AtIsAStream DEF UseRecorded, Loading, indexVars, histVars
    <2>2. \A t \in Streams : Recorded(t)' = Recorded(t)
      BY <2>1 DEF Recorded
    <2>3. pos'[at] = Recorded(at) /\ \A t \in Streams : t # at => pos'[t] = pos[t]
      BY <2>1 DEF Recorded, Types, ProcTypes
    <2>4. \A t \in Streams : t < at + 1 <=> t < at \/ t = at
      BY <2>1, PosTypes
    <2>5. ~(at < at)
      BY PosTypes
    <2>6. \A t \in Streams : From(t)' = From(t)
      BY <2>1, <2>2, <2>3, <2>4, <2>5 DEF From
    <2>7. Touched(s, k)' => Touched(s, k)
      BY <2>1 DEF Touched, Passed
    <2> QED
      BY <1>1, <1>2, <2>1, <2>2, <2>6, <2>7, CopyBackfill
  <1>5. CASE StartWithoutSnapshot
    <2>1. /\ UNCHANGED <<dest, index, rewound>> /\ phase = "load" /\ phase' = "load"
          /\ at' = at + 1 /\ at \in Streams /\ at \notin Scanned
      BY <1>5, StartIs DEF StartWithoutSnapshot, Loading, indexVars
    <2>2. \A t \in Streams :
            t # at => row'[t] = row[t] /\ since'[t] = since[t] /\ pos'[t] = pos[t]
      BY <1>5, StartIs DEF Types, ProcTypes
    <2>3. \A t \in Streams : t < at + 1 <=> t < at \/ t = at
      BY <2>1, PosTypes
    <2>4. ~(at < at)
      BY PosTypes
    <2>5. \A t \in Streams : t # at => Recorded(t)' = Recorded(t)
      BY <2>2 DEF Recorded
    <2>6. \A t \in Streams : t # at => From(t)' = From(t)
      BY <2>1, <2>2, <2>3, <2>5 DEF From
    <2>7. CASE row[at].gtid # None
      <3>1. row' = row /\ since' = since /\ pos'[at] = row[at].gtid
        BY <1>5, <2>1, <2>7, StartIs DEF Types, ProcTypes
      <3>2. \A t \in Streams : t = at => Recorded(t) = row[t].gtid /\ Recorded(t)' = row[t].gtid
        BY <2>1, <2>7, <3>1 DEF Recorded
      <3>3. \A t \in Streams : t = at => From(t) = Recorded(t) /\ From(t)' = row[t].gtid
        BY <2>1, <2>3, <2>4, <3>1 DEF From
      <3>4. \A t \in Streams : From(t)' = From(t) /\ Recorded(t)' = Recorded(t)
        BY <2>5, <2>6, <3>2, <3>3
      <3>5. Touched(s, k)' => Touched(s, k)
        BY <2>1, <3>1 DEF Touched, Passed
      <3> QED
        BY <1>1, <1>2, <2>1, <3>1, <3>4, <3>5, CopyBackfill
    <2>8. CASE row[at].gtid = None
      <3>1. row'[at].gtid = Len(log) /\ since'[at] = Len(log) /\ pos'[at] = Len(log)
        BY <1>5, <2>1, <2>8, StartIs DEF Types, ProcTypes
      <3>2. row[at].start = None
        BY <2>1 DEF PosInv, RowPositions
      <3>3. From(at) = None /\ Recorded(at) = None
        BY <2>1, <2>4, <2>8, <3>2 DEF From, Recorded
      <3>4. CASE s # at
        <4>1. \A t \in Streams :
                /\ From(t) # None => From(t)' \in Nat /\ From(t)' <= From(t)
                /\ Recorded(t) # None => Recorded(t)' \in Nat /\ Recorded(t)' <= Recorded(t)
          BY <1>2, <2>5, <2>6, <3>3
        <4>2. Touched(s, k)' => Touched(s, k)
          BY <2>1, <2>2, <3>4 DEF Touched, Passed
        <4> QED
          BY <1>1, <2>1, <2>2, <3>4, <4>1, <4>2, CopyBackfill
      <3>5. CASE s = at
        <4>1. PICK n \in Nat : n = Len(log)
          BY PosTypes
        <4>2. since'[s] = n /\ (n + 1)..n = {} /\ n # None
          BY <3>1, <3>5, <4>1 DEF None
        <4>3. Exact(s, k, n)'
          BY <2>1, <3>5, <4>2 DEF Exact
        <4>4. Recorded(s)' = n /\ From(s)' = n
          BY <2>1, <2>3, <3>1, <3>5, <4>1, <4>2 DEF Recorded, From
        <4>5. Exact(s, k, Recorded(s))' /\ Exact(s, k, From(s))'
          BY <4>3, <4>4 DEF Exact, Holds
        <4> QED
          BY <2>1, <4>2, <4>4, <4>5 DEF ExactFromOne, ExactAtReader, ExactFromOwn
      <3> QED
        BY <3>4, <3>5
    <2> QED
      BY <2>7, <2>8
  <1>6. CASE MarkScanStarted
    <2>1. /\ UNCHANGED <<dest, index, since, rewound, pos, at>> /\ phase = "load" /\ phase' = "begin"
          /\ at \in Streams /\ at \in Scanned /\ row[at].start = None
          /\ ~(row[at].done /\ row[at].gtid # None)
      BY <1>6, AtIsAStream DEF MarkScanStarted, Loading, indexVars, histVars
    <2>2. at = 1
      BY <2>1 DEF OnlyFirstScanned
    <2>3. /\ \A t \in Streams : t # at => row'[t] = row[t]
          /\ row'[at].gtid = row[at].gtid /\ row'[at].done = row[at].done
          /\ row'[at].cursor = row[at].cursor
      BY <1>6, <2>1 DEF MarkScanStarted, Types, RowTypes, Rows
    <2>4. \A t \in Streams : t = at => Recorded(t) = None /\ From(t) = None
      BY <2>1, <2>2 DEF Recorded, From
    <2>5. \A t \in Streams : ~(t < at)
      BY <2>2, PosTypes
    <2>6. \A t \in Streams : t # at =>
            Recorded(t)' = Recorded(t) /\ From(t)' = Recorded(t)' /\ From(t) = Recorded(t)
      BY <2>1, <2>3, <2>5 DEF Recorded, From
    <2>7. Touched(s, k)' => Touched(s, k)
      BY <2>1, <2>3 DEF Touched, Passed
    <2>8. \A t \in Streams :
            /\ From(t) # None => From(t)' \in Nat /\ From(t)' <= From(t)
            /\ Recorded(t) # None => Recorded(t)' \in Nat /\ Recorded(t)' <= Recorded(t)
      BY <1>2, <2>4, <2>6
    <2> QED
      BY <1>1, <2>1, <2>7, <2>8, CopyBackfill
  <1>7. CASE ResumeScan
    <2>1. /\ UNCHANGED <<row, dest, index, since, rewound, pos, at>> /\ phase = "load" /\ phase' = "begin"
          /\ at \in Scanned
      BY <1>7 DEF ResumeScan, Loading, indexVars, histVars
    <2>2. \A t \in Streams : ~(t < at)
      BY <2>1, PosTypes DEF OnlyFirstScanned
    <2>3. \A t \in Streams : Recorded(t)' = Recorded(t) /\ From(t)' = From(t)
      BY <2>1, <2>2 DEF Recorded, From
    <2>4. Touched(s, k)' => Touched(s, k)
      BY <2>1 DEF Touched, Passed
    <2> QED
      BY <1>1, <1>2, <2>1, <2>3, <2>4, CopyBackfill
  <1>8. CASE BeginBulkLoad \/ EndScan
    <2>1. /\ UNCHANGED <<row, dest, index, since, rewound, pos, at>>
          /\ phase \in {"begin", "scan"} /\ phase' \in {"scan", "finish"}
      BY <1>8 DEF BeginBulkLoad, EndScan
    <2>2. \A t \in Streams : Recorded(t)' = Recorded(t) /\ From(t)' = From(t)
      BY <2>1 DEF Recorded, From
    <2>3. Passed(s, k)' => Passed(s, k)
      BY <1>8 DEF BeginBulkLoad, EndScan, Passed
    <2>4. Touched(s, k)' => Touched(s, k)
      BY <2>1, <2>3 DEF Touched
    <2> QED
      BY <1>1, <1>2, <2>1, <2>2, <2>4, CopyBackfill
  <1>9. CASE FinishScan
    <2>1. /\ UNCHANGED <<dest, index, since, rewound, pos, at>> /\ phase = "finish" /\ phase' = "promote"
          /\ at \in Streams /\ at \in Scanned /\ row[at].start # None /\ scanned = K
          /\ ~(row[at].done /\ row[at].gtid # None)
      BY <1>9, AtIsAStream DEF FinishScan, indexVars, histVars, ScanPhases, Types, InScan, ScanInv,
         PosInv, RunPositions
    <2>2. /\ \A t \in Streams : t # at => row'[t] = row[t]
          /\ row'[at].start = row[at].start /\ row'[at].gtid = row[at].gtid
          /\ row'[at].cursor = row[at].cursor /\ row'[at].done = TRUE
      BY <1>9, <2>1 DEF FinishScan, Types, RowTypes, Rows
    <2>3. \A t \in Streams : t # at =>
            Recorded(t)' = Recorded(t) /\ From(t)' = Recorded(t)' /\ From(t) = Recorded(t)
      BY <2>1, <2>2 DEF Recorded, From
    <2>4. \A t \in Streams : t = at =>
            Recorded(t) = row[t].start /\ From(t) = row[t].start /\ From(t)' = row[t].start
      BY <2>1, <2>2 DEF Recorded, From
    <2>5. row[at].gtid <= row[at].start /\ row[at].start \in Nat /\ row[at].gtid \in Nat \cup {-1}
      BY <2>1, PosTypes DEF PosInv, RowPositions, None
    <2>6. \A t \in Streams : t = at => Recorded(t)' \in Nat /\ Recorded(t)' <= Recorded(t)
      <3>1. \A t \in Streams : t = at => Recorded(t)' = IF row[t].gtid # None THEN row[t].gtid ELSE row[t].start
        BY <2>1, <2>2 DEF Recorded
      <3> QED
        BY <2>4, <2>5, <3>1 DEF None
    <2>7. \A t \in Streams :
            /\ From(t) # None => From(t)' \in Nat /\ From(t)' <= From(t)
            /\ Recorded(t) # None => Recorded(t)' \in Nat /\ Recorded(t)' <= Recorded(t)
      BY <1>2, <2>3, <2>4, <2>5, <2>6
    <2>8. k <= K
      BY LifecycleAssumption DEF LifecycleAssumption, Keys
    <2>9. Touched(s, k)' => Touched(s, k)
      BY <2>1, <2>2, <2>8 DEF Touched, Passed
    <2> QED
      BY <1>1, <2>1, <2>7, <2>9, CopyBackfill
  <1>10. CASE Promote
    <2>1. /\ UNCHANGED <<row, dest, index, since, rewound>> /\ phase = "promote" /\ phase' = "load"
          /\ at' = at + 1 /\ at = 1 /\ pos' = [pos EXCEPT ![at] = row[at].start]
      BY <1>10, ScannedPhase DEF Promote, ScanPhases, histVars
    <2>2. pos'[1] = row[1].start /\ \A t \in Streams : t < 2 <=> t = 1
      BY <2>1, FirstIsAStream, PosTypes DEF Types, ProcTypes
    <2>3. \A t \in Streams : Recorded(t)' = Recorded(t)
      BY <2>1 DEF Recorded
    <2>4. at' = 2
      BY <2>1
    <2>5. \A t \in Streams : From(t)' = From(t)
      BY <2>1, <2>2, <2>3, <2>4 DEF From
    <2>6. Touched(s, k)' => Touched(s, k)
      BY <2>1 DEF Touched, Passed
    <2> QED
      BY <1>1, <1>2, <2>1, <2>3, <2>5, <2>6, CopyBackfill
  <1>11. CASE Change \/ ReplicaCatchesUp \/ Idle \/ UNCHANGED vars
    <2>1. UNCHANGED <<row, dest, index, since, rewound, pos, rpos, at, phase, scanned>>
      BY <1>11 DEF Change, ReplicaCatchesUp, Idle, vars, indexVars, procVars, histVars
    <2>2. \A t \in Streams : Recorded(t)' = Recorded(t) /\ From(t)' = From(t)
      BY <2>1 DEF Recorded, From
    <2>3. Touched(s, k)' => Touched(s, k)
      BY <2>1 DEF Touched, Passed
    <2>4. CASE phase # "stream"
      BY <1>1, <1>2, <2>1, <2>2, <2>3, <2>4, CopyBackfill
    <2>5. CASE phase = "stream"
      <3>1. PICK p \in Nat : p = rpos /\ p <= Len(log) /\ p <= p
        BY PosTypes DEF PosInv, RunPositions
      <3>2. Exact(s, k, p)
        BY <1>1, <2>5, <3>1 DEF CopyInv, ExactAtReader
      <3>3. s \notin Scanned => since[s] # None
        BY DEF PosInv, RowPositions
      <3>4. Exact(s, k, p)'
        BY <2>1, <3>1, <3>2, <3>3, ExactKept
      <3>5. Exact(s, k, rpos)'
        BY <2>1, <3>1, <3>4 DEF Exact, Holds
      <3>6. ExactFromOwn(s, k)'
        BY <1>1, <1>2, <2>1, <2>2, <2>3, FromOwnKept
      <3> QED
        BY <2>1, <2>5, <3>5, <3>6 DEF ExactFromOne, ExactAtReader
    <2> QED
      BY <2>4, <2>5
  <1>12. CASE ScanRow
    BY <1>12, CopyScan
  <1>13. CASE StartReader
    BY <1>1, <1>13, CopyStartReader
  <1>14. CASE ReadChange
    BY <1>1, <1>14, CopyRead
  <1>15. CASE Crash \/ StopScan \/ PromoteFails
    BY <1>1, <1>15, CopyStop
  <1>16. CASE Rebuild
    BY <1>16, CopyRebuild
  <1> QED
    BY <1>3, <1>4, <1>5, <1>6, <1>7, <1>8, <1>9, <1>10, <1>11, <1>12, <1>13, <1>14, <1>15, <1>16
       DEF Next, Progress

AllInv == Types /\ ScanInv /\ VersionInv /\ PosInv /\ EmptyInv /\ CopyInv

\* Once the reader has read the whole log every index holds exactly the rows of
\* its table at their last value, whatever changed while snapshotIfNeeded scanned
\* and wherever the process stopped, rebuilds and replays included: sharedStart-
\* Position is never ahead of a row's copy.  It holds where the scanned stream is
\* the first, whose allocator numbers the changes of all, and but for a replica
\* that was behind and for a replay cut short whose reason a rebuild took away.
THEOREM CopyAlwaysExact == OnlyFirstScanned => (Spec => []CopyIsExact)
  <1> SUFFICES ASSUME OnlyFirstScanned PROVE Spec => []CopyIsExact
    OBVIOUS
  <1>1. Init => AllInv
    <2> SUFFICES ASSUME Init PROVE AllInv
      OBVIOUS
    <2>1. Types
      BY TypesInit
    <2>2. \A s \in Streams : row[s] = NewRow /\ index[s] \in Indices /\ pos[s] = 0 /\ since[s] = 0
      BY LifecycleAssumption DEF LifecycleAssumption, Init, Indices
    <2>3. \A s \in Streams, i \in Indices, k \in Keys : dest[s][i][k].ver = 0 /\ dest[s][i][k].val = 0
      BY DEF Init
    <2>4. ScanInv
      BY <2>2, NewRowType DEF Init, ScanInv
    <2>5. Version(1) = 1 /\ alloc[1].end <= clock /\ NewRow.base = 0
      BY FirstIsAStream DEF Init, Version, NewRow
    <2>6. VersionInv
      BY <2>2, <2>3, <2>5 DEF VersionInv
    <2>7. PosInv
      BY <2>1, <2>2, NewRowType, PosTypes DEF Init, PosInv, RowPositions, RunPositions, None
    <2>8. EmptyInv
      BY <2>2, <2>3 DEF EmptyInv
    <2>9. \A s \in Streams, k \in Keys : ~Touched(s, k)
      <3>1. \A s \in Streams, k \in Keys : ~Passed(s, k)
        BY <2>2, NewRowType, LifecycleAssumption DEF LifecycleAssumption, Init, Passed, Keys
      <3> QED
        BY <2>2, <2>3, <3>1, NewRowType DEF Touched
    <2>10. CopyInv
      BY <2>9 DEF Init, CopyInv, ExactFromOne, ExactAtReader, ExactFromOwn
    <2> QED
      BY <2>1, <2>4, <2>6, <2>7, <2>8, <2>10 DEF AllInv
  <1>2. AllInv /\ [Next]_vars => AllInv'
    BY TypesStep, ScanStep, VersionStep, PosStep, EmptyStep, CopyStep DEF AllInv
  <1>3. AllInv => CopyIsExact
    <2> SUFFICES ASSUME AllInv, Untroubled, phase = "stream", rpos = Len(log),
                        NEW s \in Streams, NEW k \in Keys, Copied(s, k)
                 PROVE  dest[s][index[s]][k].val = Content(s, k, Len(log))
      BY DEF CopyIsExact, AnyCopyIsExact, Untroubled
    <2>1. Exact(s, k, rpos) /\ Len(log) \in Nat
      BY PosTypes DEF AllInv, CopyInv, ExactAtReader
    <2>2. Holds(s, k, Len(log))
      BY <2>1 DEF Exact, Copied, Concerns
    <2> QED
      BY <2>1, <2>2 DEF Holds
  <1> QED
    BY <1>1, <1>2, <1>3, PTL DEF Spec
================================================================================
