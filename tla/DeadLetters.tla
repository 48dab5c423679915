----------------------------- MODULE DeadLetters -----------------------------
(***************************************************************************)
(* The dead letter queue of internal/sink/dlq/dlq.go: lines appended to a  *)
(* file that is rotated when it is large, through failed and torn writes   *)
(* and restarts, and what status (Count) and an operator (Read) find in    *)
(* the files.                                                              *)
(*                                                                         *)
(* A record is a number.  A line is the sequence of what was written       *)
(* between two newlines: records, and Torn for a record of which only a    *)
(* part was written.                                                       *)
(***************************************************************************)
EXTENDS Naturals, Sequences, FiniteSets

CONSTANTS MaxSize,     \* Options.MaxBytes, in records
          MaxRecords,  \* bound: records offered in one behaviour
          MaxFailures    \* bound: failed writes, failed rotations and crashes

ASSUME DeadLetterAssumption ==
  MaxSize \in Nat \ {0} /\ MaxRecords \in Nat /\ MaxFailures \in Nat

Torn == 0

VARIABLES
  current,   \* the lines of <stream>.jsonl
  ended,     \* whether its last line ends with a newline
  rotated,   \* the lines of the rotated files
  size,      \* Writer.size, counted from the file when it is opened
  file,      \* Writer.file: "open" or "closed"
  recorded,  \* the records Record returned without an error for
  next,      \* the next record
  failures

letterVars == <<current, ended, rotated, size, file, recorded, next, failures>>

LettersInit ==
  /\ current = <<>> /\ ended = "yes" /\ rotated = <<>>
  /\ size = 0 /\ file = "closed"
  /\ recorded = {} /\ next = 1 /\ failures = 0

Fault == failures < MaxFailures /\ failures' = failures + 1

\* The lines after writing the records of s, each followed by a newline: the
\* first one goes on where the file ends.
Written(s) ==
  IF ended = "no" /\ s # <<>>
    THEN SubSeq(current, 1, Len(current) - 1)
           \o << current[Len(current)] \o <<s[1]>> >>
           \o [i \in 1..(Len(s) - 1) |-> <<s[i + 1]>>]
    ELSE current \o [i \in DOMAIN s |-> <<s[i]>>]

Batch(n) == [i \in 1..n |-> next + i - 1]

\* How much a file holds: a part of a record counts as one.
SizeOf(lines) ==
  LET sum[i \in 0..Len(lines)] == IF i = 0 THEN 0 ELSE sum[i - 1] + Len(lines[i])
  IN  sum[Len(lines)]

\* A mutant: a file that is opened again counts as empty.
SizeFromZero == IF file = "open" THEN size ELSE 0

\* open counts what the file holds already.
SizeOnOpen == IF file = "open" THEN size ELSE SizeOf(current)

\* Record writes and syncs a line for every record.
Flushed(n) ==
  /\ current' = Written(Batch(n)) /\ ended' = "yes"
  /\ size' = SizeOnOpen + n

Full(n) == SizeOnOpen + n >= MaxSize

\* Record, when the file does not become too large.
Record(n) ==
  /\ next + n <= MaxRecords + 1 /\ ~Full(n)
  /\ Flushed(n)
  /\ file' = "open"
  /\ recorded' = recorded \cup {next + i : i \in 0..(n - 1)} /\ next' = next + n
  /\ UNCHANGED <<rotated, failures>>

\* A mutant: the new file takes the place of the rotated one.
RotateOver(lines) == rotated' = lines

\* rotate: the file is renamed.
Rotate(lines) == rotated' = rotated \o lines

\* Record, and the rotation it makes necessary.
RecordAndRotate(n) ==
  /\ next + n <= MaxRecords + 1 /\ Full(n)
  /\ Rotate(Written(Batch(n)))
  /\ current' = <<>> /\ ended' = "yes" /\ size' = 0 /\ file' = "closed"
  /\ recorded' = recorded \cup {next + i : i \in 0..(n - 1)} /\ next' = next + n
  /\ UNCHANGED failures

\* A mutant: a writer begins with the size of the writer before it.
ReopenedWithSize == file' = "closed" /\ UNCHANGED size

\* The pipeline stops when Record fails: a new process opens the file.
Reopened == file' = "closed" /\ size' = 0

\* Record fails or the process dies: whole lines of the batch and a part of
\* another may be in the file.  The batch is offered again.
RecordFails(n) ==
  /\ next + n <= MaxRecords + 1 /\ Fault
  /\ \E whole \in 0..n :
       \/ current' = Written(Batch(whole)) /\ ended' = IF whole = 0 THEN ended ELSE "yes"
       \/ /\ whole < n
          /\ current' = Written(Batch(whole) \o <<Torn>>)
          /\ ended' = "no"
  /\ Reopened
  /\ UNCHANGED <<rotated, recorded, next>>

\* Everything is written, but the file cannot be renamed.
RotateFails(n) ==
  /\ next + n <= MaxRecords + 1 /\ Full(n) /\ Fault
  /\ current' = Written(Batch(n)) /\ ended' = "yes"
  /\ Reopened
  /\ UNCHANGED <<rotated, recorded, next>>

Restart ==
  /\ file = "open" /\ Fault
  /\ Reopened
  /\ UNCHANGED <<current, ended, rotated, recorded, next>>

LettersNext ==
  \/ \E n \in 1..2 : \/ Record(n) \/ RecordAndRotate(n)
                     \/ RecordFails(n) \/ RotateFails(n)
  \/ Restart

LettersSpec == LettersInit /\ [][LettersNext]_letterVars

-----------------------------------------------------------------------------
\* Files: the current file and the rotated ones.
AllLines == rotated \o current

\* Count.
Count == Len(AllLines)

\* Read parses a line that holds one whole record and nothing else.
Readable(line) == Len(line) = 1 /\ line[1] # Torn

LettersTypeOK ==
  /\ \A i \in DOMAIN AllLines : AllLines[i] \in Seq(0..MaxRecords) /\ AllLines[i] # <<>>
  /\ ended \in {"yes", "no"} /\ file \in {"open", "closed"}
  /\ recorded = 1..(next - 1) /\ next \in 1..(MaxRecords + 1)
  /\ size \in Nat /\ (file = "closed" => size = 0) /\ failures \in 0..MaxFailures

\* What Record acknowledged is on disk for good: after torn writes, restarts
\* and rotations every acknowledged record is still in one of the files, and
\* the number status reports is not below theirs.
OnDisk ==
  /\ \A r \in recorded : \E i \in DOMAIN AllLines :
       \E j \in DOMAIN AllLines[i] : AllLines[i][j] = r
  /\ Count >= Cardinality(recorded)

\* The writer knows how large its file is, also one it found after a restart,
\* and has rotated it once it is full.
SizeMatches == file = "open" => size = SizeOf(current) /\ size < MaxSize

\* Every acknowledged record can be read back: it has a line of its own.
ReadsBack ==
  \A r \in recorded : \E i \in DOMAIN AllLines : AllLines[i] = <<r>>
==============================================================================
