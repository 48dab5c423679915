---------------------------- MODULE ClickHouseSink ----------------------------
(***************************************************************************)
(* One Write of the ClickHouse sink, internal/sink/clickhouse/insert.go.   *)
(* The destination takes or refuses an insert as a whole, keeps the row    *)
(* with the highest version of a key, and ignores an insert whose          *)
(* deduplication token it has seen.                                        *)
(*                                                                         *)
(* isolate narrows a refused insert down to the rows at fault by writing   *)
(* its halves; the calls still to be made are a queue of parts, each with  *)
(* its own attempt counter and depth.  Sinks.tla states what a Write       *)
(* promises and checks it.                                                 *)
(***************************************************************************)
EXTENDS Naturals, Sequences, FiniteSets

CONSTANTS Batches,      \* the batches Write may be given, as Plan.Apply makes them
          Earlier,      \* an insert the destination already took, <<>> for none
          Refused,      \* documents the destination refuses
          Keys,
          MaxAttempts,  \* Options.MaxAttempts
          MaxDepth,     \* maxIsolationDepth
          MaxFaults     \* bound: lost requests, busy or denying answers, cancellations

VARIABLES
  batch,     \* the documents of this Write
  parts,     \* the calls of write still to be made: Seq([docs, attempt, depth])
  phase,     \* "encode", "post" or "wait"
  stored,    \* the table: key -> highest version
  tokens,    \* the deduplication tokens of the inserts it took
  applied,   \* Result.Applied
  rejected,  \* Result.Rejected
  status,    \* "writing", then "ok" or "failed"
  faults,    \* faults so far
  denied     \* an answer blamed no row: 401, 403, 404, ...

vars == <<batch, parts, phase, stored, tokens, applied, rejected, status, faults, denied>>

Contract ==
  INSTANCE SinkContract WITH batch <- batch, stored <- stored,
                             rejected <- rejected, status <- status

Elems(s) == {s[i] : i \in DOMAIN s}

\* A mutant: the token does not tell inserts of one length apart.
LengthToken(docs) == <<docs[1].key, Len(docs)>>

\* dedupToken.
Token(docs) == <<docs[1].key, docs[1].ver, docs[Len(docs)].ver, Len(docs)>>

Init ==
  /\ batch \in Batches
  /\ parts = <<[docs |-> batch, attempt |-> 1, depth |-> 1]>>
  /\ phase = "encode"
  /\ stored = [k \in Keys |->
                 IF \E d \in Elems(Earlier) : d.key = k
                   THEN (CHOOSE d \in Elems(Earlier) : d.key = k).ver ELSE 0]
  /\ tokens = IF Earlier = <<>> THEN {} ELSE {Token(Earlier)}
  /\ applied = 0 /\ rejected = {} /\ status = "writing" /\ faults = 0
  /\ denied = FALSE

Part == Head(parts)
GiveUp == status' = "failed" /\ UNCHANGED <<parts, phase>>
Fault == faults < MaxFaults /\ faults' = faults + 1

\* encodeRows: every document needs a body.
Encode ==
  /\ status = "writing" /\ phase = "encode"
  /\ IF \E d \in Elems(Part.docs) : d.body = "none"
       THEN GiveUp
       ELSE phase' = "post" /\ UNCHANGED <<parts, status>>
  /\ UNCHANGED <<batch, stored, tokens, applied, rejected, faults, denied>>

\* The part is written: go on with the next one, or return.
Done ==
  /\ parts' = Tail(parts)
  /\ phase' = "encode"
  /\ status' = IF Tail(parts) = <<>> THEN "ok" ELSE "writing"

\* The destination takes an insert, unless it has taken its token before.
Insert(docs) ==
  /\ stored' = IF Token(docs) \in tokens THEN stored
               ELSE Contract!Absorbed(Elems(docs))
  /\ tokens' = tokens \cup {Token(docs)}

Acceptable(docs) == Elems(docs) \cap Refused = {}

\* The insert succeeds.
Inserted ==
  /\ status = "writing" /\ phase = "post"
  /\ Acceptable(Part.docs)
  /\ Insert(Part.docs)
  /\ applied' = applied + Len(Part.docs)
  /\ Done
  /\ UNCHANGED <<batch, rejected, faults, denied>>

\* Every attempt Options.MaxAttempts allows has been made.
Spent == Part.attempt >= MaxAttempts

\* The request or its answer is lost, or the destination is busy.
PostFails ==
  /\ status = "writing" /\ phase = "post"
  /\ Fault
  /\ \/ Acceptable(Part.docs) /\ Insert(Part.docs)
     \/ UNCHANGED <<stored, tokens>>
  /\ IF Spent
       THEN GiveUp
       ELSE /\ parts' = <<[Part EXCEPT !.attempt = @ + 1]>> \o Tail(parts)
            /\ phase' = "wait"
            /\ UNCHANGED status
  /\ UNCHANGED <<batch, applied, rejected, denied>>

Half(docs, depth) == [docs |-> docs, attempt |-> 1, depth |-> depth]

\* A mutant: each half is written two levels down.
NarrowTwice ==
  LET mid == Len(Part.docs) \div 2
  IN  << Half(SubSeq(Part.docs, 1, mid), Part.depth + 2),
         Half(SubSeq(Part.docs, mid + 1, Len(Part.docs)), Part.depth + 2) >>

\* isolate, for more than one row: write each half one level down.
Narrow ==
  LET mid == Len(Part.docs) \div 2
  IN  << Half(SubSeq(Part.docs, 1, mid), Part.depth + 1),
         Half(SubSeq(Part.docs, mid + 1, Len(Part.docs)), Part.depth + 1) >>

\* A mutant: a refused insert is reported row by row without narrowing it.
RejectAll ==
  /\ rejected' = rejected \cup Elems(Part.docs)
  /\ Done

\* isolate: report a single row, give up at the depth limit, or narrow.
Isolate ==
  CASE Len(Part.docs) = 1 ->
         rejected' = rejected \cup Elems(Part.docs) /\ Done
    [] Len(Part.docs) > 1 /\ Part.depth >= MaxDepth ->
         GiveUp /\ UNCHANGED rejected
    [] OTHER ->
         /\ parts' = Narrow \o Tail(parts)
         /\ phase' = "encode"
         /\ UNCHANGED <<status, rejected>>

\* The destination refuses the insert for good.
InsertRefused ==
  /\ status = "writing" /\ phase = "post"
  /\ ~Acceptable(Part.docs)
  /\ Isolate
  /\ UNCHANGED <<batch, stored, tokens, applied, faults, denied>>

\* Any other status that is no success and asks for no retry, such as 401 or
\* 404, is taken for a refusal of the rows.
InsertDenied ==
  /\ status = "writing" /\ phase = "post"
  /\ Fault
  /\ Isolate
  /\ denied' = TRUE
  /\ UNCHANGED <<batch, stored, tokens, applied>>

\* wait: the backoff is over.
BackoffOver ==
  /\ status = "writing" /\ phase = "wait"
  /\ phase' = "post"
  /\ UNCHANGED <<batch, parts, stored, tokens, applied, rejected, status, faults, denied>>

\* wait: the context is done.
Cancelled ==
  /\ status = "writing" /\ phase = "wait"
  /\ Fault
  /\ GiveUp
  /\ UNCHANGED <<batch, stored, tokens, applied, rejected, denied>>

Returned == status # "writing" /\ UNCHANGED vars

Next ==
  \/ Encode \/ Inserted \/ PostFails \/ InsertRefused \/ InsertDenied
  \/ BackoffOver \/ Cancelled \/ Returned
==============================================================================
