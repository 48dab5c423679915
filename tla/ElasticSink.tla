------------------------------ MODULE ElasticSink ------------------------------
(***************************************************************************)
(* One Write of the Elasticsearch sink, internal/sink/elasticsearch/bulk.go*)
(* against a cluster that loses requests, answers late, asks for smaller   *)
(* requests or more time, and refuses documents.                           *)
(*                                                                         *)
(* Write calls itself for the halves of a request that is too large.  The  *)
(* calls still to be made are a queue of parts, each with its own attempt  *)
(* counter: a part that is too large is replaced by its halves, and an     *)
(* error in any part is the error of the whole.  Sinks.tla states what a   *)
(* Write promises and checks it.                                           *)
(***************************************************************************)
EXTENDS Naturals, Sequences, FiniteSets

CONSTANTS Batches,       \* the batches Write may be given: Seq([key, ver, deleted])
          Refused,       \* documents the cluster refuses for good
          Keys,          \* document keys
          MaxAttempts    \* Options.MaxAttempts

VARIABLES
  batch,     \* the documents of this Write
  parts,     \* the calls of Write still to be made: Seq([docs, attempt])
  phase,     \* "post" or "wait"
  stored,    \* the index: key -> version
  applied,   \* Result.Applied
  stale,     \* Result.Stale
  rejected,  \* Result.Rejected
  status     \* "writing", then "ok" or "failed"

vars == <<batch, parts, phase, stored, applied, stale, rejected, status>>

Contract ==
  INSTANCE SinkContract WITH batch <- batch, stored <- stored,
                             rejected <- rejected, status <- status

\* The cluster may hold any version of a key before the write.
Init ==
  /\ batch \in Batches
  /\ parts = <<[docs |-> batch, attempt |-> 1]>>
  /\ phase = "post"
  /\ stored \in [Keys -> {0, 2}]
  /\ applied = 0 /\ stale = 0 /\ rejected = {}
  /\ status = "writing"

Elems(s) == {s[i] : i \in DOMAIN s}
Part == Head(parts)

Posting == status = "writing" /\ phase = "post" /\ parts # <<>>

GiveUp == status' = "failed" /\ UNCHANGED <<parts, phase>>

\* A mutant: the last attempt is followed by another.
TryAgainForever(docs) ==
  /\ parts' = <<[docs |-> docs, attempt |-> Part.attempt]>> \o Tail(parts)
  /\ phase' = "wait"
  /\ UNCHANGED status

\* Every attempt Options.MaxAttempts allows has been made.
Spent == Part.attempt >= MaxAttempts

\* A retry, unless the attempts are spent.
TryAgain(docs) ==
  IF Spent
    THEN GiveUp
    ELSE /\ parts' = <<[docs |-> docs, attempt |-> Part.attempt + 1]>> \o Tail(parts)
         /\ phase' = "wait"
         /\ UNCHANGED status

\* The request or its answer is lost, the answer cannot be read, or the
\* cluster is busy: some documents may have been applied.
PostFails ==
  /\ Posting
  /\ \E S \in SUBSET (Elems(Part.docs) \ Refused) : stored' = Contract!Absorbed(S)
  /\ TryAgain(Part.docs)
  /\ UNCHANGED <<batch, applied, stale, rejected>>

\* A mutant: the second half of a request that is too large is forgotten.
FirstHalf ==
  LET mid == Len(Part.docs) \div 2
  IN  <<[docs |-> SubSeq(Part.docs, 1, mid), attempt |-> 1]>>

\* writeHalves: two calls of Write, each starting over.
Halves ==
  LET mid == Len(Part.docs) \div 2
  IN  << [docs |-> SubSeq(Part.docs, 1, mid), attempt |-> 1],
         [docs |-> SubSeq(Part.docs, mid + 1, Len(Part.docs)), attempt |-> 1] >>

\* Status 413: split the request, or fail when it holds one document.
TooLarge ==
  /\ Posting
  /\ IF Len(Part.docs) > 1
       THEN parts' = Halves \o Tail(parts) /\ UNCHANGED <<phase, status>>
       ELSE GiveUp
  /\ UNCHANGED <<batch, stored, applied, stale, rejected>>

\* Status 401, 403 and the other 4xx; or an answer that does not describe
\* every document.
Denied ==
  /\ Posting
  /\ GiveUp
  /\ \E S \in SUBSET (Elems(Part.docs) \ Refused) : stored' = Contract!Absorbed(S)
  /\ UNCHANGED <<batch, applied, stale, rejected>>

\* The documents of a part that are in I, in order.
Pick(docs, I) ==
  LET kept == {i \in DOMAIN docs : docs[i] \in I}
  IN  [n \in 1..Cardinality(kept) |->
         docs[CHOOSE i \in kept : Cardinality({j \in kept : j <= i}) = n]]

\* Status 2xx and an item for every document.  busy are the items the cluster
\* had no capacity for; of the others the refused are reported, and those whose
\* key is already at their version or above are stale (409, or 404 for the
\* delete of an absent document).
Answered ==
  /\ Posting
  /\ \E busy \in SUBSET Elems(Part.docs) :
       LET taken == Elems(Part.docs) \ busy
           old   == {d \in taken \ Refused : stored[d.key] >= d.ver}
           gone  == {d \in taken \ (Refused \cup old) : d.deleted /\ stored[d.key] = 0}
           retry == Pick(Part.docs, busy)
       IN  /\ stored' = Contract!Absorbed(taken \ Refused)
           /\ applied' = applied + Len(Part.docs) - Len(retry)
                           - Cardinality(old \cup gone \cup (taken \cap Refused))
           /\ stale' = stale + Cardinality(old \cup gone)
           /\ rejected' = rejected \cup (taken \cap Refused)
           /\ IF retry # <<>>
                THEN TryAgain(retry)
                ELSE /\ parts' = Tail(parts)
                     /\ status' = IF Tail(parts) = <<>> THEN "ok" ELSE "writing"
                     /\ UNCHANGED phase
  /\ UNCHANGED batch

\* wait: the backoff is over.
BackoffOver ==
  /\ status = "writing" /\ phase = "wait"
  /\ phase' = "post"
  /\ UNCHANGED <<batch, parts, stored, applied, stale, rejected, status>>

\* wait: the context is done.
Cancelled ==
  /\ status = "writing" /\ phase = "wait"
  /\ GiveUp
  /\ UNCHANGED <<batch, stored, applied, stale, rejected>>

Returned == status # "writing" /\ UNCHANGED vars

Next ==
  \/ PostFails \/ TooLarge \/ Denied \/ Answered \/ BackoffOver \/ Cancelled
  \/ Returned
==============================================================================
