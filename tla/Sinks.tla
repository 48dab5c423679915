--------------------------------- MODULE Sinks ---------------------------------
(***************************************************************************)
(* One Write of a stream's sink.  stream.Sink.Type (buildSink, build.go)   *)
(* says which of the two it is; the runner calls either through sink.Sink  *)
(* and relies on the same promise, SinkContract.                           *)
(***************************************************************************)
EXTENDS Naturals, Sequences, FiniteSets

CONSTANTS
  Kinds,              \* the sinks to consider
  ElasticBatches,     \* the batches Write may be given, as Plan.Apply makes
  ClickHouseBatches,  \*   them for each sink: Seq([key, ver, deleted, body])
  Earlier,            \* an insert ClickHouse already took, <<>> for none
  Refused,            \* documents the destination refuses for good
  Keys,               \* document keys
  MaxAttempts,        \* Options.MaxAttempts
  MaxDepth,           \* maxIsolationDepth
  MaxFaults           \* bound: faults of the ClickHouse server

\* cdc.Doc.  Of a body only what it holds matters, as in Plan.
SinkDoc == [key : Keys, ver : Nat, deleted : BOOLEAN, body : {"row", "key", "none"}]

\* The runner writes no empty batch.
ASSUME SinksAssumption ==
  /\ Kinds \subseteq {"elasticsearch", "clickhouse"}
  /\ MaxAttempts \in Nat \ {0} /\ MaxDepth \in Nat \ {0} /\ MaxFaults \in Nat
  /\ ElasticBatches \cup ClickHouseBatches \subseteq Seq(SinkDoc) \ {<<>>}
  /\ Earlier \in Seq(SinkDoc)

VARIABLES
  kind,      \* stream.Sink.Type
  batch, parts, phase, stored, applied, rejected, status,
  stale,     \* of Elasticsearch alone
  tokens, faults, denied  \* of ClickHouse alone

ofElastic == <<stale>>
ofClickHouse == <<tokens, faults, denied>>
vars == <<kind, batch, parts, phase, stored, applied, rejected, status,
          ofElastic, ofClickHouse>>

Elastic == INSTANCE ElasticSink WITH Batches <- ElasticBatches
ClickHouse == INSTANCE ClickHouseSink WITH Batches <- ClickHouseBatches

\* buildSink.
Init ==
  /\ kind \in Kinds
  /\ \/ kind = "elasticsearch" /\ Elastic!Init
        /\ tokens = {} /\ faults = 0 /\ denied = FALSE
     \/ kind = "clickhouse" /\ ClickHouse!Init /\ stale = 0

Next ==
  /\ \/ kind = "elasticsearch" /\ Elastic!Next /\ UNCHANGED ofClickHouse
     \/ kind = "clickhouse" /\ ClickHouse!Next /\ UNCHANGED ofElastic
  /\ UNCHANGED kind

Spec == Init /\ [][Next]_vars

\* Requests time out and timers fire.
FairSpec == Spec /\ WF_vars(Next)

-----------------------------------------------------------------------------
Contract ==
  INSTANCE SinkContract WITH batch <- batch, stored <- stored,
                             rejected <- rejected, status <- status

\* One Write of either sink is one Write of the contract, however requests are
\* split, retried and narrowed, and although ClickHouse ignores inserts it
\* believes it has taken before: Write succeeds only when every document is
\* stored at its version or above, or is reported as refused.
MeetsContract == Contract!Spec

\* Every document is counted exactly once, whatever is retried, split and
\* narrowed on the way: one whose part is still to be written is not counted
\* yet, so that a retry cannot count it twice, and a Write that succeeds has
\* counted all of them, which Runner.write checks with Total.
Accounts ==
  LET waiting[i \in 0..Len(parts)] ==
        IF i = 0 THEN 0 ELSE waiting[i - 1] + Len(parts[i].docs)
  IN  status # "failed" =>
        applied + stale + Cardinality(rejected) + waiting[Len(parts)] = Len(batch)

\* Rows that are written in one request share no fate: those reported are the
\* ones at fault, and a row that shares a request with a bad one is written.
\* isolate can tell only while the server blames rows.
OnlyTheRefused == ~denied => rejected \subseteq Refused

\* The same, whatever the server answers.
OnlyTheRefusedEver == rejected \subseteq Refused

\* What Plan.Apply made can be written: a Write to ClickHouse fails only after
\* the server or the connection did.  Narrowing reaches single rows before its
\* depth is spent, whichever rows are bad; the exception is a batch with the
\* document without a body that a change of key leaves.
FailsOnlyOnFault ==
  kind = "clickhouse" /\ status = "failed" =>
    faults > 0 \/ \E d \in ClickHouse!Elems(batch) : d.body = "none"

\* The same without the exception.
EveryBatchIsWritable == kind = "clickhouse" /\ status = "failed" => faults > 0

\* Write returns: halving, narrowing and retrying end.
WriteReturns == <>(status # "writing")
================================================================================
