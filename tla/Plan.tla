--------------------------------- MODULE Plan ---------------------------------
(***************************************************************************)
(* Plan.Apply of internal/pipeline/transform.go as an operator: the        *)
(* documents one change event becomes.  Values are left out; of a body     *)
(* only what it holds matters: every mapped field ("row"), the key fields  *)
(* ("key"), or nothing ("none").                                           *)
(***************************************************************************)
EXTENDS Naturals, Sequences

PlanDoc(key, ver, deleted, body) ==
  [key |-> key, ver |-> ver, deleted |-> deleted, body |-> body]

\* A delete names its row; ClickHouse needs the key columns in it.
DeleteDocs(ev, dialect) ==
  << PlanDoc(ev.before, ev.seq, TRUE,
             IF dialect = "clickhouse" THEN "key" ELSE "none") >>

\* An update that changes the key deletes the old document, then writes the new.
MoveDocs(ev) ==
  << PlanDoc(ev.before, ev.seq, TRUE, "none"),
     PlanDoc(ev.after, ev.seq, FALSE, "row") >>

\* Apply, for an event with the keys of its row before and after the change.
ApplyPlan(ev, dialect) ==
  CASE ev.op = "delete"                             -> DeleteDocs(ev, dialect)
    [] ev.op = "update" /\ ev.before # ev.after     -> MoveDocs(ev)
    [] OTHER -> << PlanDoc(ev.after, ev.seq, FALSE, "row") >>
==============================================================================
