-------------------------- MODULE MCBinlogPipeline --------------------------
(* Two row transactions and a DDL between them, over two keys: a key       *)
(* changed twice, an update that moves a row to another key and fills a    *)
(* batch, a row the plan refuses and a document the destination refuses.   *)
EXTENDS BinlogPipeline

D(key, size) == [key |-> key, size |-> size]
E(kind, tx, docs, plan) == [kind |-> kind, tx |-> tx, docs |-> docs, plan |-> plan]

MCBinlog == <<
  E("gtid", 1, <<>>, "ok"),
  E("rows", 1, <<D("a", 2), D("b", 3)>>, "ok"),
  E("rows", 1, <<D("b", 1)>>, "error"),
  E("xid", 1, <<>>, "ok"),
  E("gtid", 2, <<>>, "ok"),
  E("query", 2, <<>>, "ok"),
  E("gtid", 3, <<>>, "ok"),
  E("rows", 3, <<D("a", 1)>>, "ok"),
  E("xid", 3, <<>>, "ok") >>

MCRefusable == {2}

\* A shorter binlog of three row transactions.
MCShortBinlog == <<
  E("gtid", 1, <<>>, "ok"),
  E("rows", 1, <<D("a", 1)>>, "ok"),
  E("xid", 1, <<>>, "ok"),
  E("gtid", 2, <<>>, "ok"),
  E("rows", 2, <<D("a", 1), D("b", 2)>>, "ok"),
  E("xid", 2, <<>>, "ok"),
  E("gtid", 3, <<>>, "ok"),
  E("rows", 3, <<D("b", 1)>>, "ok"),
  E("xid", 3, <<>>, "ok") >>

\* A transaction on a table without an XID event: it ends with a COMMIT query.
MCPlainBinlog == <<
  E("gtid", 1, <<>>, "ok"),
  E("rows", 1, <<D("a", 1)>>, "ok"),
  E("query", 1, <<>>, "ok"),
  E("gtid", 2, <<>>, "ok"),
  E("rows", 2, <<D("a", 1)>>, "ok"),
  E("xid", 2, <<>>, "ok"),
  E("gtid", 3, <<>>, "ok"),
  E("rows", 3, <<D("b", 1)>>, "ok"),
  E("xid", 3, <<>>, "ok") >>

MCNone == {}
=============================================================================
