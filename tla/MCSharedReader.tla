---------------------------- MODULE MCSharedReader ----------------------------
(* Three streams on two tables, two of them on the same one.               *)
EXTENDS SharedReader

S(name, table) == [name |-> name, table |-> table]
MCStreams == <<S("a", "orders"), S("b", "items"), S("c", "orders")>>
MCOne == <<S("a", "orders")>>
MCSource == <<"orders", "items", "orders">>
=============================================================================
