----------------------------- MODULE MCLifecycle -----------------------------
(* Two tables, of which one is scanned and the other only followed; the    *)
(* source may change, add and delete rows at any time.                     *)
EXTENDS Lifecycle

C(s, k, op) == [stream |-> s, key |-> k, op |-> op]

MCInitial == <<C(1, 1, "put")>>
MCChanges == {C(1, 1, "put"), C(1, 2, "put"), C(1, 2, "delete"), C(2, 1, "put")}

MCOneKey == {C(1, 1, "put")}
MCFirst == {1}
MCSecond == {C(2, 1, "put"), C(2, 2, "put")}
MCBoth == {1, 2}

\* Two streams: the second one's table changes while it is scanned.
MCInitial2 == <<C(1, 1, "put"), C(2, 1, "put")>>
MCChanges2 == {C(2, 1, "put"), C(1, 1, "put")}
=============================================================================
