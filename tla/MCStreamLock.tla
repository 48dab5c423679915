----------------------------- MODULE MCStreamLock -----------------------------
(* Two processes with both streams, and one with one of them (--stream).   *)
EXTENDS StreamLock

MCProcs == {"all", "again", "one"}
MCWants == [p \in MCProcs |-> IF p = "one" THEN {2} ELSE {1, 2}]
=============================================================================
