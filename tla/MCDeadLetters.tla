---------------------------- MODULE MCDeadLetters ----------------------------
(* Files that are full after three records; batches of one or two.         *)
EXTENDS DeadLetters
=============================================================================
