---------------------------- MODULE MCBatchFlow ----------------------------
(* BatchFlow with the sizes around both limits: a document below, at and   *)
(* above MaxBytes, one of no bytes, and row limits that Add reaches first. *)
EXTENDS BatchFlow

MCSizes == {0, 1, 3, 4, 5}
=============================================================================
