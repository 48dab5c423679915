---------------------------- MODULE MCScanPipeline ----------------------------
(* Five rows in chunks of two: the last chunk is short, one row cannot be  *)
(* transformed and one may be refused.                                     *)
EXTENDS ScanPipeline

MCTable == <<1, 1, 1, 1, 1>>
MCKeys == 1..5
MCBadRows == {2}
MCRefusable == {3}

\* A table whose size is a multiple of the chunk: the scan ends with an empty
\* chunk.
MCEvenTable == <<1, 1, 1, 1>>
MCEvenKeys == 1..4

\* Rows of two sizes, which overflow a batch before they fill it.
MCUnevenTable == <<2, 2>>
MCUnevenKeys == 1..2
MCNone == {}
=============================================================================
