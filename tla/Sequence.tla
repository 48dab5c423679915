------------------------------- MODULE Sequence -------------------------------
(***************************************************************************)
(* What a stream needs of its version numbers, over its whole life and     *)
(* across every restart: each one issued is greater than every one before. *)
(* A destination keeps the highest version it has seen for a key, so this  *)
(* is what makes the latest change win.                                    *)
(***************************************************************************)
EXTENDS Naturals

VARIABLES issued,  \* how many version numbers were issued
          last     \* the last one, 0 before the first

Init == issued = 0 /\ last = 0

Issue == issued' = issued + 1 /\ last' \in Nat /\ last' > last

Spec == Init /\ [][Issue]_<<issued, last>>
==============================================================================
