----------------------------- MODULE SinkContract -----------------------------
(***************************************************************************)
(* What sink.Sink promises the runner about one Write (internal/sink,      *)
(* sink.go): documents reach the destination in any order and any number   *)
(* of times, the destination keeps the highest version of a key, and Write *)
(* returns without an error only when every document is stored at its      *)
(* version or above, or is reported as refused.  Runner.tla's Settle,      *)
(* Refuse, WriteReturns and WriteFails are these steps one at a time.      *)
(***************************************************************************)
EXTENDS Naturals, Sequences

VARIABLES batch,     \* the documents of this Write
          stored,    \* destination: key -> version
          rejected,  \* documents reported as refused
          status     \* "writing", then "ok" or "failed"

vars == <<batch, stored, rejected, status>>

Docs == {batch[i] : i \in DOMAIN batch}

\* The destination after the documents of S reach it.
Absorbed(S) ==
  [k \in DOMAIN stored |->
     LET vs == {stored[k]} \cup {d.ver : d \in {x \in S : x.key = k}}
     IN  CHOOSE v \in vs : \A w \in vs : v >= w]

Init == status = "writing" /\ rejected = {}

\* Some documents reach the destination, some are refused for good.
Settle ==
  /\ status = "writing" /\ status' = "writing"
  /\ \E S \in SUBSET Docs : stored' = Absorbed(S)
  /\ rejected \subseteq rejected' /\ rejected' \subseteq Docs
  /\ UNCHANGED batch

\* Write accounts for every document.
Return ==
  /\ status = "writing" /\ status' = "ok"
  /\ \E S \in SUBSET Docs : stored' = Absorbed(S)
  /\ rejected \subseteq rejected' /\ rejected' \subseteq Docs
  /\ \A d \in Docs : stored'[d.key] >= d.ver \/ d \in rejected'
  /\ UNCHANGED batch

\* Write gives up; what it sent may have arrived.
Fail ==
  /\ status = "writing" /\ status' = "failed"
  /\ \E S \in SUBSET Docs : stored' = Absorbed(S)
  /\ rejected' \subseteq Docs
  /\ UNCHANGED batch

Next == Settle \/ Return \/ Fail

Spec == Init /\ [][Next]_vars
==============================================================================
