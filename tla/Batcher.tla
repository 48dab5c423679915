------------------------------- MODULE Batcher -------------------------------
(***************************************************************************)
(* The batcher of internal/pipeline/batcher.go as pure operators.  A batch *)
(* holds the pending documents in arrival order and the bytes they add up  *)
(* to; Add takes one document and says what stays pending and what is      *)
(* handed to the caller.  A document is a record with at least a "size"    *)
(* field.  The empty sequence stands for the nil batch of the code.        *)
(***************************************************************************)
EXTENDS Naturals, Sequences

CONSTANTS MaxRows,   \* Limits.MaxRows
          MaxBytes   \* Limits.MaxBytes

\* NewBatcher refuses limits that could never work.
ASSUME LimitsAssumption == MaxRows \in Nat \ {0} /\ MaxBytes \in Nat \ {0}

EmptyBatch == [docs |-> <<>>, bytes |-> 0]

\* append: one more document at the end of the pending batch.
Appended(b, d) == [docs |-> Append(b.docs, d), bytes |-> b.bytes + d.size]

\* A document as large as a whole batch leaves together with what is pending.
Oversized(b, d) == d.size >= MaxBytes /\ b.docs # <<>>

\* The pending documents must leave before this one fits.
Overflows(b, d) == b.docs # <<>> /\ b.bytes + d.size > MaxBytes

\* A mutant: a batch that is exactly full waits for one document more.
CompletesLate(b, d) ==
  LET grown == Appended(b, d)
  IN  Len(grown.docs) > MaxRows \/ grown.bytes > MaxBytes

\* The batch this document completes is due at once.
Completes(b, d) ==
  LET grown == Appended(b, d)
  IN  Len(grown.docs) >= MaxRows \/ grown.bytes >= MaxBytes

\* A mutant: the flush before an overflowing document forgets that document.
AddDropsOverflowing(b, d) ==
  CASE Oversized(b, d)                       -> [keep |-> EmptyBatch, out |-> Appended(b, d).docs]
    [] Overflows(b, d) /\ ~Oversized(b, d)   -> [keep |-> EmptyBatch, out |-> b.docs]
    [] ~Overflows(b, d) /\ Completes(b, d) /\ ~Oversized(b, d)
                                             -> [keep |-> EmptyBatch, out |-> Appended(b, d).docs]
    [] OTHER                                 -> [keep |-> Appended(b, d), out |-> <<>>]

\* Add: [keep] stays pending, [out] is returned to the caller.
Add(b, d) ==
  CASE Oversized(b, d)
         -> [keep |-> EmptyBatch, out |-> Appended(b, d).docs]
    [] Overflows(b, d) /\ ~Oversized(b, d)
         -> [keep |-> Appended(EmptyBatch, d), out |-> b.docs]
    [] Completes(b, d) /\ ~Overflows(b, d) /\ ~Oversized(b, d)
         -> [keep |-> EmptyBatch, out |-> Appended(b, d).docs]
    [] OTHER
         -> [keep |-> Appended(b, d), out |-> <<>>]
==============================================================================
