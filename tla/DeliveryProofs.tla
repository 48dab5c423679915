---------------------------- MODULE DeliveryProofs ----------------------------
(***************************************************************************)
(* Proofs about what carries a document to its destination: the batcher    *)
(* (BatchFlow.tla), one Write of either sink (Sinks.tla) and the dead      *)
(* letter queue (DeadLetters.tla).                                         *)
(*                                                                         *)
(* The three have sums in common: the bytes of a batch, the documents      *)
(* still to be written and the size of a file are recursive functions,     *)
(* and the first part proves how such a sum grows.                         *)
(***************************************************************************)
EXTENDS BatchFlow, DeadLetters, Sinks, SequenceTheorems, FiniteSetTheorems,
        WellFoundedInduction, TLAPS

-----------------------------------------------------------------------------
(***************************************************************************)
(* Sums over a sequence.                                                   *)
(***************************************************************************)
\* A set of naturals has a least member.
LEMMA LeastExists ==
  ASSUME NEW T \in SUBSET Nat, T # {}
  PROVE  \E x \in T : \A y \in T : x <= y
  <1>1. PICK x \in T : \A y \in T : ~ (<<y, x>> \in OpToRel(<, Nat))
    BY NatLessThanWellFounded, WFMin, Zenon
  <1>2. \A y \in T : <<y, x>> \in OpToRel(<, Nat) <=> y < x
    BY DEF OpToRel
  <1>3. \A y \in T : ~ (y < x)
    BY <1>1, <1>2, Zenon
  <1>4. \A y \in T : x <= y
    BY <1>3
  <1> QED
    BY <1>4

\* Induction over the naturals up to n, for a set.
LEMMA UpTo ==
  ASSUME NEW n \in Nat, NEW T, 0 \in T,
         \A i \in 0..(n - 1) : i \in T => i + 1 \in T
  PROVE  0..n \subseteq T
  <1> SUFFICES ASSUME ~ (0..n \subseteq T) PROVE FALSE
    OBVIOUS
  <1> DEFINE D == {i \in 0..n : i \notin T}
  <1>1. D \in SUBSET Nat /\ D # {}
    OBVIOUS
  <1> HIDE DEF D
  <1>2. PICK x \in D : \A y \in D : x <= y
    BY <1>1, LeastExists
  <1>3. x \in 0..n /\ x \notin T /\ x # 0
    BY DEF D
  <1>4. x - 1 \in 0..(n - 1) /\ x - 1 \in 0..n /\ ~ (x <= x - 1) /\ (x - 1) + 1 = x
    BY <1>3
  <1>5. x - 1 \notin D
    BY <1>2, <1>4
  <1>6. x - 1 \in T
    BY <1>4, <1>5 DEF D
  <1> QED
    BY <1>3, <1>4, <1>6

\* f holds the partial sums of w.
Sums(f, w, n) ==
  f = [i \in 0..n |-> IF i = 0 THEN 0 ELSE f[i - 1] + w[i]]

Total(w, n) == (CHOOSE f : Sums(f, w, n))[n]

\* Such a function exists, whatever is summed.
LEMMA SumsExist ==
  ASSUME NEW n \in Nat, NEW w
  PROVE  \E f : Sums(f, w, n)
  <1> DEFINE T == {m \in Nat : \E f : Sums(f, w, m)}
  <1>1. 0 \in T
    <2> DEFINE f == [i \in 0..0 |-> 0]
    <2>1. f = [i \in 0..0 |-> IF i = 0 THEN 0 ELSE f[i - 1] + w[i]]
      OBVIOUS
    <2> QED
      BY <2>1 DEF Sums
  <1>2. ASSUME NEW m \in 0..(n - 1), m \in T PROVE m + 1 \in T
    <2>1. PICK f : Sums(f, w, m)
      BY <1>2
    <2> DEFINE g == [i \in 0..(m + 1) |-> IF i <= m THEN f[i] ELSE f[m] + w[m + 1]]
    <2>2. ASSUME NEW i \in 0..(m + 1)
          PROVE  g[i] = IF i = 0 THEN 0 ELSE g[i - 1] + w[i]
      <3>1. CASE i = 0
        BY <2>1, <3>1 DEF Sums
      <3>2. CASE i \in 1..m
        <4>1. f[i] = f[i - 1] + w[i]
          BY <2>1, <3>2 DEF Sums
        <4>2. g[i] = f[i] /\ g[i - 1] = f[i - 1]
          BY <3>2
        <4> QED
          BY <3>2, <4>1, <4>2
      <3>3. CASE i = m + 1
        <4>1. g[i] = f[m] + w[m + 1] /\ g[i - 1] = f[m]
          BY <3>3
        <4> QED
          BY <3>3, <4>1
      <3> QED
        BY <3>1, <3>2, <3>3
    <2>3. g = [i \in 0..(m + 1) |-> IF i = 0 THEN 0 ELSE g[i - 1] + w[i]]
      BY <2>2
    <2> HIDE DEF g
    <2>4. Sums(g, w, m + 1)
      BY <2>3 DEF Sums
    <2> QED
      BY <2>4
  <1> HIDE DEF T
  <1>3. 0..n \subseteq T
    BY <1>1, <1>2, UpTo
  <1> QED
    BY <1>3 DEF T

\* Sums of different lengths agree as far as both go.
LEMMA SumsAgree ==
  ASSUME NEW k \in Nat, NEW m \in Nat, k <= m,
         NEW w, NEW f, Sums(f, w, k), NEW g, Sums(g, w, m)
  PROVE  f[k] = g[k]
  <1> DEFINE T == {i \in 0..k : f[i] = g[i]}
  <1>1. /\ f[0] = 0 /\ g[0] = 0
        /\ \A i \in 1..k : f[i] = f[i - 1] + w[i] /\ g[i] = g[i - 1] + w[i]
    BY DEF Sums
  <1>2. 0 \in T
    BY <1>1
  <1>3. ASSUME NEW i \in 0..(k - 1), i \in T PROVE i + 1 \in T
    <2>1. i + 1 \in 1..k /\ (i + 1) - 1 = i
      OBVIOUS
    <2> QED
      BY <1>1, <1>3, <2>1
  <1> HIDE DEF T
  <1>4. 0..k \subseteq T
    BY <1>2, <1>3, UpTo
  <1> QED
    BY <1>4 DEF T

\* The total is the last partial sum.
LEMMA TotalIs ==
  ASSUME NEW n \in Nat, NEW w, NEW f, Sums(f, w, n)
  PROVE  f[n] = Total(w, n)
  <1> DEFINE g == CHOOSE h : Sums(h, w, n)
  <1>1. Sums(g, w, n)
    BY SumsExist
  <1> HIDE DEF g
  <1>2. n <= n
    OBVIOUS
  <1>3. f[n] = g[n]
    BY <1>1, <1>2, SumsAgree
  <1> QED
    BY <1>3 DEF g, Total

\* The total grows by the next summand.
LEMMA TotalFacts ==
  ASSUME NEW n \in Nat, NEW w
  PROVE  /\ Total(w, 0) = 0
         /\ Total(w, n + 1) = Total(w, n) + w[n + 1]
         /\ (\A i \in 1..n : w[i] \in Nat) => Total(w, n) \in Nat
  <1>1. PICK f : Sums(f, w, n + 1)
    BY SumsExist
  <1>2. PICK g : Sums(g, w, n)
    BY SumsExist
  <1>3. f[n + 1] = f[n] + w[n + 1] /\ g[0] = 0
        /\ \A i \in 1..n : g[i] = g[i - 1] + w[i]
    <2>1. (n + 1) - 1 = n /\ n + 1 \in 0..(n + 1) /\ n + 1 # 0
      OBVIOUS
    <2> QED
      BY <1>1, <1>2, <2>1 DEF Sums
  <1>4. f[n] = g[n]
    <2>1. n + 1 \in Nat /\ n <= n + 1
      OBVIOUS
    <2>2. g[n] = f[n]
      BY <1>1, <1>2, <2>1, SumsAgree
    <2> QED
      BY <2>2
  <1>5. f[n + 1] = Total(w, n + 1) /\ g[n] = Total(w, n)
    BY <1>1, <1>2, TotalIs
  <1>6. Total(w, 0) = 0
    <2>1. PICK h : Sums(h, w, 0)
      BY SumsExist
    <2>2. h[0] = 0
      BY <2>1 DEF Sums
    <2> QED
      BY <2>1, <2>2, TotalIs
  <1>7. ASSUME \A i \in 1..n : w[i] \in Nat PROVE g[n] \in Nat
    <2> DEFINE T == {i \in 0..n : g[i] \in Nat}
    <2>1. 0 \in T
      BY <1>3
    <2>2. ASSUME NEW i \in 0..(n - 1), i \in T PROVE i + 1 \in T
      <3>1. i + 1 \in 1..n /\ (i + 1) - 1 = i
        OBVIOUS
      <3> QED
        BY <1>3, <1>7, <2>2, <3>1
    <2> HIDE DEF T
    <2>3. 0..n \subseteq T
      BY <2>1, <2>2, UpTo
    <2> QED
      BY <2>3 DEF T
  <1> QED
    BY <1>3, <1>4, <1>5, <1>6, <1>7

\* What agrees has the same total.
LEMMA TotalAgrees ==
  ASSUME NEW n \in Nat, NEW w, NEW v, \A i \in 1..n : w[i] = v[i]
  PROVE  Total(w, n) = Total(v, n)
  <1>1. PICK f : Sums(f, w, n)
    BY SumsExist
  <1>2. Sums(f, v, n)
    BY <1>1 DEF Sums
  <1> QED
    BY <1>1, <1>2, TotalIs

\* The total of one after the other.
LEMMA TotalSplits ==
  ASSUME NEW n \in Nat, NEW m \in Nat, NEW w, NEW v,
         \A i \in 1..(n + m) : w[i] \in Nat,
         \A i \in 1..m : w[n + i] = v[i]
  PROVE  Total(w, n + m) = Total(w, n) + Total(v, m)
  <1> DEFINE T == {i \in 0..m : Total(w, n + i) = Total(w, n) + Total(v, i)}
  <1>1. Total(w, n) \in Nat /\ n + 0 = n
    BY TotalFacts
  <1>2. 0 \in T
    <2>1. Total(v, 0) = 0
      BY TotalFacts
    <2> QED
      BY <1>1, <2>1
  <1>3. ASSUME NEW i \in 0..(m - 1), i \in T PROVE i + 1 \in T
    <2>1. i \in Nat /\ n + i \in Nat /\ (n + i) + 1 = n + (i + 1) /\ i + 1 \in 1..m /\ n + (i + 1) \in 1..(n + m)
      OBVIOUS
    <2>2. Total(w, n + (i + 1)) = Total(w, n + i) + w[n + (i + 1)]
      BY <2>1, TotalFacts
    <2>3. Total(v, i + 1) = Total(v, i) + v[i + 1] /\ v[i + 1] = w[n + (i + 1)]
      BY <2>1, TotalFacts
    <2>4. \A j \in 1..i : v[j] \in Nat
      <3>1. \A j \in 1..i : j \in 1..m /\ n + j \in 1..(n + m)
        BY <2>1
      <3> QED
        BY <3>1
    <2>5. Total(v, i) \in Nat /\ v[i + 1] \in Nat
      BY <2>1, <2>3, <2>4, TotalFacts
    <2> QED
      BY <1>1, <1>3, <2>1, <2>2, <2>3, <2>5
  <1> HIDE DEF T
  <1>4. 0..m \subseteq T
    BY <1>2, <1>3, UpTo
  <1> QED
    BY <1>4 DEF T

-----------------------------------------------------------------------------
(***************************************************************************)
(* The batcher.                                                            *)
(***************************************************************************)
BatchType == [docs : Seq(Doc), bytes : Nat]

\* What Add hands over followed by what it keeps is what was pending followed
\* by the new document, whichever branch it takes.
LEMMA AddKeepsOrder ==
  ASSUME NEW b \in BatchType, NEW d \in Doc
  PROVE  /\ Add(b, d).keep \in BatchType
         /\ Add(b, d).out \in Seq(Doc)
         /\ Add(b, d).out \o Add(b, d).keep.docs = Append(b.docs, d)
  <1>1. b.docs \in Seq(Doc) /\ b.bytes \in Nat /\ d.size \in Nat
    BY DEF BatchType, Doc
  <1>2. Appended(b, d) \in BatchType /\ Appended(b, d).docs = Append(b.docs, d)
    BY <1>1 DEF Appended, BatchType
  <1>3. EmptyBatch \in BatchType /\ EmptyBatch.docs = <<>>
    BY DEF EmptyBatch, BatchType
  <1>4. /\ Appended(EmptyBatch, d) \in BatchType
        /\ Appended(EmptyBatch, d).docs = <<d>>
    BY <1>1, <1>3 DEF Appended, EmptyBatch, BatchType
  <1>5. \/ Add(b, d) = [keep |-> EmptyBatch, out |-> Appended(b, d).docs]
        \/ Add(b, d) = [keep |-> Appended(EmptyBatch, d), out |-> b.docs]
        \/ Add(b, d) = [keep |-> Appended(b, d), out |-> <<>>]
    BY DEF Add
  <1>6. Append(b.docs, d) \in Seq(Doc)
    BY <1>1, AppendProperties
  <1>7. CASE Add(b, d) = [keep |-> EmptyBatch, out |-> Appended(b, d).docs]
    <2>1. Append(b.docs, d) \o <<>> = Append(b.docs, d)
      BY <1>6, ConcatEmptySeq
    <2>2. Add(b, d).keep = EmptyBatch /\ Add(b, d).out = Append(b.docs, d)
      BY <1>2, <1>7
    <2> QED
      BY <1>3, <1>6, <2>1, <2>2, Zenon
  <1>8. CASE Add(b, d) = [keep |-> Appended(EmptyBatch, d), out |-> b.docs]
    <2>1. b.docs \o <<d>> = Append(b.docs, d)
      BY <1>1, AppendIsConcat
    <2>2. Add(b, d).keep = Appended(EmptyBatch, d) /\ Add(b, d).out = b.docs
      BY <1>8
    <2> QED
      BY <1>1, <1>4, <2>1, <2>2, Zenon
  <1>9. CASE Add(b, d) = [keep |-> Appended(b, d), out |-> <<>>]
    <2>1. <<>> \o Append(b.docs, d) = Append(b.docs, d)
      BY <1>6, ConcatEmptySeq
    <2> QED
      BY <1>2, <1>6, <1>9, <2>1
  <1> QED
    BY <1>5, <1>7, <1>8, <1>9

\* Hand-overs may be joined in any grouping.
LEMMA HandOversAssociate ==
  \A s, t, u \in Seq(Doc) : (s \o t) \o u = s \o (t \o u)
  BY ConcatAssociative

\* Every step keeps the types and the order.
LEMMA FlowStep ==
  ASSUME FlowTypeOK, OrderKept, [FlowNext]_flowVars
  PROVE  FlowTypeOK' /\ OrderKept'
  <1> USE LimitsAssumption, FlowAssumption DEF LimitsAssumption, FlowAssumption
  <1>1. ASSUME NEW bytes \in Sizes, Offer(bytes) PROVE FlowTypeOK' /\ OrderKept'
    <2> DEFINE d == [n |-> Len(given) + 1, size |-> bytes, at |-> now]
               r == Add(pending, d)
    <2>1. d \in Doc /\ pending \in BatchType /\ returned \in Seq(Doc) /\ given \in Seq(Doc)
      BY DEF FlowTypeOK, Doc, BatchType
    <2>2. /\ given' = Append(given, d) /\ pending' = r.keep
          /\ startedAt' = StartedAtFor(r.keep)
          /\ returned' = returned \o r.out /\ last' = r.out /\ now' = now
      BY <1>1 DEF Offer, HandOver
    <2> HIDE DEF d
    <2>3. /\ r.keep \in BatchType /\ r.out \in Seq(Doc)
          /\ r.out \o r.keep.docs = Append(pending.docs, d)
      BY <2>1, AddKeepsOrder
    <2> HIDE DEF r
    <2>4. r.keep.docs \in Seq(Doc) /\ pending.docs \in Seq(Doc)
      BY <2>1, <2>3 DEF BatchType
    <2>5. Append(returned \o pending.docs, d) = (returned \o r.out) \o r.keep.docs
      <3> DEFINE p == pending.docs
                 out == r.out
                 keep == r.keep.docs
      <3>1. /\ returned \in Seq(Doc) /\ p \in Seq(Doc) /\ <<d>> \in Seq(Doc)
            /\ out \in Seq(Doc) /\ keep \in Seq(Doc)
        BY <2>1, <2>3, <2>4
      <3>2. out \o keep = Append(p, d)
        BY <2>3
      <3> HIDE DEF p, out, keep
      <3>3. Append(returned \o p, d) = (returned \o p) \o <<d>>
        BY <2>1, <3>1, AppendIsConcat, ConcatProperties
      <3>4. Append(p, d) = p \o <<d>>
        BY <2>1, <3>1, AppendIsConcat
      <3>5. (returned \o p) \o <<d>> = returned \o (p \o <<d>>)
        BY <3>1, HandOversAssociate, Zenon
      <3>6. (returned \o out) \o keep = returned \o (out \o keep)
        BY <3>1, HandOversAssociate, Zenon
      <3>7. Append(returned \o p, d) = (returned \o out) \o keep
        BY <3>2, <3>3, <3>4, <3>5, <3>6, Zenon
      <3> QED
        BY <3>7 DEF p, out, keep
    <2>8. OrderKept'
      BY <2>2, <2>5, Zenon DEF OrderKept
    <2>6. given' \in Seq(Doc) /\ returned' \in Seq(Doc)
      BY <2>1, <2>2, <2>3, AppendProperties, ConcatProperties
    <2>7. startedAt' \in 0..now
      BY <2>2, <2>4 DEF StartedAtFor, FlowTypeOK
    <2> QED
      BY <2>1, <2>2, <2>3, <2>6, <2>7, <2>8 DEF FlowTypeOK, BatchType
  <1>2. CASE Flush
    <2>1. pending.docs \in Seq(Doc) /\ returned \in Seq(Doc)
      BY DEF FlowTypeOK
    <2>2. /\ returned' = returned \o pending.docs /\ last' = pending.docs
          /\ pending' = EmptyBatch /\ startedAt' = 0 /\ now' = now /\ given' = given
      BY <1>2 DEF Flush, HandOver
    <2>3. returned' \in Seq(Doc)
      BY <2>1, <2>2, ConcatProperties
    <2>4. returned' \o <<>> = returned'
      BY <2>3, ConcatEmptySeq
    <2>5. EmptyBatch.docs = <<>> /\ EmptyBatch \in BatchType
      BY DEF EmptyBatch, BatchType
    <2>6. OrderKept'
      BY <2>2, <2>4, <2>5 DEF OrderKept
    <2> QED
      BY <2>1, <2>2, <2>3, <2>5, <2>6 DEF FlowTypeOK, BatchType
  <1>3. CASE Pass
    BY <1>3 DEF Pass, FlowTypeOK, OrderKept
  <1>4. CASE UNCHANGED flowVars
    BY <1>4 DEF flowVars, FlowTypeOK, OrderKept
  <1> QED
    BY <1>1, <1>2, <1>3, <1>4 DEF FlowNext

LEMMA FlowInvariant ==
  FlowSpec => [](FlowTypeOK /\ OrderKept)
  <1>1. FlowInit => FlowTypeOK /\ OrderKept
    <2> SUFFICES ASSUME FlowInit PROVE FlowTypeOK /\ OrderKept
      OBVIOUS
    <2>1. EmptyBatch.docs = <<>> /\ EmptyBatch \in BatchType
      BY DEF EmptyBatch, BatchType
    <2>2. <<>> \in Seq(Doc) /\ <<>> \o <<>> = <<>>
      BY ConcatEmptySeq
    <2> QED
      BY <2>1, <2>2 DEF FlowInit, FlowTypeOK, OrderKept, BatchType
  <1>2. FlowTypeOK /\ OrderKept /\ [FlowNext]_flowVars => (FlowTypeOK /\ OrderKept)'
    BY FlowStep
  <1> QED
    BY <1>1, <1>2, PTL DEF FlowSpec

\* The batcher's state stays well typed.
THEOREM BatchFlowTypeOK == FlowSpec => []FlowTypeOK
  BY FlowInvariant, PTL

\* Add and Flush hand over every document once and in arrival order, for all
\* limits and all document sizes.
THEOREM BatchFlowOrderKept == FlowSpec => []OrderKept
  BY FlowInvariant, PTL

-----------------------------------------------------------------------------
(***************************************************************************)
(* The deadline and the limits.  startedAt is the arrival of the oldest    *)
(* pending document, which is why DueForFlush may compare it with the      *)
(* clock; what is pending is below both limits, which is why a document    *)
(* that starts a new batch never completes one.                            *)
(***************************************************************************)
\* The reference sum is a total.
LEMMA BytesAreTotal ==
  ASSUME NEW s \in Seq(Doc)
  PROVE  BytesOf(s) = Total([i \in 1..Len(s) |-> s[i].size], Len(s))
  <1> DEFINE w == [i \in 1..Len(s) |-> s[i].size]
             sum == CHOOSE f : f = [i \in 0..Len(s) |-> IF i = 0 THEN 0 ELSE f[i - 1] + s[i].size]
  <1>0. Len(s) \in Nat
    BY LenProperties
  <1>1. \A f : f = [i \in 0..Len(s) |-> IF i = 0 THEN 0 ELSE f[i - 1] + s[i].size] <=> Sums(f, w, Len(s))
    <2> SUFFICES ASSUME NEW f
                 PROVE  [i \in 0..Len(s) |-> IF i = 0 THEN 0 ELSE f[i - 1] + s[i].size]
                          = [i \in 0..Len(s) |-> IF i = 0 THEN 0 ELSE f[i - 1] + w[i]]
      BY DEF Sums
    <2>1. \A i \in 0..Len(s) : i # 0 => w[i] = s[i].size
      BY <1>0
    <2> QED
      BY <2>1
  <1>2. Sums(sum, w, Len(s))
    BY <1>0, <1>1, SumsExist
  <1>3. BytesOf(s) = sum[Len(s)]
    BY DEF BytesOf
  <1> QED
    BY <1>0, <1>2, <1>3, TotalIs

\* One document more adds its size.
LEMMA BytesGrow ==
  ASSUME NEW s \in Seq(Doc), NEW d \in Doc
  PROVE  /\ BytesOf(s) \in Nat
         /\ BytesOf(Append(s, d)) = BytesOf(s) + d.size
         /\ BytesOf(<<>>) = 0
  <1> DEFINE t == Append(s, d)
             w == [i \in 1..Len(s) |-> s[i].size]
             v == [i \in 1..Len(t) |-> t[i].size]
  <1>1. /\ Len(s) \in Nat /\ t \in Seq(Doc) /\ Len(t) = Len(s) + 1
        /\ \A i \in 1..Len(s) : t[i] = s[i]
        /\ t[Len(s) + 1] = d
    BY AppendProperties, LenProperties
  <1>2. \A i \in 1..Len(s) : s[i].size \in Nat
    <2>1. \A i \in 1..Len(s) : s[i] \in Doc
      BY ElementOfSeq
    <2>2. \A e \in Doc : e.size \in Nat
      BY DEF Doc
    <2> QED
      BY <2>1, <2>2
  <1> HIDE DEF t
  <1>3. \A i \in 1..Len(s) : v[i] = w[i]
    BY <1>1
  <1>4. v[Len(s) + 1] = d.size /\ \A i \in 1..Len(s) : w[i] \in Nat
    BY <1>1, <1>2
  <1>5. BytesOf(s) = Total(w, Len(s)) /\ BytesOf(t) = Total(v, Len(s) + 1)
    BY <1>1, BytesAreTotal
  <1> HIDE DEF v, w
  <1>6. Total(v, Len(s)) = Total(w, Len(s))
    BY <1>1, <1>3, TotalAgrees
  <1>7. Total(v, Len(s) + 1) = Total(v, Len(s)) + v[Len(s) + 1]
    BY <1>1, TotalFacts
  <1>8. Total(w, Len(s)) \in Nat
    BY <1>1, <1>4, TotalFacts
  <1>9. BytesOf(<<>>) = 0
    <2>1. <<>> \in Seq(Doc) /\ Len(<<>>) = 0
      OBVIOUS
    <2>2. BytesOf(<<>>) = Total([i \in 1..Len(<<>>) |-> <<>>[i].size], 0)
      BY <2>1, BytesAreTotal, Zenon
    <2> QED
      BY <2>2, TotalFacts
  <1>10. BytesOf(t) = BytesOf(s) + d.size
    BY <1>4, <1>5, <1>6, <1>7
  <1> QED
    BY <1>5, <1>8, <1>9, <1>10 DEF t

DeadlineInv == pending.docs # <<>> => startedAt = pending.docs[1].at

LimitsInv == FlowTypeOK /\ DeadlineInv /\ WithinLimits

\* A batch that may be handed over.
Allowed(out) ==
  /\ Len(out) <= MaxRows
  /\ BytesOf(out) > MaxBytes => out[Len(out)].size >= MaxBytes

\* What Add keeps is below both limits and counted exactly, and what it hands
\* over is allowed; a batch of one is the new document, a longer one keeps its
\* oldest.
LEMMA AddWithin ==
  ASSUME NEW b \in BatchType, NEW d \in Doc,
         Len(b.docs) < MaxRows, b.bytes < MaxBytes, b.bytes = BytesOf(b.docs)
  PROVE  LET r == Add(b, d) IN
         /\ Len(r.keep.docs) < MaxRows /\ r.keep.bytes < MaxBytes
         /\ r.keep.bytes = BytesOf(r.keep.docs)
         /\ Allowed(r.out)
         /\ \/ r.keep.docs = <<>>
            \/ Len(r.keep.docs) = 1 /\ r.keep.docs[1] = d
            \/ Len(r.keep.docs) > 1 /\ b.docs # <<>> /\ r.keep.docs[1] = b.docs[1]
  <1> USE LimitsAssumption DEF LimitsAssumption
  <1> DEFINE both == Append(b.docs, d)
             full == Appended(b, d)
             one  == Appended(EmptyBatch, d)
  <1>1. b.docs \in Seq(Doc) /\ b.bytes \in Nat /\ d.size \in Nat
    BY DEF BatchType, Doc
  <1>2. /\ full.docs = both /\ full.bytes = b.bytes + d.size
        /\ Len(both) = Len(b.docs) + 1 /\ both[Len(both)] = d
        /\ b.docs = <<>> => both[1] = d
        /\ b.docs # <<>> => Len(b.docs) > 0 /\ both[1] = b.docs[1]
    BY <1>1 DEF Appended
  <1>3. /\ one.docs = <<d>> /\ Len(<<d>>) = 1 /\ <<d>>[1] = d /\ one.bytes = d.size
    BY <1>1 DEF Appended, EmptyBatch
  <1>4. EmptyBatch.docs = <<>> /\ EmptyBatch.bytes = 0 /\ Len(<<>>) = 0
    BY DEF EmptyBatch
  <1>5. BytesOf(both) = b.bytes + d.size /\ BytesOf(<<>>) = 0
    BY <1>1, BytesGrow
  <1>6. BytesOf(<<d>>) = d.size
    <2>1. <<>> \in Seq(Doc) /\ Append(<<>>, d) = <<d>>
      OBVIOUS
    <2>2. BytesOf(Append(<<>>, d)) = BytesOf(<<>>) + d.size
      BY <2>1, BytesGrow
    <2> QED
      BY <1>1, <1>5, <2>1, <2>2
  <1>7. Len(b.docs) \in Nat
    BY <1>1, LenProperties
  <1> HIDE DEF both, full, one
  <1>8. ASSUME Add(b, d) = [keep |-> EmptyBatch, out |-> full.docs],
               b.bytes + d.size > MaxBytes => d.size >= MaxBytes
        PROVE  LET r == Add(b, d) IN
               /\ Len(r.keep.docs) < MaxRows /\ r.keep.bytes < MaxBytes
               /\ r.keep.bytes = BytesOf(r.keep.docs)
               /\ Allowed(r.out) /\ r.keep.docs = <<>>
    <2>1. Add(b, d).keep = EmptyBatch /\ Add(b, d).out = both
      BY <1>2, <1>8
    <2>2. Allowed(both)
      BY <1>1, <1>2, <1>5, <1>7, <1>8 DEF Allowed
    <2> QED
      BY <1>4, <1>5, <2>1, <2>2
  <1>9. CASE Oversized(b, d)
    <2>1. Add(b, d) = [keep |-> EmptyBatch, out |-> full.docs]
      BY <1>9 DEF Add, full
    <2>2. d.size >= MaxBytes
      BY <1>9 DEF Oversized
    <2> QED
      BY <1>8, <2>1, <2>2
  <1>10. CASE Completes(b, d) /\ ~Overflows(b, d) /\ ~Oversized(b, d)
    <2>1. Add(b, d) = [keep |-> EmptyBatch, out |-> full.docs]
      BY <1>10 DEF Add, full
    <2>2. CASE b.docs = <<>>
      <3>1. b.bytes = 0
        BY <1>5, <2>2
      <3>2. b.bytes + d.size > MaxBytes => d.size >= MaxBytes
        BY <1>1, <3>1
      <3> QED
        BY <1>8, <2>1, <3>2
    <2>3. CASE b.docs # <<>>
      <3>1. ~ (b.bytes + d.size > MaxBytes)
        BY <1>10, <2>3 DEF Overflows
      <3> QED
        BY <1>8, <2>1, <3>1
    <2> QED
      BY <2>2, <2>3
  <1>11. CASE Overflows(b, d) /\ ~Oversized(b, d)
    <2>1. Add(b, d) = [keep |-> one, out |-> b.docs]
      BY <1>11 DEF Add, one
    <2>2. b.docs # <<>> /\ d.size < MaxBytes
      BY <1>1, <1>11 DEF Overflows, Oversized
    <2>3. Add(b, d).keep = one /\ Add(b, d).out = b.docs
      BY <2>1
    <2>4. 1 < MaxRows /\ Len(b.docs) <= MaxRows
      BY <1>2, <1>7, <2>2
    <2>5. Allowed(b.docs)
      BY <1>1, <2>4 DEF Allowed
    <2> QED
      BY <1>3, <1>6, <2>2, <2>3, <2>4, <2>5
  <1>12. CASE ~Overflows(b, d) /\ ~Oversized(b, d) /\ ~Completes(b, d)
    <2>1. Add(b, d) = [keep |-> full, out |-> <<>>]
      BY <1>12 DEF Add, full
    <2>2. Len(both) < MaxRows /\ full.bytes < MaxBytes
      BY <1>1, <1>2, <1>7, <1>12 DEF Completes, full
    <2>3. Add(b, d).keep = full /\ Add(b, d).out = <<>>
      BY <2>1
    <2>4. Allowed(<<>>)
      BY <1>4, <1>5 DEF Allowed
    <2>5. \/ Len(both) = 1 /\ both[1] = d
          \/ Len(both) > 1 /\ b.docs # <<>> /\ both[1] = b.docs[1]
      BY <1>2, <1>4, <1>7
    <2>6. full.bytes = BytesOf(full.docs) /\ full.docs = both
      BY <1>2, <1>5
    <2> QED
      BY <2>2, <2>3, <2>4, <2>5, <2>6
  <1> QED
    BY <1>9, <1>10, <1>11, <1>12

\* Every step keeps the deadline and the limits.
LEMMA LimitsStep ==
  ASSUME LimitsInv, FlowTypeOK', [FlowNext]_flowVars
  PROVE  LimitsInv'
  <1> USE DEF LimitsInv
  <1>0. /\ Len(pending.docs) < MaxRows /\ pending.bytes < MaxBytes
        /\ pending.bytes = BytesOf(pending.docs)
        /\ Allowed(last)
    BY DEF WithinLimits, Allowed
  <1>1. ASSUME NEW bytes \in Sizes, Offer(bytes) PROVE LimitsInv'
    <2> DEFINE d == [n |-> Len(given) + 1, size |-> bytes, at |-> now]
               r == Add(pending, d)
    <2>1. d \in Doc /\ pending \in BatchType
      BY FlowAssumption DEF FlowAssumption, FlowTypeOK, Doc, BatchType
    <2>2. d.at = now
      OBVIOUS
    <2>3. pending' = r.keep /\ startedAt' = StartedAtFor(r.keep) /\ last' = r.out
      BY <1>1 DEF Offer, HandOver
    <2> HIDE DEF d
    <2>4. /\ Len(r.keep.docs) < MaxRows /\ r.keep.bytes < MaxBytes
          /\ r.keep.bytes = BytesOf(r.keep.docs)
          /\ Allowed(r.out)
          /\ \/ r.keep.docs = <<>>
             \/ Len(r.keep.docs) = 1 /\ r.keep.docs[1] = d
             \/ /\ Len(r.keep.docs) > 1 /\ pending.docs # <<>>
                /\ r.keep.docs[1] = pending.docs[1]
      BY <1>0, <2>1, AddWithin
    <2>5. r.keep.docs \in Seq(Doc)
      BY <2>1, AddKeepsOrder DEF BatchType
    <2> HIDE DEF r
    <2>6. WithinLimits'
      BY <2>3, <2>4 DEF WithinLimits, BytesOf, Allowed
    <2>7. DeadlineInv'
      <3> SUFFICES ASSUME r.keep.docs # <<>>
                   PROVE  StartedAtFor(r.keep) = r.keep.docs[1].at
        BY <2>3 DEF DeadlineInv
      <3>1. CASE Len(r.keep.docs) = 1 /\ r.keep.docs[1] = d
        BY <2>2, <3>1 DEF StartedAtFor
      <3>2. CASE /\ Len(r.keep.docs) > 1 /\ pending.docs # <<>>
                 /\ r.keep.docs[1] = pending.docs[1]
        <4>0. Len(r.keep.docs) \in Nat
          BY <2>5, LenProperties
        <4>1. \A n \in Nat : n > 1 => n # 0 /\ n # 1
          OBVIOUS
        <4>2. Len(r.keep.docs) # 0 /\ Len(r.keep.docs) # 1
          BY <3>2, <4>0, <4>1, Zenon
        <4> QED
          BY <3>2, <4>2 DEF StartedAtFor, DeadlineInv
      <3> QED
        BY <2>4, <3>1, <3>2
    <2> QED
      BY <2>6, <2>7
  <1>2. CASE Flush
    <2>1. pending' = EmptyBatch /\ last' = pending.docs
      BY <1>2 DEF Flush, HandOver
    <2>2. /\ EmptyBatch.docs = <<>> /\ EmptyBatch.bytes = 0 /\ Len(<<>>) = 0
      BY DEF EmptyBatch
    <2>3. pending.docs \in Seq(Doc) /\ pending.bytes \in Nat /\ Len(pending.docs) \in Nat
      BY DEF FlowTypeOK
    <2>4. BytesOf(<<>>) = 0
      <3>1. <<>> \in Seq(Doc) /\ [n |-> 0, size |-> 0, at |-> 0] \in Doc
        BY DEF Doc
      <3> QED
        BY <3>1, BytesGrow
    <2>5. Allowed(pending.docs)
      BY <1>0, <2>3, LimitsAssumption DEF Allowed, LimitsAssumption
    <2>6. 0 < MaxRows /\ 0 < MaxBytes
      BY LimitsAssumption DEF LimitsAssumption
    <2>7. WithinLimits'
      BY <2>1, <2>2, <2>4, <2>5, <2>6 DEF WithinLimits, BytesOf, Allowed
    <2> QED
      BY <2>1, <2>2, <2>7 DEF DeadlineInv
  <1>3. CASE Pass
    BY <1>3 DEF Pass, DeadlineInv, WithinLimits, BytesOf
  <1>4. CASE UNCHANGED flowVars
    BY <1>4 DEF flowVars, DeadlineInv, WithinLimits, BytesOf
  <1> QED
    BY <1>1, <1>2, <1>3, <1>4 DEF FlowNext

LEMMA LimitsInvariant == FlowSpec => []LimitsInv
  <1>1. FlowInit => DeadlineInv /\ WithinLimits
    <2> SUFFICES ASSUME FlowInit PROVE DeadlineInv /\ WithinLimits
      OBVIOUS
    <2>1. BytesOf(<<>>) = 0
      <3>1. <<>> \in Seq(Doc) /\ [n |-> 0, size |-> 0, at |-> 0] \in Doc
        BY DEF Doc
      <3> QED
        BY <3>1, BytesGrow
    <2>2. pending.docs = <<>> /\ pending.bytes = 0 /\ last = <<>> /\ Len(<<>>) = 0
      BY DEF FlowInit, EmptyBatch
    <2>3. MaxRows \in Nat /\ 0 < MaxRows /\ MaxBytes \in Nat /\ 0 < MaxBytes
      BY LimitsAssumption DEF LimitsAssumption
    <2> QED
      BY <2>1, <2>2, <2>3 DEF WithinLimits, DeadlineInv
  <1>2. LimitsInv /\ FlowTypeOK' /\ [FlowNext]_flowVars => LimitsInv'
    BY LimitsStep
  <1> QED
    BY <1>1, <1>2, BatchFlowTypeOK, PTL DEF FlowSpec, LimitsInv

\* DueForFlush is true exactly when the oldest pending document has waited the
\* flush interval: append sets startedAt for the first document of a batch
\* only, and no batch inherits the deadline of one that has left.
THEOREM DeadlineAlwaysOldest == FlowSpec => []DeadlineIsOldest
  <1>1. LimitsInv => DeadlineIsOldest
    <2> SUFFICES ASSUME LimitsInv, pending.docs # <<>>
                 PROVE  DueForFlush <=> now - pending.docs[1].at >= FlushInterval
      BY DEF DeadlineIsOldest
    <2>1. startedAt = pending.docs[1].at
      BY DEF LimitsInv, DeadlineInv
    <2>2. startedAt \in Nat /\ now \in Nat /\ FlushInterval \in Nat
      BY FlowAssumption DEF LimitsInv, FlowTypeOK, FlowAssumption
    <2>3. now >= startedAt + FlushInterval <=> now - startedAt >= FlushInterval
      BY <2>2
    <2> QED
      BY <2>1, <2>3 DEF DueForFlush
  <1> QED
    BY <1>1, LimitsInvariant, PTL

\* Add counts the bytes of the pending batch exactly, never leaves a batch
\* pending that is already full by either count, and hands over a batch beyond
\* MaxBytes only when its last document fills one by itself, for all limits
\* and sizes.
THEOREM BatchFlowWithinLimits == FlowSpec => []WithinLimits
  BY LimitsInvariant, PTL DEF LimitsInv

-----------------------------------------------------------------------------
(***************************************************************************)
(* The dead letter queue.                                                  *)
(***************************************************************************)
\* A line holds something: records, or parts of them.
Line == Seq(0..MaxRecords) \ {<<>>}

\* The reference size is a total.
LEMMA SizeIsTotal ==
  ASSUME NEW s \in Seq(Line)
  PROVE  SizeOf(s) = Total([i \in 1..Len(s) |-> Len(s[i])], Len(s))
  <1> DEFINE w == [i \in 1..Len(s) |-> Len(s[i])]
             sum == CHOOSE f : f = [i \in 0..Len(s) |-> IF i = 0 THEN 0 ELSE f[i - 1] + Len(s[i])]
  <1>0. Len(s) \in Nat
    BY LenProperties
  <1>1. \A f : f = [i \in 0..Len(s) |-> IF i = 0 THEN 0 ELSE f[i - 1] + Len(s[i])]
                 <=> Sums(f, w, Len(s))
    <2> SUFFICES ASSUME NEW f
                 PROVE  [i \in 0..Len(s) |-> IF i = 0 THEN 0 ELSE f[i - 1] + Len(s[i])]
                          = [i \in 0..Len(s) |-> IF i = 0 THEN 0 ELSE f[i - 1] + w[i]]
      BY DEF Sums
    <2>1. \A i \in 0..Len(s) : i # 0 => w[i] = Len(s[i])
      BY <1>0
    <2> QED
      BY <2>1
  <1>2. Sums(sum, w, Len(s))
    BY <1>0, <1>1, SumsExist
  <1>3. SizeOf(s) = sum[Len(s)]
    BY DEF SizeOf
  <1> QED
    BY <1>0, <1>2, <1>3, TotalIs

\* The lines of a sequence of lines have lengths.
LEMMA LineLengths ==
  ASSUME NEW s \in Seq(Line)
  PROVE  Len(s) \in Nat /\ \A i \in 1..Len(s) : s[i] \in Line /\ Len(s[i]) \in Nat
  <1>1. Len(s) \in Nat /\ \A i \in 1..Len(s) : s[i] \in Line
    BY ElementOfSeq, LenProperties
  <1>2. \A l \in Line : Len(l) \in Nat
    BY LenProperties DEF Line
  <1> QED
    BY <1>1, <1>2

\* Two files together hold what each holds.
LEMMA SizeAdds ==
  ASSUME NEW s \in Seq(Line), NEW t \in Seq(Line)
  PROVE  /\ SizeOf(s) \in Nat
         /\ SizeOf(s \o t) = SizeOf(s) + SizeOf(t)
  <1> DEFINE u == s \o t
             ws == [i \in 1..Len(s) |-> Len(s[i])]
             wt == [i \in 1..Len(t) |-> Len(t[i])]
             wu == [i \in 1..Len(u) |-> Len(u[i])]
  <1>1. /\ u \in Seq(Line) /\ Len(u) = Len(s) + Len(t)
        /\ \A i \in 1..Len(s) : u[i] = s[i]
        /\ \A i \in 1..Len(t) : u[Len(s) + i] = t[i]
    BY ConcatProperties
  <1>2. Len(s) \in Nat /\ \A i \in 1..Len(s) : Len(s[i]) \in Nat
    BY LineLengths
  <1>3. Len(t) \in Nat
    BY LineLengths
  <1> HIDE DEF u
  <1>4. \A i \in 1..Len(u) : Len(u[i]) \in Nat
    BY <1>1, LineLengths
  <1>5. /\ \A i \in 1..(Len(s) + Len(t)) : wu[i] \in Nat
        /\ \A i \in 1..Len(s) : wu[i] = ws[i] /\ ws[i] \in Nat
    BY <1>1, <1>2, <1>3, <1>4
  <1>6. \A i \in 1..Len(t) : wu[Len(s) + i] = wt[i]
    BY <1>1, <1>2, <1>3
  <1>7. /\ SizeOf(s) = Total(ws, Len(s))
        /\ SizeOf(t) = Total(wt, Len(t))
        /\ SizeOf(u) = Total(wu, Len(s) + Len(t))
    BY <1>1, SizeIsTotal
  <1> HIDE DEF ws, wt, wu
  <1>8. Total(wu, Len(s) + Len(t)) = Total(wu, Len(s)) + Total(wt, Len(t))
    BY <1>2, <1>3, <1>5, <1>6, TotalSplits
  <1>9. Total(wu, Len(s)) = Total(ws, Len(s))
    BY <1>2, <1>5, TotalAgrees
  <1>10. Total(ws, Len(s)) \in Nat
    BY <1>2, <1>5, TotalFacts
  <1> QED
    BY <1>7, <1>8, <1>9, <1>10 DEF u

\* As many lines of one record hold as many records.
LEMMA SizeOfRecords ==
  ASSUME NEW n \in Nat, NEW t \in Seq(Line), Len(t) = n, \A i \in 1..n : Len(t[i]) = 1
  PROVE  SizeOf(t) = n
  <1> DEFINE w == [i \in 1..n |-> Len(t[i])]
             T == {i \in 0..n : Total(w, i) = i}
  <1>1. SizeOf(t) = Total(w, n)
    BY SizeIsTotal
  <1>2. 0 \in T
    BY TotalFacts
  <1>3. ASSUME NEW i \in 0..(n - 1), i \in T PROVE i + 1 \in T
    <2>1. i \in Nat /\ i + 1 \in 1..n
      OBVIOUS
    <2>2. w[i + 1] = 1
      BY <2>1
    <2> HIDE DEF w
    <2>3. Total(w, i + 1) = Total(w, i) + 1
      BY <2>1, <2>2, TotalFacts
    <2> QED
      BY <1>3, <2>1, <2>3
  <1> HIDE DEF T, w
  <1>4. 0..n \subseteq T
    BY <1>2, <1>3, UpTo
  <1>5. n \in T
    BY <1>4
  <1> QED
    BY <1>1, <1>5 DEF T

\* The lines in which a record is found.
Holds(lines, r) == \E i \in 1..Len(lines) : \E j \in 1..Len(lines[i]) : lines[i][j] = r

\* What is in one of two files is in both together.
LEMMA HoldsEither ==
  ASSUME NEW s \in Seq(Line), NEW t \in Seq(Line), NEW r
  PROVE  Holds(s \o t, r) <=> Holds(s, r) \/ Holds(t, r)
  <1> DEFINE u == s \o t
  <1>1. /\ u \in Seq(Line) /\ Len(u) = Len(s) + Len(t)
        /\ \A i \in 1..Len(s) : u[i] = s[i]
        /\ \A i \in 1..Len(t) : u[Len(s) + i] = t[i]
    BY ConcatProperties
  <1>2. Len(s) \in Nat /\ Len(t) \in Nat
    BY LineLengths
  <1> HIDE DEF u
  <1>3. ASSUME Holds(s, r) PROVE Holds(u, r)
    <2>1. \A i \in 1..Len(s) : i \in 1..Len(u)
      BY <1>1, <1>2
    <2> QED
      BY <1>1, <1>3, <2>1, Zenon DEF Holds
  <1>4. ASSUME Holds(t, r) PROVE Holds(u, r)
    <2>1. \A i \in 1..Len(t) : Len(s) + i \in 1..Len(u)
      BY <1>1, <1>2
    <2> QED
      BY <1>1, <1>4, <2>1, Zenon DEF Holds
  <1>5. ASSUME Holds(u, r) PROVE Holds(s, r) \/ Holds(t, r)
    <2>1. PICK i \in 1..Len(u) : \E j \in 1..Len(u[i]) : u[i][j] = r
      BY <1>5 DEF Holds
    <2>2. CASE i <= Len(s)
      <3>1. i \in 1..Len(s)
        BY <1>2, <2>2
      <3> QED
        BY <1>1, <2>1, <3>1, Zenon DEF Holds
    <2>3. CASE ~ (i <= Len(s))
      <3>1. i - Len(s) \in 1..Len(t) /\ Len(s) + (i - Len(s)) = i
        BY <1>1, <1>2, <2>3
      <3>2. u[i] = t[i - Len(s)]
        BY <1>1, <3>1
      <3> QED
        BY <2>1, <3>1, <3>2 DEF Holds
    <2> QED
      BY <2>2, <2>3
  <1> QED
    BY <1>3, <1>4, <1>5 DEF u

\* Lines of one record each.
LEMMA SingleLines ==
  ASSUME NEW s \in Seq(0..MaxRecords)
  PROVE  LET t == [i \in 1..Len(s) |-> <<s[i]>>]
         IN  /\ t \in Seq(Line) /\ Len(t) = Len(s)
             /\ SizeOf(t) = Len(s)
             /\ \A i \in 1..Len(s) : Holds(t, s[i])
  <1> DEFINE t == [i \in 1..Len(s) |-> <<s[i]>>]
  <1>1. Len(s) \in Nat /\ \A i \in 1..Len(s) : s[i] \in 0..MaxRecords
    BY ElementOfSeq, LenProperties
  <1>2. \A x \in 0..MaxRecords : <<x>> \in Line /\ Len(<<x>>) = 1 /\ <<x>>[1] = x
    BY DEF Line
  <1>3. /\ \A i \in 1..Len(s) : t[i] \in Line /\ Len(t[i]) = 1 /\ t[i][1] = s[i]
        /\ t = [i \in 1..Len(s) |-> t[i]]
    BY <1>1, <1>2
  <1> HIDE DEF t
  <1>4. t \in Seq(Line) /\ Len(t) = Len(s)
    BY <1>1, <1>3
  <1>5. SizeOf(t) = Len(s)
    BY <1>1, <1>3, <1>4, SizeOfRecords
  <1>6. \A i \in 1..Len(s) : Holds(t, s[i])
    BY <1>3, <1>4 DEF Holds
  <1> QED
    BY <1>4, <1>5, <1>6 DEF t

\* The last line of a file, and those before it.
LEMMA LastLine ==
  ASSUME NEW c \in Seq(Line), c # <<>>
  PROVE  LET front == SubSeq(c, 1, Len(c) - 1)
             l     == c[Len(c)]
         IN  /\ front \in Seq(Line) /\ l \in Line /\ c = front \o <<l>>
             /\ Len(front) = Len(c) - 1
  <1>1. Len(c) \in Nat /\ Len(c) >= 1
    BY EmptySeq
  <1>2. \A i \in 1..Len(c) : c[i] \in Line
    BY ElementOfSeq
  <1>3. c = SubSeq(c, 1, Len(c))
    BY SubSeqFull
  <1>4. 1 \in 1..Len(c) /\ Len(c) \in 1..Len(c)
    BY <1>1
  <1>5. SubSeq(c, 1, Len(c)) = SubSeq(c, 1, Len(c) - 1) \o <<c[Len(c)]>>
    BY <1>4, SubSeqRecursiveSecond
  <1>6. /\ SubSeq(c, 1, Len(c) - 1) \in Seq(Line)
        /\ Len(SubSeq(c, 1, Len(c) - 1)) = Len(c) - 1
    <2>1. \A i \in 1..(Len(c) - 1) : c[i] \in Line
      BY <1>1, <1>2
    <2>2. 1 \in Int /\ Len(c) - 1 \in Int
      BY <1>1
    <2>3. /\ SubSeq(c, 1, Len(c) - 1) \in Seq(Line)
          /\ Len(SubSeq(c, 1, Len(c) - 1)) = IF 1 <= Len(c) - 1 THEN (Len(c) - 1) - 1 + 1 ELSE 0
      BY <2>1, <2>2, SubSeqProperties
    <2>4. \A n \in Nat : n >= 1 => (IF 1 <= n - 1 THEN (n - 1) - 1 + 1 ELSE 0) = n - 1
      OBVIOUS
    <2> QED
      BY <1>1, <2>3, <2>4, Zenon
  <1> QED
    BY <1>2, <1>3, <1>4, <1>5, <1>6

\* A record written after a line that has no end yet goes into that line.
LEMMA LineGoesOn ==
  ASSUME NEW c \in Seq(Line), c # <<>>, NEW x \in 0..MaxRecords
  PROVE  LET front == SubSeq(c, 1, Len(c) - 1)
             l     == c[Len(c)]
             m     == front \o << l \o <<x>> >>
         IN  /\ m \in Seq(Line) /\ Len(m) = Len(c)
             /\ SizeOf(m) = SizeOf(c) + 1
             /\ Holds(m, x)
             /\ \A r : Holds(c, r) => Holds(m, r)
  <1> DEFINE front == SubSeq(c, 1, Len(c) - 1)
             l == c[Len(c)]
             k == l \o <<x>>
  <1>1. front \in Seq(Line) /\ l \in Line /\ c = front \o <<l>> /\ Len(front) = Len(c) - 1
    BY LastLine
  <1> HIDE DEF front, l
  <1>2. l \in Seq(0..MaxRecords) /\ <<x>> \in Seq(0..MaxRecords)
    BY <1>1 DEF Line
  <1>3. /\ k \in Seq(0..MaxRecords) /\ Len(k) = Len(l) + 1 /\ Len(l) \in Nat
        /\ k[Len(l) + 1] = x
        /\ \A j \in 1..Len(l) : k[j] = l[j]
    BY <1>2
  <1> HIDE DEF front, l, k
  <1>4. k \in Line
    BY <1>3 DEF Line
  <1>5. /\ <<l>> \in Seq(Line) /\ <<k>> \in Seq(Line) /\ Len(<<l>>) = 1 /\ Len(<<k>>) = 1
        /\ <<l>>[1] = l /\ <<k>>[1] = k
    BY <1>1, <1>4
  <1>6. SizeOf(<<l>>) = Len(l) /\ SizeOf(<<k>>) = Len(k)
    <2>1. ASSUME NEW y \in Line PROVE SizeOf(<<y>>) = Len(y)
      <3> DEFINE w == [i \in 1..1 |-> Len(<<y>>[i])]
      <3>1. <<y>> \in Seq(Line) /\ Len(<<y>>) = 1 /\ w[0 + 1] = Len(y) /\ Len(y) \in Nat
        BY DEF Line
      <3>2. SizeOf(<<y>>) = Total(w, 1)
        BY <3>1, SizeIsTotal
      <3> HIDE DEF w
      <3>3. Total(w, 0 + 1) = Total(w, 0) + w[0 + 1] /\ Total(w, 0) = 0
        BY TotalFacts
      <3> QED
        BY <3>1, <3>2, <3>3
    <2> QED
      BY <1>1, <1>4, <2>1
  <1>7. /\ SizeOf(front) \in Nat
        /\ SizeOf(c) = SizeOf(front) + Len(l)
        /\ SizeOf(front \o <<k>>) = SizeOf(front) + Len(k)
    BY <1>1, <1>5, <1>6, SizeAdds
  <1>8. /\ front \o <<k>> \in Seq(Line)
        /\ Len(front \o <<k>>) = Len(c)
    BY <1>1, <1>5, ConcatProperties, LineLengths
  <1>9. Holds(<<k>>, x) /\ \A r : Holds(<<l>>, r) => Holds(<<k>>, r)
    <2>1. \A j \in 1..Len(l) : j \in 1..Len(k)
      BY <1>3
    <2>2. Len(l) + 1 \in 1..Len(k)
      BY <1>3
    <2>3. Holds(<<k>>, x)
      <3>1. 1 \in 1..Len(<<k>>) /\ Len(l) + 1 \in 1..Len(<<k>>[1]) /\ <<k>>[1][Len(l) + 1] = x
        BY <1>3, <1>5, <2>2
      <3> QED
        BY <3>1 DEF Holds
    <2>4. ASSUME NEW r, Holds(<<l>>, r) PROVE Holds(<<k>>, r)
      <3>1. PICK j \in 1..Len(l) : l[j] = r
        BY <1>5, <2>4 DEF Holds
      <3>2. 1 \in 1..Len(<<k>>) /\ j \in 1..Len(<<k>>[1]) /\ <<k>>[1][j] = r
        BY <1>3, <1>5, <2>1, <3>1
      <3> QED
        BY <3>2 DEF Holds
    <2> QED
      BY <2>3, <2>4
  <1>10. Holds(front \o <<k>>, x) /\ \A r : Holds(c, r) => Holds(front \o <<k>>, r)
    BY <1>1, <1>5, <1>9, HoldsEither
  <1>11. SizeOf(front \o <<k>>) = SizeOf(c) + 1
    BY <1>3, <1>7
  <1> QED
    BY <1>8, <1>10, <1>11, Zenon DEF front, l, k

\* What writing the records of s makes of the file: it grows by them, keeps
\* what it held, and has a line more for each unless the first went into a
\* line that had no end.
LEMMA AppendedHolds ==
  ASSUME current \in Seq(Line), ended = "no" => current # <<>>,
         NEW s \in Seq(0..MaxRecords)
  PROVE  LET a == Written(s)
         IN  /\ a \in Seq(Line)
             /\ SizeOf(a) = SizeOf(current) + Len(s)
             /\ Len(a) = Len(current) + Len(s)
                           - (IF ended = "no" /\ s # <<>> THEN 1 ELSE 0)
             /\ \A i \in 1..Len(s) : Holds(a, s[i])
             /\ \A r : Holds(current, r) => Holds(a, r)
  <1> DEFINE a == Written(s)
  <1>0. Len(s) \in Nat /\ DOMAIN s = 1..Len(s)
        /\ \A i \in 1..Len(s) : s[i] \in 0..MaxRecords
    BY ElementOfSeq, LenProperties
  <1>1. CASE ended = "no" /\ s # <<>>
    <2> DEFINE m == SubSeq(current, 1, Len(current) - 1)
                      \o << current[Len(current)] \o <<s[1]>> >>
               rest == [i \in 1..(Len(s) - 1) |-> s[i + 1]]
               t == [i \in 1..(Len(s) - 1) |-> <<s[i + 1]>>]
    <2>1. a = m \o t
      BY <1>1 DEF Written
    <2>2. Len(s) >= 1 /\ s[1] \in 0..MaxRecords
      BY <1>0, <1>1, EmptySeq
    <2>3. /\ m \in Seq(Line) /\ Len(m) = Len(current)
          /\ SizeOf(m) = SizeOf(current) + 1
          /\ Holds(m, s[1])
          /\ \A r : Holds(current, r) => Holds(m, r)
      BY <1>1, <2>2, LineGoesOn
    <2>4. rest \in Seq(0..MaxRecords) /\ Len(rest) = Len(s) - 1
          /\ \A i \in 1..(Len(s) - 1) : rest[i] = s[i + 1]
      <3>1. \A i \in 1..(Len(s) - 1) : i + 1 \in 1..Len(s)
        BY <1>0, <2>2
      <3>2. \A i \in 1..(Len(s) - 1) : rest[i] \in 0..MaxRecords
        BY <1>0, <3>1
      <3> QED
        BY <1>0, <2>2, <3>2
    <2>5. t = [i \in 1..Len(rest) |-> <<rest[i]>>]
      BY <2>4
    <2> HIDE DEF m, rest, t, a
    <2>6. /\ t \in Seq(Line) /\ Len(t) = Len(s) - 1
          /\ SizeOf(t) = Len(s) - 1
          /\ \A i \in 1..(Len(s) - 1) : Holds(t, rest[i])
      BY <2>4, <2>5, SingleLines
    <2>7. /\ a \in Seq(Line) /\ Len(a) = Len(current) + (Len(s) - 1)
      <3>1. m \o t \in Seq(Line) /\ Len(m \o t) = Len(m) + Len(t)
        BY <2>3, <2>6, ConcatProperties
      <3> QED
        BY <2>1, <2>3, <2>6, <3>1, Zenon
    <2>8. SizeOf(a) = (SizeOf(current) + 1) + (Len(s) - 1)
      BY <2>1, <2>3, <2>6, SizeAdds
    <2>9. SizeOf(current) \in Nat /\ Len(current) \in Nat
      BY SizeAdds, LineLengths
    <2>10. \A r : Holds(m, r) \/ Holds(t, r) => Holds(a, r)
      BY <2>1, <2>3, <2>6, HoldsEither
    <2>11. \A i \in 1..Len(s) : Holds(a, s[i])
      <3> SUFFICES ASSUME NEW i \in 1..Len(s) PROVE Holds(a, s[i])
        OBVIOUS
      <3>1. CASE i = 1
        BY <2>3, <2>10, <3>1
      <3>2. CASE i # 1
        <4>1. i - 1 \in 1..(Len(s) - 1) /\ (i - 1) + 1 = i
          BY <1>0, <3>2
        <4>2. rest[i - 1] = s[i] /\ Holds(t, rest[i - 1])
          BY <2>4, <2>6, <4>1
        <4> QED
          BY <2>10, <4>2
      <3> QED
        BY <3>1, <3>2
    <2>12. /\ SizeOf(a) = SizeOf(current) + Len(s)
           /\ Len(a) = Len(current) + Len(s) - 1
      BY <1>0, <2>7, <2>8, <2>9
    <2> QED
      BY <1>1, <2>3, <2>7, <2>10, <2>11, <2>12 DEF a
  <1>2. CASE ~ (ended = "no" /\ s # <<>>)
    <2> DEFINE t == [i \in 1..Len(s) |-> <<s[i]>>]
    <2>1. a = current \o t
      BY <1>0, <1>2 DEF Written
    <2>2. /\ t \in Seq(Line) /\ Len(t) = Len(s)
          /\ SizeOf(t) = Len(s)
          /\ \A i \in 1..Len(s) : Holds(t, s[i])
      BY SingleLines
    <2> HIDE DEF t, a
    <2>3. a \in Seq(Line) /\ Len(a) = Len(current) + Len(s)
      <3>1. current \o t \in Seq(Line) /\ Len(current \o t) = Len(current) + Len(t)
        BY <2>2, ConcatProperties
      <3> QED
        BY <2>1, <2>2, <3>1, Zenon
    <2>4. SizeOf(a) = SizeOf(current) + Len(s)
      BY <2>1, <2>2, SizeAdds
    <2>5. \A r : Holds(current, r) \/ Holds(t, r) => Holds(a, r)
      BY <2>1, <2>2, HoldsEither
    <2>6. Len(current) + Len(s) - 0 = Len(current) + Len(s)
      BY <1>0, LineLengths
    <2> QED
      BY <1>2, <2>2, <2>3, <2>4, <2>5, <2>6 DEF a
  <1> QED
    BY <1>1, <1>2

\* Beside what the theorems state: the rotated and the current file are
\* sequences of lines, a file that does not end with a newline has a last line,
\* and that line is not counted among those of the acknowledged records, so
\* that the record which goes on in it needs no line of its own.
LettersInv ==
  /\ current \in Seq(Line) /\ rotated \in Seq(Line)
  /\ ended \in {"yes", "no"} /\ file \in {"open", "closed"}
  /\ ended = "no" => current # <<>>
  /\ next \in 1..(MaxRecords + 1) /\ recorded = 1..(next - 1)
  /\ size \in Nat /\ (file = "closed" => size = 0) /\ failures \in 0..MaxFailures
  /\ \A r \in 1..(next - 1) : Holds(rotated, r) \/ Holds(current, r)
  /\ Len(rotated) + Len(current) >= (next - 1) + (IF ended = "no" THEN 1 ELSE 0)
  /\ SizeMatches

\* The records of a batch, and one of which only a part is written.
LEMMA BatchRecords ==
  ASSUME next \in 1..(MaxRecords + 1),
         NEW k \in Nat, next + k <= MaxRecords + 1
  PROVE  /\ Batch(k) \in Seq(0..MaxRecords) /\ Len(Batch(k)) = k
         /\ \A i \in 1..k : Batch(k)[i] = next + i - 1
         /\ k = 0 <=> Batch(k) = <<>>
         /\ Batch(k) \o <<Torn>> \in Seq(0..MaxRecords)
         /\ Len(Batch(k) \o <<Torn>>) = k + 1
  <1> DEFINE b == Batch(k)
  <1>0. MaxRecords \in Nat /\ next \in Nat /\ next >= 1
    BY DeadLetterAssumption DEF DeadLetterAssumption
  <1>1. b = [i \in 1..k |-> next + i - 1]
    BY DEF Batch
  <1>2. \A i \in 1..k : next + i - 1 \in 0..MaxRecords
    BY <1>0
  <1> HIDE DEF b
  <1>3. b \in Seq(0..MaxRecords) /\ Len(b) = k /\ \A i \in 1..k : b[i] = next + i - 1
    BY <1>1, <1>2
  <1>4. k = 0 <=> b = <<>>
    BY <1>3, EmptySeq
  <1>5. <<Torn>> \in Seq(0..MaxRecords) /\ Len(<<Torn>>) = 1
    BY <1>0 DEF Torn
  <1>6. /\ b \o <<Torn>> \in Seq(0..MaxRecords)
        /\ Len(b \o <<Torn>>) = k + 1
    BY <1>3, <1>5, ConcatProperties
  <1> QED
    BY <1>3, <1>4, <1>6 DEF b

\* The size Record counts with is that of the file.
LEMMA SizeIsKnown ==
  ASSUME LettersInv
  PROVE  SizeOnOpen = SizeOf(current) /\ SizeOf(current) \in Nat
  BY SizeAdds DEF LettersInv, SizeOnOpen, SizeMatches

\* A batch that failed: whatever of it was written, the new process finds
\* every acknowledged record, and a line for each.
LEMMA FailedWrite ==
  ASSUME LettersInv, NEW s \in Seq(0..MaxRecords),
         current' = Written(s), ended' \in {"yes", "no"},
         s = <<>> => ended' = ended,
         file' = "closed", size' = 0, failures' \in 0..MaxFailures,
         rotated' = rotated, recorded' = recorded, next' = next
  PROVE  LettersInv'
  <1>1. /\ current \in Seq(Line) /\ rotated \in Seq(Line) /\ (ended = "no" => current # <<>>)
        /\ next \in 1..(MaxRecords + 1) /\ recorded = 1..(next - 1) /\ ended \in {"yes", "no"}
        /\ \A r \in 1..(next - 1) : Holds(rotated, r) \/ Holds(current, r)
        /\ Len(rotated) + Len(current) >= (next - 1) + (IF ended = "no" THEN 1 ELSE 0)
    BY DEF LettersInv
  <1>2. /\ current' \in Seq(Line)
        /\ Len(current') = Len(current) + Len(s) - (IF ended = "no" /\ s # <<>> THEN 1 ELSE 0)
        /\ \A r : Holds(current, r) => Holds(current', r)
    BY <1>1, AppendedHolds
  <1>3. Len(current) \in Nat /\ Len(rotated) \in Nat /\ next \in Nat
    BY <1>1, LineLengths
  <1>4. Len(s) \in Nat /\ (s # <<>> => Len(s) >= 1) /\ (s = <<>> => Len(s) = 0)
    BY EmptySeq, LenProperties
  <1>5. Len(rotated) + Len(current') >= (next - 1) + (IF ended' = "no" THEN 1 ELSE 0)
    BY <1>1, <1>2, <1>3, <1>4
  <1>6. ended' = "no" => current' # <<>>
    <2> SUFFICES ASSUME ended' = "no", current' = <<>> PROVE FALSE
      OBVIOUS
    <2>1. Len(current') = 0
      BY EmptySeq
    <2>2. CASE s = <<>>
      <3>1. current # <<>> /\ Len(current) = 0
        BY <1>1, <1>2, <1>3, <1>4, <2>1, <2>2
      <3> QED
        BY <1>1, <3>1, EmptySeq
    <2>3. CASE s # <<>>
      <3>1. ended = "no" /\ Len(current) = 0
        BY <1>1, <1>2, <1>3, <1>4, <2>1, <2>3
      <3> QED
        BY <1>1, <3>1, EmptySeq
    <2> QED
      BY <2>2, <2>3
  <1>7. \A r \in 1..(next - 1) : Holds(rotated, r) \/ Holds(current', r)
    BY <1>1, <1>2
  <1>8. SizeMatches'
    BY DEF SizeMatches
  <1>9. \A r \in 1..(next' - 1) : Holds(rotated', r) \/ Holds(current', r)
    BY <1>7
  <1>10. Len(rotated') + Len(current') >= (next' - 1) + (IF ended' = "no" THEN 1 ELSE 0)
    BY <1>5
  <1> QED
    BY <1>1, <1>2, <1>6, <1>8, <1>9, <1>10 DEF LettersInv, Holds

\* The records of a batch that is acknowledged follow those before.
LEMMA RecordedGrows ==
  ASSUME NEW m \in Nat, m >= 1, NEW n \in Nat, n >= 1
  PROVE  (1..(m - 1)) \cup {m + i : i \in 0..(n - 1)} = 1..((m + n) - 1)
  <1>1. ASSUME NEW r \in 1..((m + n) - 1) PROVE r \in (1..(m - 1)) \cup {m + i : i \in 0..(n - 1)}
    <2>1. CASE r < m
      BY <2>1
    <2>2. CASE ~ (r < m)
      <3>1. r - m \in 0..(n - 1) /\ m + (r - m) = r
        BY <2>2
      <3> QED
        BY <3>1
    <2> QED
      BY <2>1, <2>2
  <1>2. ASSUME NEW r \in (1..(m - 1)) \cup {m + i : i \in 0..(n - 1)} PROVE r \in 1..((m + n) - 1)
    <2>1. CASE r \in 1..(m - 1)
      BY <2>1
    <2>2. CASE r \in {m + i : i \in 0..(n - 1)}
      BY <2>2
    <2> QED
      BY <1>2, <2>1, <2>2
  <1> QED
    BY <1>1, <1>2

\* A batch that is acknowledged: each of its records is in the file written.
LEMMA BatchHeld ==
  ASSUME LettersInv, NEW n \in 1..2, next + n <= MaxRecords + 1
  PROVE  LET a == Written(Batch(n))
         IN  /\ a \in Seq(Line)
             /\ SizeOf(a) = SizeOf(current) + n
             /\ Len(rotated) + Len(a) >= (next + n) - 1
             /\ \A r \in 1..((next + n) - 1) : Holds(rotated, r) \/ Holds(a, r)
  <1> DEFINE s == Batch(n)
             a == Written(s)
  <1>1. /\ current \in Seq(Line) /\ rotated \in Seq(Line) /\ (ended = "no" => current # <<>>)
        /\ next \in 1..(MaxRecords + 1)
        /\ \A r \in 1..(next - 1) : Holds(rotated, r) \/ Holds(current, r)
        /\ Len(rotated) + Len(current) >= (next - 1) + (IF ended = "no" THEN 1 ELSE 0)
    BY DEF LettersInv
  <1>2. n \in Nat /\ n >= 1 /\ next \in Nat /\ next >= 1
    BY <1>1
  <1>3. s \in Seq(0..MaxRecords) /\ Len(s) = n /\ \A i \in 1..n : s[i] = next + i - 1
    BY <1>1, <1>2, BatchRecords
  <1> HIDE DEF s
  <1>4. /\ a \in Seq(Line)
        /\ SizeOf(a) = SizeOf(current) + n
        /\ Len(a) = Len(current) + n - (IF ended = "no" /\ s # <<>> THEN 1 ELSE 0)
        /\ \A i \in 1..n : Holds(a, s[i])
        /\ \A r : Holds(current, r) => Holds(a, r)
    BY <1>1, <1>3, AppendedHolds
  <1> HIDE DEF a
  <1>5. Len(current) \in Nat /\ Len(rotated) \in Nat
    BY <1>1, LineLengths
  <1>6. Len(rotated) + Len(a) >= (next + n) - 1
    BY <1>1, <1>2, <1>4, <1>5
  <1>7. ASSUME NEW r \in 1..((next + n) - 1) PROVE Holds(rotated, r) \/ Holds(a, r)
    <2>1. CASE r < next
      <3>1. r \in 1..(next - 1)
        BY <1>2, <2>1
      <3> QED
        BY <1>1, <1>4, <3>1
    <2>2. CASE ~ (r < next)
      <3>1. (r - next) + 1 \in 1..n /\ next + ((r - next) + 1) - 1 = r
        BY <1>2, <2>2
      <3>2. s[(r - next) + 1] = r
        BY <1>3, <3>1
      <3> QED
        BY <1>4, <3>1, <3>2
    <2> QED
      BY <2>1, <2>2
  <1> QED
    BY <1>4, <1>6, <1>7 DEF a, s

\* Every step of the queue keeps LettersInv.
LEMMA LettersStep ==
  ASSUME LettersInv, [LettersNext]_letterVars
  PROVE  LettersInv'
  <1>0. /\ current \in Seq(Line) /\ rotated \in Seq(Line)
        /\ next \in 1..(MaxRecords + 1) /\ recorded = 1..(next - 1)
        /\ next \in Nat /\ next >= 1
        /\ failures \in 0..MaxFailures /\ MaxFailures \in Nat /\ MaxRecords \in Nat /\ MaxSize \in Nat
    BY DeadLetterAssumption DEF LettersInv, DeadLetterAssumption
  <1>a. Fault => failures' \in 0..MaxFailures
    BY <1>0 DEF Fault
  <1>1. ASSUME NEW n \in 1..2, Record(n) PROVE LettersInv'
    <2> DEFINE a == Written(Batch(n))
    <2>1. /\ next + n <= MaxRecords + 1 /\ ~Full(n)
          /\ current' = a /\ ended' = "yes" /\ size' = SizeOnOpen + n
          /\ file' = "open" /\ next' = next + n
          /\ recorded' = recorded \cup {next + i : i \in 0..(n - 1)}
          /\ rotated' = rotated /\ failures' = failures
      BY <1>1 DEF Record, Flushed
    <2>2. /\ a \in Seq(Line)
          /\ SizeOf(a) = SizeOf(current) + n
          /\ Len(rotated) + Len(a) >= (next + n) - 1
          /\ \A r \in 1..((next + n) - 1) : Holds(rotated, r) \/ Holds(a, r)
      BY <2>1, BatchHeld
    <2> HIDE DEF a
    <2>3. SizeOnOpen = SizeOf(current) /\ SizeOf(current) \in Nat
      BY SizeIsKnown
    <2>4. n \in Nat /\ n >= 1
      OBVIOUS
    <2>5. recorded' = 1..((next + n) - 1)
      BY <1>0, <2>1, <2>4, RecordedGrows
    <2>6. next' \in 1..(MaxRecords + 1) /\ recorded' = 1..(next' - 1)
      <3>1. next' \in 1..(MaxRecords + 1)
        BY <1>0, <2>1, <2>4
      <3> QED
        BY <2>1, <2>5, <3>1, Zenon
    <2>7. size' \in Nat /\ size' < MaxSize /\ size' = SizeOf(a)
      BY <1>0, <2>1, <2>2, <2>3, <2>4 DEF Full
    <2>8. SizeMatches'
      BY <2>1, <2>7 DEF SizeMatches, SizeOf
    <2>9. \A r \in 1..(next' - 1) : Holds(rotated', r) \/ Holds(current', r)
      BY <2>1, <2>2
    <2>10. Len(rotated') + Len(current') >= (next' - 1) + 0
      BY <1>0, <2>1, <2>2, <2>4
    <2> QED
      BY <1>0, <2>1, <2>2, <2>6, <2>7, <2>8, <2>9, <2>10 DEF LettersInv, Holds
  <1>2. ASSUME NEW n \in 1..2, RecordAndRotate(n) PROVE LettersInv'
    <2> DEFINE a == Written(Batch(n))
    <2>1. /\ next + n <= MaxRecords + 1
          /\ rotated' = rotated \o a
          /\ current' = <<>> /\ ended' = "yes" /\ size' = 0
          /\ file' = "closed" /\ next' = next + n
          /\ recorded' = recorded \cup {next + i : i \in 0..(n - 1)}
          /\ failures' = failures
      BY <1>2 DEF RecordAndRotate, Rotate
    <2>2. /\ a \in Seq(Line)
          /\ Len(rotated) + Len(a) >= (next + n) - 1
          /\ \A r \in 1..((next + n) - 1) : Holds(rotated, r) \/ Holds(a, r)
      BY <2>1, BatchHeld
    <2> HIDE DEF a
    <2>3. n \in Nat /\ n >= 1
      OBVIOUS
    <2>4. recorded' = 1..((next + n) - 1)
      BY <1>0, <2>1, <2>3, RecordedGrows
    <2>5. next' \in 1..(MaxRecords + 1) /\ recorded' = 1..(next' - 1)
      <3>1. next' \in 1..(MaxRecords + 1)
        BY <1>0, <2>1, <2>3
      <3> QED
        BY <2>1, <2>4, <3>1, Zenon
    <2>6. rotated \o a \in Seq(Line) /\ Len(rotated \o a) = Len(rotated) + Len(a)
      BY <1>0, <2>2, ConcatProperties
    <2>7. \A r : Holds(rotated \o a, r) <=> Holds(rotated, r) \/ Holds(a, r)
      BY <1>0, <2>2, HoldsEither
    <2>8. \A r \in 1..(next' - 1) : Holds(rotated', r) \/ Holds(current', r)
      BY <2>1, <2>2, <2>7
    <2>9. <<>> \in Seq(Line) /\ Len(<<>>) = 0
      BY EmptySeq
    <2>10. Len(rotated') + Len(current') >= (next' - 1) + 0
      <3>1. Len(rotated) \in Nat /\ Len(a) \in Nat
        BY <1>0, <2>2, LineLengths
      <3>2. \A i, j, k \in Nat : i + j >= k - 1 => (i + j) + 0 >= (k - 1) + 0
        OBVIOUS
      <3>3. next + n \in Nat
        BY <1>0, <2>3
      <3> QED
        BY <2>1, <2>2, <2>6, <2>9, <3>1, <3>2, <3>3
    <2>11. SizeMatches'
      BY <2>1 DEF SizeMatches
    <2> QED
      <3>1. current' \in Seq(Line) /\ rotated' \in Seq(Line)
        BY <2>1, <2>6, <2>9
      <3>2. size' \in Nat /\ failures' \in 0..MaxFailures /\ ended' # "no"
        BY <1>0, <2>1
      <3>3. Len(rotated') + Len(current') >= (next' - 1) + (IF ended' = "no" THEN 1 ELSE 0)
        BY <2>10, <3>2, Zenon
      <3> QED
        BY <2>1, <2>5, <2>8, <2>11, <3>1, <3>2, <3>3 DEF LettersInv, Holds
  <1>3. ASSUME NEW n \in 1..2, RecordFails(n) PROVE LettersInv'
    <2>1. /\ next + n <= MaxRecords + 1 /\ failures' \in 0..MaxFailures
          /\ file' = "closed" /\ size' = 0
          /\ rotated' = rotated /\ recorded' = recorded /\ next' = next
      BY <1>3, <1>a DEF RecordFails, Reopened
    <2>2. PICK whole \in 0..n :
            \/ /\ current' = Written(Batch(whole))
               /\ ended' = IF whole = 0 THEN ended ELSE "yes"
            \/ /\ whole < n
               /\ current' = Written(Batch(whole) \o <<Torn>>)
               /\ ended' = "no"
      BY <1>3 DEF RecordFails
    <2>3. whole \in Nat /\ next + whole <= MaxRecords + 1
      BY <1>0, <2>1
    <2>4. /\ Batch(whole) \in Seq(0..MaxRecords)
          /\ whole = 0 <=> Batch(whole) = <<>>
          /\ Batch(whole) \o <<Torn>> \in Seq(0..MaxRecords)
          /\ Len(Batch(whole) \o <<Torn>>) = whole + 1
      BY <1>0, <2>3, BatchRecords
    <2>5. CASE /\ current' = Written(Batch(whole))
               /\ ended' = IF whole = 0 THEN ended ELSE "yes"
      <3>1. ended' \in {"yes", "no"} /\ (Batch(whole) = <<>> => ended' = ended)
        BY <2>4, <2>5 DEF LettersInv
      <3> QED
        BY <2>1, <2>4, <2>5, <3>1, FailedWrite
    <2>6. CASE /\ current' = Written(Batch(whole) \o <<Torn>>)
               /\ ended' = "no"
      <3>1. Batch(whole) \o <<Torn>> # <<>>
        BY <2>3, <2>4, EmptySeq
      <3> QED
        BY <2>1, <2>4, <2>6, <3>1, FailedWrite
    <2> QED
      BY <2>2, <2>5, <2>6
  <1>4. ASSUME NEW n \in 1..2, RotateFails(n) PROVE LettersInv'
    <2>1. /\ next + n <= MaxRecords + 1 /\ failures' \in 0..MaxFailures
          /\ current' = Written(Batch(n)) /\ ended' = "yes"
          /\ file' = "closed" /\ size' = 0
          /\ rotated' = rotated /\ recorded' = recorded /\ next' = next
      BY <1>4, <1>a DEF RotateFails, Reopened
    <2>2. n \in Nat /\ n # 0
      OBVIOUS
    <2>3. Batch(n) \in Seq(0..MaxRecords) /\ Batch(n) # <<>>
      BY <1>0, <2>1, <2>2, BatchRecords
    <2> QED
      BY <2>1, <2>3, FailedWrite
  <1>5. CASE Restart
    BY <1>5, <1>a DEF Restart, Reopened, LettersInv, SizeMatches, Holds
  <1>6. CASE UNCHANGED letterVars
    <2>1. /\ current' = current /\ ended' = ended /\ rotated' = rotated /\ size' = size
          /\ file' = file /\ recorded' = recorded /\ next' = next /\ failures' = failures
      BY <1>6 DEF letterVars
    <2>2. SizeMatches'
      BY <2>1 DEF LettersInv, SizeMatches, SizeOf
    <2> QED
      BY <2>1, <2>2 DEF LettersInv, Holds
  <1> QED
    BY <1>1, <1>2, <1>3, <1>4, <1>5, <1>6 DEF LettersNext

LEMMA LettersInvariant == LettersSpec => []LettersInv
  <1>1. LettersInit => LettersInv
    <2> SUFFICES ASSUME LettersInit PROVE LettersInv
      OBVIOUS
    <2>1. <<>> \in Seq(Line) /\ Len(<<>>) = 0
      BY EmptySeq
    <2>2. MaxRecords \in Nat /\ MaxFailures \in Nat
      BY DeadLetterAssumption DEF DeadLetterAssumption
    <2>3. 1..(1 - 1) = {}
      OBVIOUS
    <2> QED
      BY <2>1, <2>2, <2>3 DEF LettersInit, LettersInv, SizeMatches
  <1>2. LettersInv /\ [LettersNext]_letterVars => LettersInv'
    BY LettersStep
  <1> QED
    BY <1>1, <1>2, PTL DEF LettersSpec

\* The files hold lines and nothing else, and the acknowledged records are
\* those offered so far.
THEOREM DeadLettersTypeOK == LettersSpec => []LettersTypeOK
  <1>1. LettersInv => LettersTypeOK
    <2> SUFFICES ASSUME LettersInv PROVE LettersTypeOK
      OBVIOUS
    <2>1. rotated \in Seq(Line) /\ current \in Seq(Line)
      BY DEF LettersInv
    <2>2. AllLines \in Seq(Line)
      BY <2>1, ConcatProperties DEF AllLines
    <2>3. \A i \in DOMAIN AllLines : AllLines[i] \in Line
      BY <2>2
    <2>4. \A i \in DOMAIN AllLines :
            AllLines[i] \in Seq(0..MaxRecords) /\ AllLines[i] # <<>>
      BY <2>3, Zenon DEF Line
    <2> QED
      BY <2>4 DEF LettersInv, LettersTypeOK
  <1> QED
    BY <1>1, LettersInvariant, PTL

\* What Record acknowledged is on disk for good, through torn writes, failed
\* rotations and restarts: every record is in one of the files, and Count, the
\* number status reports, is not below theirs, although a record that goes on
\* in a torn line has no line of its own.
THEOREM DeadLettersOnDisk == LettersSpec => []OnDisk
  <1>1. LettersInv => OnDisk
    <2> SUFFICES ASSUME LettersInv PROVE OnDisk
      OBVIOUS
    <2>1. /\ rotated \in Seq(Line) /\ current \in Seq(Line)
          /\ next \in Nat /\ next >= 1 /\ recorded = 1..(next - 1)
          /\ \A r \in recorded : Holds(rotated, r) \/ Holds(current, r)
          /\ Len(rotated) + Len(current) >= (next - 1) + (IF ended = "no" THEN 1 ELSE 0)
      BY DEF LettersInv
    <2> DEFINE all == rotated \o current
    <2>2. all \in Seq(Line) /\ Len(all) = Len(rotated) + Len(current)
      BY <2>1, ConcatProperties
    <2>3. \A r \in recorded : Holds(all, r)
      BY <2>1, HoldsEither
    <2> HIDE DEF all
    <2>4. AllLines = all
      BY DEF AllLines, all
    <2>5. DOMAIN all = 1..Len(all) /\ \A i \in 1..Len(all) : DOMAIN all[i] = 1..Len(all[i])
      <3>1. \A l \in Line : DOMAIN l = 1..Len(l)
        BY LenProperties DEF Line
      <3> QED
        BY <2>2, <3>1, LenProperties, LineLengths
    <2>6. \A r \in recorded : \E i \in DOMAIN all : \E j \in DOMAIN all[i] : all[i][j] = r
      BY <2>3, <2>5, Zenon DEF Holds
    <2>7. Cardinality(recorded) = next - 1
      <3>1. 1 \in Int /\ next - 1 \in Int
        BY <2>1
      <3>2. Cardinality(1..(next - 1)) = IF 1 > next - 1 THEN 0 ELSE (next - 1) - 1 + 1
        BY <3>1, FS_Interval
      <3> QED
        BY <2>1, <3>2
    <2>8. Len(rotated) \in Nat /\ Len(current) \in Nat
      BY <2>1, LineLengths
    <2>9. Count >= Cardinality(recorded)
      BY <2>1, <2>2, <2>4, <2>7, <2>8 DEF Count
    <2> QED
      BY <2>4, <2>6, <2>9 DEF OnDisk
  <1> QED
    BY <1>1, LettersInvariant, PTL

\* The writer's count of its file is the size of the file, also of one it
\* found after a restart or a torn write, and a full file has been rotated.
THEOREM DeadLettersSizeMatches == LettersSpec => []SizeMatches
  <1>1. LettersInv => SizeMatches
    BY DEF LettersInv
  <1> QED
    BY <1>1, LettersInvariant, PTL

-----------------------------------------------------------------------------
(***************************************************************************)
(* One Write of a sink.  Of the calls still to be made only the documents  *)
(* matter to what a Write promises: Queue.                                 *)
(***************************************************************************)
DocSeq == Seq(SinkDoc) \ {<<>>}
DocsIn(s) == {s[i] : i \in 1..Len(s)}

ElasticPart == [docs : DocSeq, attempt : Nat]
ClickHousePart == [docs : DocSeq, attempt : Nat, depth : Nat]

\* The documents of the parts of q.
Queue(q) == [p \in 1..Len(q) |-> q[p].docs]

\* A sequence of documents is a finite set of documents.
LEMMA DocsFinite ==
  ASSUME NEW s \in Seq(SinkDoc)
  PROVE  /\ IsFiniteSet(DocsIn(s)) /\ DocsIn(s) \subseteq SinkDoc
         /\ Elastic!Elems(s) = DocsIn(s) /\ ClickHouse!Elems(s) = DocsIn(s)
         /\ s # <<>> => DocsIn(s) # {}
  <1>1. Len(s) \in Nat /\ DOMAIN s = 1..Len(s) /\ \A i \in 1..Len(s) : s[i] \in SinkDoc
    BY LenProperties, ElementOfSeq
  <1>2. Elastic!Elems(s) = DocsIn(s) /\ ClickHouse!Elems(s) = DocsIn(s)
    BY <1>1 DEF Elastic!Elems, ClickHouse!Elems, DocsIn
  <1>3. IsFiniteSet(DocsIn(s))
    <2> DEFINE f == [i \in 1..Len(s) |-> s[i]]
    <2>1. f \in Surjection(1..Len(s), DocsIn(s))
      BY DEF Surjection, DocsIn
    <2>2. 1 \in Int /\ Len(s) \in Int
      BY <1>1
    <2>3. IsFiniteSet(1..Len(s))
      BY <2>2, FS_Interval
    <2> QED
      BY <2>1, <2>3, FS_Surjection
  <1>4. s # <<>> => DocsIn(s) # {}
    <2>1. s # <<>> => 1 \in 1..Len(s)
      BY <1>1, EmptySeq
    <2> QED
      BY <2>1 DEF DocsIn
  <1> QED
    BY <1>1, <1>2, <1>3, <1>4 DEF DocsIn

\* The versions of a sequence of documents are bounded.
LEMMA VersionsBounded ==
  ASSUME NEW s \in Seq(SinkDoc), NEW v \in Nat
  PROVE  \E n \in Nat : v <= n /\ \A d \in DocsIn(s) : d.ver <= n
  <1> DEFINE T == {k \in Nat : \E n \in Nat : v <= n /\ \A i \in 1..k : i <= Len(s) => s[i].ver <= n}
  <1>1. Len(s) \in Nat /\ \A i \in 1..Len(s) : s[i].ver \in Nat
    <2>1. Len(s) \in Nat /\ \A i \in 1..Len(s) : s[i] \in SinkDoc
      BY LenProperties, ElementOfSeq
    <2>2. \A d \in SinkDoc : d.ver \in Nat
      BY DEF SinkDoc
    <2> QED
      BY <2>1, <2>2
  <1>2. 0 \in T
    OBVIOUS
  <1>3. ASSUME NEW k \in 0..(Len(s) - 1), k \in T PROVE k + 1 \in T
    <2>1. PICK n \in Nat : v <= n /\ \A i \in 1..k : i <= Len(s) => s[i].ver <= n
      BY <1>3
    <2>2. k + 1 \in 1..Len(s) /\ s[k + 1].ver \in Nat /\ k + 1 \in Nat
      BY <1>1
    <2> DEFINE m == n + s[k + 1].ver
    <2>3. m \in Nat /\ n <= m /\ s[k + 1].ver <= m
      BY <2>2
    <2> HIDE DEF m
    <2>4. \A i \in 1..(k + 1) : i <= Len(s) => s[i].ver <= m
      <3> SUFFICES ASSUME NEW i \in 1..(k + 1), i <= Len(s) PROVE s[i].ver <= m
        OBVIOUS
      <3>1. CASE i = k + 1
        BY <2>3, <3>1
      <3>2. CASE i # k + 1
        <4>1. i \in 1..k /\ i \in 1..Len(s)
          BY <1>1, <3>2
        <4>2. s[i].ver <= n /\ s[i].ver \in Nat
          BY <1>1, <2>1, <4>1
        <4> QED
          BY <2>3, <4>2
      <3> QED
        BY <3>1, <3>2
    <2>5. v <= m
      BY <2>1, <2>3
    <2> QED
      BY <2>2, <2>3, <2>4, <2>5
  <1> HIDE DEF T
  <1>4. 0..Len(s) \subseteq T
    BY <1>1, <1>2, <1>3, UpTo
  <1>5. Len(s) \in T
    BY <1>1, <1>4
  <1>6. PICK n \in Nat : v <= n /\ \A i \in 1..Len(s) : i <= Len(s) => s[i].ver <= n
    BY <1>5 DEF T
  <1>7. \A i \in 1..Len(s) : s[i].ver <= n
    BY <1>1, <1>6
  <1> QED
    BY <1>6, <1>7 DEF DocsIn

\* A bounded set of naturals has a greatest member.
LEMMA GreatestExists ==
  ASSUME NEW T \in SUBSET Nat, T # {}, NEW n \in Nat, \A x \in T : x <= n
  PROVE  \E x \in T : \A y \in T : x >= y
  <1> DEFINE U == {n - x : x \in T}
  <1>1. U \in SUBSET Nat /\ U # {}
    <2>1. \A x \in T : n - x \in Nat
      OBVIOUS
    <2> QED
      BY <2>1
  <1>2. PICK u \in U : \A y \in U : u <= y
    BY <1>1, LeastExists
  <1>3. PICK x \in T : u = n - x
    OBVIOUS
  <1>4. ASSUME NEW y \in T PROVE x >= y
    <2>1. n - x <= n - y
      BY <1>2, <1>3
    <2> QED
      BY <2>1
  <1> QED
    BY <1>4

\* What the destination holds after documents reach it: nothing goes back, and
\* each of them is there at its version or above.
LEMMA AbsorbedHolds ==
  ASSUME stored \in [Keys -> Nat], NEW s \in Seq(SinkDoc), NEW S \in SUBSET DocsIn(s)
  PROVE  /\ Contract!Absorbed(S) \in [Keys -> Nat]
         /\ \A k \in Keys : Contract!Absorbed(S)[k] >= stored[k]
         /\ \A d \in S : Contract!Absorbed(S)[d.key] >= d.ver
         /\ Elastic!Contract!Absorbed(S) = Contract!Absorbed(S)
         /\ ClickHouse!Contract!Absorbed(S) = Contract!Absorbed(S)
  <1> DEFINE vs(k) == {stored[k]} \cup {d.ver : d \in {x \in S : x.key = k}}
             top(k) == CHOOSE v \in vs(k) : \A w \in vs(k) : v >= w
             a == Contract!Absorbed(S)
  <1>1. a = [k \in DOMAIN stored |-> top(k)] /\ DOMAIN stored = Keys
    BY DEF Contract!Absorbed
  <1>2. DocsIn(s) \subseteq SinkDoc
    BY DocsFinite
  <1>3. \A d \in S : d.ver \in Nat /\ d.key \in Keys
    BY <1>2 DEF SinkDoc
  <1>4. ASSUME NEW k \in Keys PROVE top(k) \in vs(k) /\ vs(k) \in SUBSET Nat
                                    /\ \A w \in vs(k) : top(k) >= w
    <2>1. vs(k) \in SUBSET Nat /\ vs(k) # {}
      BY <1>3
    <2>2. stored[k] \in Nat
      OBVIOUS
    <2>3. PICK n \in Nat : stored[k] <= n /\ \A d \in DocsIn(s) : d.ver <= n
      BY <2>2, VersionsBounded
    <2>4. \A x \in vs(k) : x <= n
      BY <2>3
    <2> HIDE DEF vs
    <2>5. \E x \in vs(k) : \A y \in vs(k) : x >= y
      BY <2>1, <2>4, GreatestExists
    <2> QED
      BY <2>1, <2>5
  <1>5. \A k \in Keys : stored[k] \in vs(k)
    OBVIOUS
  <1>6. \A d \in S : d.ver \in vs(d.key)
    OBVIOUS
  <1> HIDE DEF vs, top
  <1>7. a \in [Keys -> Nat]
    BY <1>1, <1>4
  <1>8. \A k \in Keys : a[k] >= stored[k]
    BY <1>1, <1>4, <1>5
  <1>9. \A d \in S : a[d.key] >= d.ver
    BY <1>1, <1>3, <1>4, <1>6
  <1>10. Elastic!Contract!Absorbed(S) = a /\ ClickHouse!Contract!Absorbed(S) = a
    BY DEF Elastic!Contract!Absorbed, ClickHouse!Contract!Absorbed, Contract!Absorbed
  <1> QED
    BY <1>7, <1>8, <1>9, <1>10

\* Nothing reaches it: it stays as it is.
LEMMA AbsorbedNothing ==
  ASSUME stored \in [Keys -> Nat]
  PROVE  Contract!Absorbed({}) = stored
  <1> DEFINE vs(k) == {stored[k]} \cup {d.ver : d \in {x \in {} : x.key = k}}
  <1>1. \A k \in Keys : vs(k) = {stored[k]} /\ stored[k] >= stored[k]
    OBVIOUS
  <1>2. \A k \in Keys : (CHOOSE v \in vs(k) : \A w \in vs(k) : v >= w) = stored[k]
    BY <1>1
  <1>3. DOMAIN stored = Keys /\ stored = [k \in Keys |-> stored[k]]
    OBVIOUS
  <1> QED
    BY <1>2, <1>3 DEF Contract!Absorbed

\* The queue of parts, taken apart and put together.
LEMMA QueueParts ==
  ASSUME NEW P, \A x \in P : x.docs \in DocSeq, NEW q \in Seq(P)
  PROVE  /\ Queue(q) \in Seq(DocSeq) /\ Len(Queue(q)) = Len(q)
         /\ q = <<>> <=> Queue(q) = <<>>
         /\ q # <<>> => /\ Head(q) \in P /\ Tail(q) \in Seq(P)
                        /\ Head(Queue(q)) = Head(q).docs
                        /\ Queue(Tail(q)) = Tail(Queue(q))
                        /\ \A new \in Seq(P) :
                             /\ new \o Tail(q) \in Seq(P)
                             /\ Queue(new \o Tail(q)) = Queue(new) \o Tail(Queue(q))
  <1>1. ASSUME NEW r \in Seq(P)
        PROVE  /\ Queue(r) \in Seq(DocSeq) /\ Len(Queue(r)) = Len(r)
               /\ \A i \in 1..Len(r) : Queue(r)[i] = r[i].docs
    <2>1. Len(r) \in Nat /\ \A i \in 1..Len(r) : r[i].docs \in DocSeq
      BY LenProperties, ElementOfSeq
    <2> QED
      BY <2>1 DEF Queue
  <1>2. q = <<>> <=> Queue(q) = <<>>
    BY <1>1, EmptySeq
  <1>3. ASSUME NEW s \in Seq(P), NEW t \in Seq(P)
        PROVE  s \o t \in Seq(P) /\ Queue(s \o t) = Queue(s) \o Queue(t)
    <2> DEFINE a == Queue(s \o t)
               b == Queue(s) \o Queue(t)
    <2>1. /\ s \o t \in Seq(P) /\ Len(s \o t) = Len(s) + Len(t)
          /\ \A i \in 1..(Len(s) + Len(t)) :
               (s \o t)[i] = IF i <= Len(s) THEN s[i] ELSE t[i - Len(s)]
      BY ConcatProperties
    <2>2. /\ Queue(s) \in Seq(DocSeq) /\ Len(Queue(s)) = Len(s)
          /\ \A i \in 1..Len(s) : Queue(s)[i] = s[i].docs
      BY <1>1
    <2>3. /\ Queue(t) \in Seq(DocSeq) /\ Len(Queue(t)) = Len(t)
          /\ \A i \in 1..Len(t) : Queue(t)[i] = t[i].docs
      BY <1>1
    <2>4. /\ a \in Seq(DocSeq) /\ Len(a) = Len(s) + Len(t)
          /\ \A i \in 1..(Len(s) + Len(t)) : a[i] = (s \o t)[i].docs
      BY <1>1, <2>1
    <2>5. /\ b \in Seq(DocSeq) /\ Len(b) = Len(s) + Len(t)
          /\ \A i \in 1..(Len(s) + Len(t)) :
               b[i] = IF i <= Len(s) THEN Queue(s)[i] ELSE Queue(t)[i - Len(s)]
      <3> DEFINE x == Queue(s)
                 y == Queue(t)
      <3>1. x \in Seq(DocSeq) /\ y \in Seq(DocSeq) /\ Len(x) = Len(s) /\ Len(y) = Len(t)
        BY <2>2, <2>3
      <3> HIDE DEF x, y
      <3>2. /\ x \o y \in Seq(DocSeq) /\ Len(x \o y) = Len(x) + Len(y)
            /\ \A i \in 1..(Len(x) + Len(y)) :
                 (x \o y)[i] = IF i <= Len(x) THEN x[i] ELSE y[i - Len(x)]
        BY <3>1, ConcatProperties
      <3>3. /\ x \o y \in Seq(DocSeq) /\ Len(x \o y) = Len(s) + Len(t)
            /\ \A i \in 1..(Len(s) + Len(t)) :
                 (x \o y)[i] = IF i <= Len(s) THEN x[i] ELSE y[i - Len(s)]
        BY <3>1, <3>2, Zenon
      <3> QED
        BY <3>3 DEF x, y
    <2>6. Len(s) \in Nat /\ Len(t) \in Nat
      BY LenProperties
    <2> HIDE DEF a, b
    <2>7. \A i \in 1..(Len(s) + Len(t)) : a[i] = b[i]
      <3> SUFFICES ASSUME NEW i \in 1..(Len(s) + Len(t)) PROVE a[i] = b[i]
        OBVIOUS
      <3>1. CASE i <= Len(s)
        <4>1. i \in 1..Len(s)
          BY <2>6, <3>1
        <4> QED
          BY <2>1, <2>2, <2>4, <2>5, <3>1, <4>1
      <3>2. CASE ~ (i <= Len(s))
        <4>1. i - Len(s) \in 1..Len(t)
          BY <2>6, <3>2
        <4> QED
          BY <2>1, <2>3, <2>4, <2>5, <3>2, <4>1
      <3> QED
        BY <3>1, <3>2
    <2>8. a = b
      BY <2>4, <2>5, <2>7, SeqEqual
    <2> QED
      BY <2>1, <2>8 DEF a, b
  <1>4. ASSUME q # <<>>
        PROVE  /\ Head(q) \in P /\ Tail(q) \in Seq(P)
               /\ Head(Queue(q)) = Head(q).docs
               /\ Queue(Tail(q)) = Tail(Queue(q))
    <2> DEFINE w == Queue(q)
    <2>1. w \in Seq(DocSeq) /\ Len(w) = Len(q) /\ w # <<>>
          /\ \A i \in 1..Len(q) : w[i] = q[i].docs
      BY <1>1, <1>2, <1>4
    <2>2. Head(q) \in P /\ Tail(q) \in Seq(P) /\ Len(Tail(q)) = Len(q) - 1
          /\ (\A i \in 1..Len(Tail(q)) : Tail(q)[i] = q[i + 1]) /\ Head(q) = q[1]
      BY <1>4, HeadTailProperties
    <2> HIDE DEF w
    <2>3. Tail(w) \in Seq(DocSeq) /\ Len(Tail(w)) = Len(w) - 1
          /\ (\A i \in 1..Len(Tail(w)) : Tail(w)[i] = w[i + 1]) /\ Head(w) = w[1]
      BY <2>1, HeadTailProperties
    <2>4. Len(q) \in Nat /\ Len(q) >= 1
      BY <1>4, EmptySeq
    <2>5. Head(w) = Head(q).docs
      BY <2>1, <2>2, <2>3, <2>4
    <2>6. /\ Queue(Tail(q)) \in Seq(DocSeq) /\ Len(Queue(Tail(q))) = Len(q) - 1
          /\ \A i \in 1..(Len(q) - 1) : Queue(Tail(q))[i] = Tail(q)[i].docs
      BY <1>1, <2>2
    <2>7. \A i \in 1..(Len(q) - 1) : Queue(Tail(q))[i] = Tail(w)[i]
      <3> SUFFICES ASSUME NEW i \in 1..(Len(q) - 1) PROVE Queue(Tail(q))[i] = Tail(w)[i]
        OBVIOUS
      <3>1. i + 1 \in 1..Len(q)
        BY <2>4
      <3>2. Tail(q)[i] = q[i + 1] /\ Tail(w)[i] = w[i + 1]
        BY <2>1, <2>2, <2>3
      <3> QED
        BY <2>1, <2>6, <3>1, <3>2
    <2>8. Queue(Tail(q)) = Tail(w)
      BY <2>1, <2>3, <2>6, <2>7, SeqEqual
    <2> QED
      BY <2>2, <2>5, <2>8 DEF w
  <1>5. ASSUME q # <<>>, NEW new \in Seq(P)
        PROVE  /\ new \o Tail(q) \in Seq(P)
               /\ Queue(new \o Tail(q)) = Queue(new) \o Tail(Queue(q))
    BY <1>3, <1>4, <1>5
  <1> QED
    BY <1>1, <1>2, <1>4, <1>5

\* The queue of one part, and of two.
LEMMA QueueOfFew ==
  ASSUME NEW P, \A x \in P : x.docs \in DocSeq, NEW a \in P, NEW b \in P
  PROVE  /\ <<a>> \in Seq(P) /\ Queue(<<a>>) = <<a.docs>>
         /\ <<a, b>> \in Seq(P) /\ Queue(<<a, b>>) = <<a.docs, b.docs>>
  BY DEF Queue

\* The two halves of a part of more than one document.
LEMMA HalvesOfPart ==
  ASSUME NEW s \in Seq(SinkDoc), Len(s) > 1
  PROVE  LET mid == Len(s) \div 2
             a == SubSeq(s, 1, mid)
             b == SubSeq(s, mid + 1, Len(s))
         IN  /\ a \in DocSeq /\ b \in DocSeq /\ a \o b = s
             /\ Len(a) = mid /\ Len(b) = Len(s) - mid
             /\ mid \in 1..(Len(s) - 1)
             /\ \A n \in Nat : Len(s) <= 2 * n => mid <= n /\ Len(s) - mid <= n
  <1> DEFINE n == Len(s)
             mid == n \div 2
             a == SubSeq(s, 1, mid)
             b == SubSeq(s, mid + 1, n)
  <1>1. n \in Nat /\ \A i \in 1..n : s[i] \in SinkDoc
    BY LenProperties, ElementOfSeq
  <1>2. n > 1
    OBVIOUS
  <1> HIDE DEF n
  <1>3. mid \in 1..(n - 1) /\ \A m \in Nat : n <= 2 * m => mid <= m /\ n - mid <= m
    BY <1>1, <1>2
  <1> HIDE DEF mid
  <1>4. mid \in Nat /\ 1 <= mid /\ mid + 1 <= n /\ mid <= n
    BY <1>1, <1>3
  <1>5. a \in Seq(SinkDoc) /\ Len(a) = mid
    <2>1. \A i \in 1..mid : s[i] \in SinkDoc
      BY <1>1, <1>4
    <2>2. 1 \in Int /\ mid \in Int /\ mid - 1 + 1 = mid
      BY <1>4
    <2> QED
      BY <1>4, <2>1, <2>2, SubSeqProperties
  <1>6. b \in Seq(SinkDoc) /\ Len(b) = n - mid
    <2>1. \A i \in (mid + 1)..n : s[i] \in SinkDoc
      BY <1>1, <1>4
    <2>2. mid + 1 \in Int /\ n \in Int /\ n - (mid + 1) + 1 = n - mid
      BY <1>1, <1>4
    <2> QED
      BY <1>4, <2>1, <2>2, SubSeqProperties
  <1>7. a \o b = s
    <2>1. 1 \in 1..(Len(s) + 1) /\ mid \in (1 - 1)..Len(s) /\ Len(s) \in mid..Len(s)
      BY <1>1, <1>4 DEF n
    <2>2. SubSeq(s, 1, mid) \o SubSeq(s, mid + 1, Len(s)) = SubSeq(s, 1, Len(s))
      BY <2>1, ConcatAdjacentSubSeq
    <2> QED
      BY <2>2, SubSeqFull DEF n
  <1>8. Len(<<>>) = 0 /\ mid # 0 /\ n - mid # 0
    BY <1>1, <1>4
  <1>9. a # <<>> /\ b # <<>>
    BY <1>5, <1>6, <1>8
  <1> QED
    BY <1>3, <1>5, <1>6, <1>7, <1>9 DEF DocSeq, n, mid

\* The documents of a part that are in I: Pick keeps their order, so that it
\* names each of them once.
LEMMA PickKeeps ==
  ASSUME NEW s \in Seq(SinkDoc), NEW I
  PROVE  /\ Elastic!Pick(s, I) \in Seq(SinkDoc)
         /\ DocsIn(Elastic!Pick(s, I)) = DocsIn(s) \cap I
         /\ (\A i, j \in 1..Len(s) : s[i] = s[j] => i = j)
              => \A i, j \in 1..Len(Elastic!Pick(s, I)) :
                   Elastic!Pick(s, I)[i] = Elastic!Pick(s, I)[j] => i = j
  <1> DEFINE kept == {i \in 1..Len(s) : s[i] \in I}
             upTo(i) == {j \in kept : j <= i}
             rank == [i \in kept |-> Cardinality(upTo(i))]
             m == Cardinality(kept)
             at(n) == CHOOSE i \in kept : Cardinality(upTo(i)) = n
             p == Elastic!Pick(s, I)
  <1>1. Len(s) \in Nat /\ DOMAIN s = 1..Len(s) /\ \A i \in 1..Len(s) : s[i] \in SinkDoc
    BY LenProperties, ElementOfSeq
  <1>2. IsFiniteSet(kept) /\ m \in Nat
    <2>1. 1 \in Int /\ Len(s) \in Int
      BY <1>1
    <2>2. IsFiniteSet(1..Len(s))
      BY <2>1, FS_Interval
    <2>3. kept \in SUBSET (1..Len(s))
      OBVIOUS
    <2> HIDE DEF kept
    <2>4. IsFiniteSet(kept)
      BY <2>2, <2>3, FS_Subset
    <2> QED
      BY <2>4, FS_CardinalityType
  <1>3. \A i \in 1..Len(s) : i \in kept <=> s[i] \in I
    OBVIOUS
  <1>4. kept \subseteq 1..Len(s)
    OBVIOUS
  <1>5. p = [n \in 1..m |-> s[at(n)]]
    <2>1. {i \in DOMAIN s : s[i] \in I} = kept
      BY <1>1
    <2>2. \A S : Elastic!Cardinality(S) = Cardinality(S)
      BY DEF Elastic!Cardinality, Cardinality
    <2> DEFINE K == {i \in DOMAIN s : s[i] \in I}
    <2>3. p = [n \in 1..Elastic!Cardinality(K) |->
                 s[CHOOSE i \in K : Elastic!Cardinality({j \in K : j <= i}) = n]]
      BY DEF Elastic!Pick
    <2>4. K = kept
      BY <2>1
    <2> HIDE DEF K, kept, p
    <2> DEFINE choice(n) == CHOOSE i \in kept : Elastic!Cardinality({j \in kept : j <= i}) = n
    <2>5. p = [n \in 1..Elastic!Cardinality(kept) |-> s[choice(n)]]
      BY <2>3, <2>4
    <2>6. \A n : choice(n) = at(n)
      BY <2>2
    <2>7. Elastic!Cardinality(kept) = m
      BY <2>2
    <2> HIDE DEF at, m, choice
    <2> QED
      BY <2>5, <2>6, <2>7
  <1> HIDE DEF kept, p
  <1>6. ASSUME NEW i \in kept
        PROVE  /\ IsFiniteSet(upTo(i)) /\ i \in upTo(i) /\ upTo(i) \subseteq kept
               /\ Cardinality(upTo(i)) \in 1..m
    <2>1. upTo(i) \in SUBSET kept /\ i \in upTo(i)
      BY <1>1, <1>4
    <2> HIDE DEF upTo
    <2>2. IsFiniteSet(upTo(i)) /\ Cardinality(upTo(i)) <= m
      BY <1>2, <2>1, FS_Subset
    <2>3. Cardinality(upTo(i)) \in Nat /\ Cardinality(upTo(i)) # 0
      <3>1. upTo(i) # {}
        BY <2>1
      <3> QED
        BY <2>2, <3>1, FS_EmptySet, FS_CardinalityType
    <2>4. Cardinality(upTo(i)) \in 1..m
      BY <1>2, <2>2, <2>3
    <2> QED
      BY <2>1, <2>2, <2>4
  <1>7. ASSUME NEW i \in kept, NEW j \in kept, i < j
        PROVE  Cardinality(upTo(i)) # Cardinality(upTo(j))
    <2>0. i \in Nat /\ j \in Nat /\ \A k \in kept : k \in Nat
      BY <1>1, <1>4
    <2>1. upTo(i) \in SUBSET upTo(j)
      <3>1. \A k \in Nat : k <= i => k <= j
        BY <1>7, <2>0
      <3> QED
        BY <2>0, <3>1
    <2>2. j \in upTo(j) /\ j \notin upTo(i)
      BY <1>1, <1>4, <1>7
    <2>3. IsFiniteSet(upTo(j))
      BY <1>6
    <2> HIDE DEF upTo
    <2>4. Cardinality(upTo(j)) = Cardinality(upTo(i)) => upTo(j) = upTo(i)
      BY <2>1, <2>3, FS_Subset
    <2> QED
      BY <2>2, <2>4
  <1>8. ASSUME NEW i \in kept, NEW j \in kept, Cardinality(upTo(i)) = Cardinality(upTo(j))
        PROVE  i = j
    <2>1. i \in Nat /\ j \in Nat
      BY <1>1, <1>4
    <2>2. ~ (i < j) /\ ~ (j < i)
      BY <1>7, <1>8
    <2> QED
      BY <2>1, <2>2
  <1>9. rank \in Injection(kept, 1..m)
    <2>1. rank \in [kept -> 1..m]
      BY <1>6
    <2>2. \A i, j \in kept : rank[i] = rank[j] => i = j
      BY <1>8
    <2> HIDE DEF rank
    <2> QED
      BY <2>1, <2>2 DEF Injection, IsInjective
  <1>10. rank \in Surjection(kept, 1..m)
    <2>1. 1 \in Int /\ m \in Int
      BY <1>2
    <2>2. IsFiniteSet(1..m) /\ Cardinality(1..m) = IF 1 > m THEN 0 ELSE m - 1 + 1
      BY <2>1, FS_Interval
    <2>3. Cardinality(1..m) = m
      BY <1>2, <2>2
    <2>4. Cardinality(kept) = Cardinality(1..m)
      BY <2>3
    <2> HIDE DEF rank, m
    <2> QED
      BY <1>9, <2>2, <2>4, FS_Injection
  <1>11. \A n \in 1..m : \E i \in kept : Cardinality(upTo(i)) = n
    BY <1>10 DEF Surjection
  <1>12. \A n \in 1..m : at(n) \in kept /\ Cardinality(upTo(at(n))) = n
    BY <1>11
  <1> HIDE DEF at, upTo, m, rank
  <1>13. p \in Seq(SinkDoc) /\ Len(p) = m /\ \A n \in 1..m : p[n] = s[at(n)]
    <2>1. \A n \in 1..m : s[at(n)] \in SinkDoc
      BY <1>1, <1>4, <1>12
    <2> QED
      BY <1>2, <1>5, <2>1
  <1>14. DocsIn(p) = DocsIn(s) \cap I
    <2>1. ASSUME NEW d \in DocsIn(p) PROVE d \in DocsIn(s) \cap I
      <3>1. PICK n \in 1..m : d = s[at(n)]
        BY <1>13 DEF DocsIn
      <3>2. at(n) \in kept /\ at(n) \in 1..Len(s)
        BY <1>4, <1>12
      <3> QED
        BY <1>3, <3>1, <3>2 DEF DocsIn
    <2>2. ASSUME NEW d \in DocsIn(s) \cap I PROVE d \in DocsIn(p)
      <3>1. PICK i \in 1..Len(s) : d = s[i]
        BY DEF DocsIn
      <3>2. i \in kept
        BY <1>3, <3>1
      <3> DEFINE n == Cardinality(upTo(i))
      <3>3. n \in 1..m
        BY <1>6, <3>2
      <3>4. at(n) = i
        BY <1>8, <1>12, <3>2, <3>3
      <3>5. p[n] = d
        BY <1>13, <3>1, <3>3, <3>4
      <3> HIDE DEF n
      <3> QED
        BY <1>13, <3>3, <3>5 DEF DocsIn
    <2> QED
      BY <2>1, <2>2
  <1>15. ASSUME \A i, j \in 1..Len(s) : s[i] = s[j] => i = j,
                NEW i \in 1..Len(p), NEW j \in 1..Len(p), p[i] = p[j]
         PROVE  i = j
    <2>1. s[at(i)] = s[at(j)] /\ i \in 1..m /\ j \in 1..m
      BY <1>13, <1>15
    <2>2. at(i) \in 1..Len(s) /\ at(j) \in 1..Len(s)
      BY <1>4, <1>12, <2>1
    <2>3. at(i) = at(j)
      BY <1>15, <2>1, <2>2
    <2> QED
      BY <1>12, <2>1, <2>3
  <1> QED
    BY <1>13, <1>14, <1>15 DEF p

Distinct(s) == \A i, j \in 1..Len(s) : s[i] = s[j] => i = j

SinkTypes ==
  /\ kind \in {"elasticsearch", "clickhouse"}
  /\ batch \in DocSeq
  /\ stored \in [Keys -> Nat]
  /\ applied \in Int /\ stale \in Nat /\ faults \in Nat /\ denied \in BOOLEAN
  /\ status \in {"writing", "ok", "failed"}
  /\ kind = "elasticsearch" => parts \in Seq(ElasticPart)
  /\ kind = "clickhouse" => parts \in Seq(ClickHousePart)
  /\ status = "writing" => parts # <<>>

\* The documents of the call in progress.
Docs == Head(Queue(parts))

\* ClickHouse holds what it has a token for.
TokenKnown ==
  kind = "clickhouse" /\ parts # <<>> /\ ClickHouse!Token(Docs) \in tokens =>
    \A d \in DocsIn(Docs) : stored[d.key] >= d.ver

(***************************************************************************)
(* Whatever the sink, a step of a Write is one of three.  Nothing is       *)
(* counted, although documents may have arrived; the call is replaced by   *)
(* two for its halves; or documents are counted, some as refused, and a    *)
(* call for the rest remains if there is one.                              *)
(***************************************************************************)
CountsNothing ==
  /\ Queue(parts)' = Queue(parts)
  /\ UNCHANGED <<applied, stale, rejected>>
  /\ status' \in {"writing", "failed"}

Splits ==
  /\ \E a, b \in DocSeq :
       a \o b = Docs /\ Queue(parts)' = <<a, b>> \o Tail(Queue(parts))
  /\ UNCHANGED <<applied, stale, rejected, stored, status>>

Counts(rest, refused) ==
  /\ rest \in Seq(SinkDoc) /\ DocsIn(rest) \subseteq DocsIn(Docs)
  /\ Distinct(Docs) => Distinct(rest)
  /\ refused \subseteq DocsIn(Docs) \ DocsIn(rest)
  /\ rejected' = rejected \cup refused
  /\ denied' \/ refused \subseteq Refused
  /\ applied' + stale' + Cardinality(refused) + Len(rest) = applied + stale + Len(Docs)
  /\ TokenKnown => \A d \in DocsIn(Docs) \ DocsIn(rest) :
                     d \in refused \/ stored'[d.key] >= d.ver
  /\ \/ rest # <<>> /\ status' = "failed"
     \/ /\ rest # <<>> /\ status' = "writing"
        /\ Queue(parts)' = <<rest>> \o Tail(Queue(parts))
     \/ /\ rest = <<>> /\ Queue(parts)' = Tail(Queue(parts))
        /\ status' = IF Tail(Queue(parts)) = <<>> THEN "ok" ELSE "writing"

SinkStep ==
  /\ status = "writing" /\ UNCHANGED batch /\ (denied => denied')
  /\ \E S \in SUBSET DocsIn(Docs) : stored' = Contract!Absorbed(S)
  /\ CountsNothing \/ Splits \/ \E rest, refused : Counts(rest, refused)

\* Nothing that a Write promises changes.
SinkStutter ==
  UNCHANGED <<batch, parts, stored, applied, stale, rejected, status, denied>>

\* What the call in progress is about.
LEMMA CallInProgress ==
  ASSUME NEW P, \A x \in P : x.docs \in DocSeq, parts \in Seq(P), parts # <<>>
  PROVE  /\ Docs = Head(parts).docs /\ Docs \in DocSeq /\ Docs \in Seq(SinkDoc)
         /\ Head(parts) \in P /\ Tail(parts) \in Seq(P)
         /\ Len(Docs) \in Nat /\ Len(Docs) >= 1
         /\ Elastic!Elems(Docs) = DocsIn(Docs) /\ ClickHouse!Elems(Docs) = DocsIn(Docs)
         /\ IsFiniteSet(DocsIn(Docs)) /\ DocsIn(Docs) \subseteq SinkDoc
  <1>1. Head(parts) \in P /\ Tail(parts) \in Seq(P) /\ Docs = Head(parts).docs
    BY QueueParts DEF Docs
  <1>2. Docs \in DocSeq
    BY <1>1
  <1>3. Docs \in Seq(SinkDoc) /\ Docs # <<>>
    BY <1>2 DEF DocSeq
  <1>4. Len(Docs) \in Nat /\ Len(Docs) >= 1
    BY <1>3, EmptySeq
  <1> QED
    BY <1>1, <1>2, <1>3, <1>4, DocsFinite

\* The parts of both sinks hold documents.
LEMMA PartsHoldDocs ==
  /\ \A x \in ElasticPart : x.docs \in DocSeq /\ x.attempt \in Nat
  /\ \A x \in ClickHousePart : x.docs \in DocSeq /\ x.attempt \in Nat /\ x.depth \in Nat
  BY DEF ElasticPart, ClickHousePart

\* A call that is repeated, and one that is given up.
LEMMA CallRepeated ==
  ASSUME NEW P, \A x \in P : x.docs \in DocSeq, parts \in Seq(P), parts # <<>>,
         NEW a \in P, parts' = <<a>> \o Tail(parts)
  PROVE  /\ parts' \in Seq(P) /\ parts' # <<>>
         /\ Queue(parts)' = <<a.docs>> \o Tail(Queue(parts))
         /\ a.docs = Docs => Queue(parts)' = Queue(parts)
  <1>1. <<a>> \in Seq(P) /\ Queue(<<a>>) = <<a.docs>>
    BY QueueOfFew
  <1>2. parts' \in Seq(P) /\ Queue(parts') = <<a.docs>> \o Tail(Queue(parts))
    <2> DEFINE new == <<a>>
    <2>1. new \in Seq(P)
      BY <1>1
    <2> HIDE DEF new
    <2>2. /\ new \o Tail(parts) \in Seq(P)
          /\ Queue(new \o Tail(parts)) = Queue(new) \o Tail(Queue(parts))
      BY <2>1, QueueParts
    <2>3. Queue(new) = <<a.docs>> /\ parts' = new \o Tail(parts)
      BY <1>1 DEF new
    <2> QED
      BY <2>2, <2>3, Zenon
  <1>3. Queue(parts)' = Queue(parts')
    BY DEF Queue
  <1>4. parts' # <<>>
    <2>1. Tail(parts) \in Seq(P) /\ Len(<<a>>) = 1
      BY CallInProgress
    <2>2. Len(parts') = 1 + Len(Tail(parts)) /\ Len(Tail(parts)) \in Nat
      BY <1>1, <2>1, ConcatProperties, LenProperties
    <2> QED
      BY <1>2, <2>2, EmptySeq
  <1>5. a.docs = Docs => <<a.docs>> \o Tail(Queue(parts)) = Queue(parts)
    <2>1. Queue(parts) \in Seq(DocSeq) /\ Queue(parts) # <<>>
      BY QueueParts
    <2>2. \A w \in Seq(DocSeq) : w # <<>> => <<Head(w)>> \o Tail(w) = w
      OBVIOUS
    <2> QED
      BY <2>1, <2>2 DEF Docs
  <1> QED
    BY <1>2, <1>3, <1>4, <1>5

\* A call that is replaced by two.
LEMMA CallSplit ==
  ASSUME NEW P, \A x \in P : x.docs \in DocSeq, parts \in Seq(P), parts # <<>>,
         NEW a \in P, NEW b \in P, parts' = <<a, b>> \o Tail(parts)
  PROVE  /\ parts' \in Seq(P) /\ parts' # <<>>
         /\ Queue(parts)' = <<a.docs, b.docs>> \o Tail(Queue(parts))
  <1>1. <<a, b>> \in Seq(P) /\ Queue(<<a, b>>) = <<a.docs, b.docs>>
    BY QueueOfFew
  <1>2. parts' \in Seq(P) /\ Queue(parts') = <<a.docs, b.docs>> \o Tail(Queue(parts))
    <2> DEFINE new == <<a, b>>
    <2>1. new \in Seq(P)
      BY <1>1
    <2> HIDE DEF new
    <2>2. /\ new \o Tail(parts) \in Seq(P)
          /\ Queue(new \o Tail(parts)) = Queue(new) \o Tail(Queue(parts))
      BY <2>1, QueueParts
    <2>3. Queue(new) = <<a.docs, b.docs>> /\ parts' = new \o Tail(parts)
      BY <1>1 DEF new
    <2> QED
      BY <2>2, <2>3, Zenon
  <1>3. Queue(parts)' = Queue(parts')
    BY DEF Queue
  <1>4. parts' # <<>>
    <2>1. Tail(parts) \in Seq(P) /\ Len(<<a, b>>) = 2
      BY CallInProgress
    <2>2. Len(parts') = 2 + Len(Tail(parts)) /\ Len(Tail(parts)) \in Nat
      BY <1>1, <2>1, ConcatProperties, LenProperties
    <2> QED
      BY <1>2, <2>2, EmptySeq
  <1> QED
    BY <1>2, <1>3, <1>4

\* A call that is done.
LEMMA CallDone ==
  ASSUME NEW P, \A x \in P : x.docs \in DocSeq, parts \in Seq(P), parts # <<>>,
         parts' = Tail(parts)
  PROVE  /\ parts' \in Seq(P)
         /\ Queue(parts)' = Tail(Queue(parts))
         /\ Tail(parts) = <<>> <=> Tail(Queue(parts)) = <<>>
  <1>1. Tail(parts) \in Seq(P) /\ Queue(Tail(parts)) = Tail(Queue(parts))
    BY QueueParts
  <1>2. Tail(parts) = <<>> <=> Queue(Tail(parts)) = <<>>
    BY <1>1, QueueParts
  <1>3. Queue(parts)' = Queue(parts')
    BY DEF Queue
  <1> QED
    BY <1>1, <1>2, <1>3


\* What a step leaves of the types, for each sink.
LEMMA ElasticTypes ==
  ASSUME SinkTypes, kind = "elasticsearch", UNCHANGED <<kind, batch, faults, denied>>,
         stored' \in [Keys -> Nat], applied' \in Int, stale' \in Nat,
         parts' \in Seq(ElasticPart), status' \in {"writing", "ok", "failed"},
         status' = "writing" => parts' # <<>>
  PROVE  SinkTypes'
  BY DEF SinkTypes

LEMMA ClickHouseTypes ==
  ASSUME SinkTypes, kind = "clickhouse", UNCHANGED <<kind, batch, stale>>,
         stored' \in [Keys -> Nat], applied' \in Int, faults' \in Nat, denied' \in BOOLEAN,
         parts' \in Seq(ClickHousePart), status' \in {"writing", "ok", "failed"},
         status' = "writing" => parts' # <<>>
  PROVE  SinkTypes'
  BY DEF SinkTypes

\* The answer of a bulk request: the documents are the busy ones, which are sent
\* again, the refused, the stale and the rest, and no one is two of these.
LEMMA AnswerCounts ==
  ASSUME NEW s \in Seq(SinkDoc), NEW ref \in SUBSET DocsIn(s), NEW old \in SUBSET DocsIn(s),
         ref \cap old = {}
  PROVE  /\ Elastic!Cardinality(old \cup ref) = Cardinality(old) + Cardinality(ref)
         /\ Elastic!Cardinality(old) = Cardinality(old)
         /\ Cardinality(old) \in Nat /\ Cardinality(ref) \in Nat
  <1>1. IsFiniteSet(old) /\ IsFiniteSet(ref)
    BY DocsFinite, FS_Subset
  <1>2. Cardinality(old) \in Nat /\ Cardinality(ref) \in Nat
    BY <1>1, FS_CardinalityType
  <1>3. \A S : Elastic!Cardinality(S) = Cardinality(S)
    BY DEF Elastic!Cardinality, Cardinality
  <1>4. Cardinality(old \cup ref) = Cardinality(old) + Cardinality(ref) - Cardinality(old \cap ref)
    BY <1>1, FS_Union
  <1>5. old \cap ref = {}
    OBVIOUS
  <1>6. Cardinality(old \cap ref) = 0
    BY <1>5, FS_EmptySet
  <1>7. Cardinality(old \cup ref) = Cardinality(old) + Cardinality(ref)
    BY <1>2, <1>4, <1>6
  <1> QED
    BY <1>2, <1>3, <1>7

\* Every step of a Write to Elasticsearch is one of the three, or nothing.
LEMMA ElasticSteps ==
  ASSUME SinkTypes, kind = "elasticsearch", Elastic!Next,
         UNCHANGED <<kind, tokens, faults, denied>>
  PROVE  SinkTypes' /\ (SinkStep \/ SinkStutter)
  <1>1. /\ parts \in Seq(ElasticPart) /\ stored \in [Keys -> Nat]
        /\ applied \in Int /\ stale \in Nat
        /\ status \in {"writing", "ok", "failed"}
        /\ (status = "writing" => parts # <<>>) /\ (denied => denied')
    BY DEF SinkTypes
  <1>2. \A x \in ElasticPart : x.docs \in DocSeq /\ x.attempt \in Nat
    BY PartsHoldDocs
  <1>3. ASSUME status = "writing"
        PROVE  /\ Docs = Head(parts).docs /\ Docs \in DocSeq /\ Docs \in Seq(SinkDoc)
               /\ Head(parts) \in ElasticPart /\ Tail(parts) \in Seq(ElasticPart)
               /\ Len(Docs) \in Nat /\ Len(Docs) >= 1
               /\ Elastic!Elems(Docs) = DocsIn(Docs)
               /\ IsFiniteSet(DocsIn(Docs)) /\ DocsIn(Docs) \subseteq SinkDoc
    BY <1>1, <1>2, <1>3, CallInProgress
  <1>4. ASSUME status = "writing", NEW S \in SUBSET DocsIn(Docs)
        PROVE  /\ Elastic!Contract!Absorbed(S) = Contract!Absorbed(S)
               /\ Contract!Absorbed(S) \in [Keys -> Nat]
               /\ \A d \in S : Contract!Absorbed(S)[d.key] >= d.ver
    BY <1>1, <1>3, <1>4, AbsorbedHolds
  <1>5. Contract!Absorbed({}) = stored
    BY <1>1, AbsorbedNothing
  <1>6. ASSUME NEW docs \in DocSeq, status = "writing", Elastic!TryAgain(docs)
        PROVE  /\ parts' \in Seq(ElasticPart) /\ parts' # <<>>
               /\ \/ status' = "failed" /\ parts' = parts
                  \/ /\ status' = "writing"
                     /\ Queue(parts)' = <<docs>> \o Tail(Queue(parts))
               /\ docs = Docs => Queue(parts)' = Queue(parts)
    <2> DEFINE a == [docs |-> docs, attempt |-> Head(parts).attempt + 1]
    <2>1. parts # <<>> /\ Head(parts).attempt \in Nat
      BY <1>1, <1>2, <1>3, <1>6
    <2>2. a \in ElasticPart /\ a.docs = docs
      BY <2>1 DEF ElasticPart
    <2>3. \/ status' = "failed" /\ parts' = parts
          \/ parts' = <<a>> \o Tail(parts) /\ status' = status
      BY <1>6 DEF Elastic!TryAgain, Elastic!GiveUp, Elastic!Part
    <2> HIDE DEF a
    <2>4. CASE status' = "failed" /\ parts' = parts
      BY <1>1, <2>1, <2>4 DEF Queue
    <2>5. CASE parts' = <<a>> \o Tail(parts) /\ status' = status
      <3>1. /\ parts' \in Seq(ElasticPart) /\ parts' # <<>>
            /\ Queue(parts)' = <<a.docs>> \o Tail(Queue(parts))
            /\ a.docs = Docs => Queue(parts)' = Queue(parts)
        BY <1>1, <1>2, <2>1, <2>2, <2>5, CallRepeated
      <3> QED
        BY <1>6, <2>2, <2>5, <3>1
    <2> QED
      BY <2>3, <2>4, <2>5
  <1>7. ASSUME Elastic!PostFails PROVE SinkTypes' /\ SinkStep
    <2>1. status = "writing" /\ Elastic!TryAgain(Head(parts).docs)
          /\ UNCHANGED <<batch, applied, stale, rejected>>
      BY <1>7 DEF Elastic!PostFails, Elastic!Posting, Elastic!Part
    <2>2. PICK S \in SUBSET (DocsIn(Docs) \ Refused) : stored' = Elastic!Contract!Absorbed(S)
      BY <1>3, <1>7, <2>1 DEF Elastic!PostFails, Elastic!Part
    <2>3. S \in SUBSET DocsIn(Docs)
      BY <2>2
    <2>4. stored' = Contract!Absorbed(S) /\ stored' \in [Keys -> Nat]
      BY <1>4, <2>1, <2>2, <2>3
    <2>5. /\ parts' \in Seq(ElasticPart) /\ parts' # <<>>
          /\ status' \in {"writing", "failed"} /\ Queue(parts)' = Queue(parts)
      BY <1>3, <1>6, <2>1 DEF Queue
    <2>6. SinkTypes'
      BY <1>1, <2>1, <2>4, <2>5, ElasticTypes
    <2>7. CountsNothing
      BY <2>1, <2>5 DEF CountsNothing
    <2> QED
      BY <1>1, <2>1, <2>3, <2>4, <2>6, <2>7 DEF SinkStep
  <1>8. ASSUME Elastic!TooLarge PROVE SinkTypes' /\ SinkStep
    <2>1. status = "writing" /\ UNCHANGED <<batch, stored, applied, stale, rejected>>
      BY <1>8 DEF Elastic!TooLarge, Elastic!Posting
    <2>2. CASE Len(Docs) > 1
      <3> DEFINE mid == Len(Docs) \div 2
                 x == SubSeq(Docs, 1, mid)
                 y == SubSeq(Docs, mid + 1, Len(Docs))
                 a == [docs |-> x, attempt |-> 1]
                 b == [docs |-> y, attempt |-> 1]
      <3>1. parts' = <<a, b>> \o Tail(parts) /\ UNCHANGED status
        BY <1>3, <1>8, <2>1, <2>2 DEF Elastic!TooLarge, Elastic!Halves, Elastic!Part
      <3>2. x \in DocSeq /\ y \in DocSeq /\ x \o y = Docs
        BY <1>3, <2>1, <2>2, HalvesOfPart
      <3> HIDE DEF x, y
      <3>3. a \in ElasticPart /\ b \in ElasticPart /\ a.docs = x /\ b.docs = y
        BY <3>2 DEF ElasticPart
      <3> HIDE DEF a, b
      <3>4. /\ parts' \in Seq(ElasticPart) /\ parts' # <<>>
            /\ Queue(parts)' = <<x, y>> \o Tail(Queue(parts))
        <4>1. /\ parts' \in Seq(ElasticPart) /\ parts' # <<>>
              /\ Queue(parts)' = <<a.docs, b.docs>> \o Tail(Queue(parts))
          BY <1>1, <1>2, <2>1, <3>1, <3>3, CallSplit
        <4> QED
          BY <3>3, <4>1
      <3>5. SinkTypes'
        BY <1>1, <2>1, <3>1, <3>4, ElasticTypes
      <3>6. Splits
        BY <2>1, <3>1, <3>2, <3>4 DEF Splits
      <3> QED
        BY <1>1, <1>5, <2>1, <3>5, <3>6 DEF SinkStep
    <2>3. CASE ~ (Len(Docs) > 1)
      <3>1. status' = "failed" /\ UNCHANGED parts
        BY <1>3, <1>8, <2>1, <2>3 DEF Elastic!TooLarge, Elastic!GiveUp, Elastic!Part
      <3>2. SinkTypes'
        BY <1>1, <2>1, <3>1, ElasticTypes
      <3>3. CountsNothing
        BY <2>1, <3>1 DEF CountsNothing, Queue
      <3> QED
        BY <1>1, <1>5, <2>1, <3>2, <3>3 DEF SinkStep
    <2> QED
      BY <2>2, <2>3
  <1>9. ASSUME Elastic!Denied PROVE SinkTypes' /\ SinkStep
    <2>1. status = "writing" /\ status' = "failed" /\ UNCHANGED parts
          /\ UNCHANGED <<batch, applied, stale, rejected>>
      BY <1>9 DEF Elastic!Denied, Elastic!Posting, Elastic!GiveUp
    <2>2. PICK S \in SUBSET (DocsIn(Docs) \ Refused) : stored' = Elastic!Contract!Absorbed(S)
      BY <1>3, <1>9, <2>1 DEF Elastic!Denied, Elastic!Part
    <2>3. S \in SUBSET DocsIn(Docs)
      BY <2>2
    <2>4. stored' = Contract!Absorbed(S) /\ stored' \in [Keys -> Nat]
      BY <1>4, <2>1, <2>2, <2>3
    <2>5. SinkTypes'
      BY <1>1, <2>1, <2>4, ElasticTypes
    <2>6. CountsNothing
      BY <2>1 DEF CountsNothing, Queue
    <2> QED
      BY <1>1, <2>1, <2>3, <2>4, <2>5, <2>6 DEF SinkStep
  <1>10. ASSUME Elastic!Cancelled PROVE SinkTypes' /\ SinkStep
    <2>1. status = "writing" /\ status' = "failed" /\ UNCHANGED parts
          /\ UNCHANGED <<batch, stored, applied, stale, rejected>>
      BY <1>10 DEF Elastic!Cancelled, Elastic!GiveUp
    <2>2. SinkTypes'
      BY <1>1, <2>1, ElasticTypes
    <2>3. CountsNothing
      BY <2>1 DEF CountsNothing, Queue
    <2> QED
      BY <1>1, <1>5, <2>1, <2>2, <2>3 DEF SinkStep
  <1>11. ASSUME Elastic!BackoffOver \/ Elastic!Returned PROVE SinkTypes' /\ SinkStutter
    <2>1. UNCHANGED <<batch, parts, stored, applied, stale, rejected, status>>
      BY <1>11 DEF Elastic!BackoffOver, Elastic!Returned, Elastic!vars
    <2> QED
      BY <1>1, <2>1, ElasticTypes DEF SinkStutter
  <1>12. ASSUME Elastic!Answered PROVE SinkTypes' /\ SinkStep
    <2>1. status = "writing" /\ UNCHANGED batch
      BY <1>12 DEF Elastic!Answered, Elastic!Posting
    <2> DEFINE taken(busy) == DocsIn(Docs) \ busy
               old(busy) == {d \in taken(busy) \ Refused : stored[d.key] >= d.ver}
               gone(busy) == {d \in taken(busy) \ (Refused \cup old(busy)) :
                                d.deleted /\ stored[d.key] = 0}
    <2>2. PICK busy \in SUBSET DocsIn(Docs) :
            /\ stored' = Elastic!Contract!Absorbed(taken(busy) \ Refused)
            /\ applied' = applied + Len(Docs) - Len(Elastic!Pick(Docs, busy))
                 - Elastic!Cardinality(old(busy) \cup gone(busy) \cup (taken(busy) \cap Refused))
            /\ stale' = stale + Elastic!Cardinality(old(busy) \cup gone(busy))
            /\ rejected' = rejected \cup (taken(busy) \cap Refused)
            /\ IF Elastic!Pick(Docs, busy) # <<>>
                 THEN Elastic!TryAgain(Elastic!Pick(Docs, busy))
                 ELSE /\ parts' = Tail(parts)
                      /\ status' = IF Tail(parts) = <<>> THEN "ok" ELSE "writing"
      BY <1>3, <1>12, <2>1 DEF Elastic!Answered, Elastic!Part
    <2> DEFINE rest == Elastic!Pick(Docs, busy)
               refused == taken(busy) \cap Refused
               outdated == old(busy) \cup gone(busy)
    <2>3. rest \in Seq(SinkDoc) /\ DocsIn(rest) = DocsIn(Docs) \cap busy
          /\ (Distinct(Docs) => Distinct(rest))
      BY <1>3, <2>1, PickKeeps DEF Distinct
    <2>4. outdated \in SUBSET DocsIn(Docs) /\ refused \in SUBSET DocsIn(Docs)
          /\ refused \cap outdated = {}
      OBVIOUS
    <2>5. taken(busy) \ Refused \in SUBSET DocsIn(Docs)
      OBVIOUS
    <2>6. stored' = Contract!Absorbed(taken(busy) \ Refused) /\ stored' \in [Keys -> Nat]
          /\ \A d \in taken(busy) \ Refused : stored'[d.key] >= d.ver
      BY <1>4, <2>1, <2>2, <2>5
    <2>7. /\ applied' = applied + Len(Docs) - Len(rest) - Elastic!Cardinality(outdated \cup refused)
          /\ stale' = stale + Elastic!Cardinality(outdated)
          /\ rejected' = rejected \cup refused
          /\ rest # <<>> => Elastic!TryAgain(rest)
          /\ rest = <<>> => /\ parts' = Tail(parts)
                            /\ status' = IF Tail(parts) = <<>> THEN "ok" ELSE "writing"
      BY <2>2
    <2>8. refused \subseteq DocsIn(Docs) \ DocsIn(rest) /\ refused \subseteq Refused
          /\ DocsIn(rest) \subseteq DocsIn(Docs)
      BY <2>3
    <2>9. \A d \in DocsIn(Docs) \ DocsIn(rest) : d \in refused \/ stored'[d.key] >= d.ver
      BY <2>3, <2>6
    <2> HIDE DEF outdated, refused, rest
    <2>10. /\ applied' + stale' + Cardinality(refused) + Len(rest) = applied + stale + Len(Docs)
           /\ applied' \in Int /\ stale' \in Nat
      <3>1. /\ Elastic!Cardinality(outdated \cup refused)
                 = Cardinality(outdated) + Cardinality(refused)
            /\ Elastic!Cardinality(outdated) = Cardinality(outdated)
            /\ Cardinality(outdated) \in Nat /\ Cardinality(refused) \in Nat
        BY <1>3, <2>1, <2>4, AnswerCounts
      <3>2. Len(rest) \in Nat /\ Len(Docs) \in Nat
        BY <1>3, <2>1, <2>3, LenProperties
      <3>3. applied' = applied + Len(Docs) - Len(rest) - (Cardinality(outdated) + Cardinality(refused))
            /\ stale' = stale + Cardinality(outdated)
        BY <2>7, <3>1, Zenon
      <3> DEFINE n == Len(Docs)
                 r == Len(rest)
                 c == Cardinality(outdated)
                 f == Cardinality(refused)
      <3>4. n \in Nat /\ r \in Nat /\ c \in Nat /\ f \in Nat
            /\ applied' = applied + n - r - (c + f) /\ stale' = stale + c
        BY <3>1, <3>2, <3>3
      <3>5. applied' + stale' + f + r = applied + stale + n /\ applied' \in Int /\ stale' \in Nat
        <4> HIDE DEF n, r, c, f
        <4>1. applied \in Int /\ stale \in Nat
          BY <1>1
        <4>2. /\ (applied + n - r - (c + f)) + (stale + c) + f + r = applied + stale + n
              /\ applied + n - r - (c + f) \in Int /\ stale + c \in Nat
          BY <3>4, <4>1
        <4> QED
          BY <3>4, <4>2, Zenon
      <3> QED
        BY <3>5
    <2>11. CASE rest # <<>>
      <3>1. rest \in DocSeq
        BY <2>3, <2>11 DEF DocSeq
      <3>2. /\ parts' \in Seq(ElasticPart) /\ parts' # <<>>
            /\ \/ status' = "failed" /\ parts' = parts
               \/ status' = "writing" /\ Queue(parts)' = <<rest>> \o Tail(Queue(parts))
        BY <1>6, <2>1, <2>7, <2>11, <3>1
      <3>3. SinkTypes'
        BY <1>1, <2>1, <2>6, <2>10, <3>2, ElasticTypes
      <3>4. Counts(rest, refused)
        BY <2>3, <2>7, <2>8, <2>9, <2>10, <2>11, <3>2 DEF Counts
      <3> QED
        BY <1>1, <2>1, <2>5, <2>6, <3>3, <3>4 DEF SinkStep
    <2>12. CASE rest = <<>>
      <3>1. parts' = Tail(parts) /\ parts # <<>>
            /\ status' = IF Tail(parts) = <<>> THEN "ok" ELSE "writing"
        BY <1>1, <2>1, <2>7, <2>12
      <3>2. /\ parts' \in Seq(ElasticPart) /\ Queue(parts)' = Tail(Queue(parts))
            /\ Tail(parts) = <<>> <=> Tail(Queue(parts)) = <<>>
        BY <1>1, <1>2, <3>1, CallDone
      <3>3. SinkTypes'
        BY <1>1, <2>1, <2>6, <2>10, <3>1, <3>2, ElasticTypes
      <3>4. Counts(rest, refused)
        BY <2>3, <2>7, <2>8, <2>9, <2>10, <2>12, <3>1, <3>2 DEF Counts
      <3> QED
        BY <1>1, <2>1, <2>5, <2>6, <3>3, <3>4 DEF SinkStep
    <2> QED
      BY <2>11, <2>12
  <1> QED
    BY <1>7, <1>8, <1>9, <1>10, <1>11, <1>12 DEF Elastic!Next

\* isolate: a single row is reported, a part at the depth limit is given up, and
\* any other is replaced by its halves.
LEMMA IsolateSteps ==
  ASSUME SinkTypes, kind = "clickhouse", status = "writing", ClickHouse!Isolate
  PROVE  \/ /\ Len(Docs) = 1 /\ rejected' = rejected \cup DocsIn(Docs)
            /\ parts' = Tail(parts)
            /\ status' = IF Tail(parts) = <<>> THEN "ok" ELSE "writing"
         \/ /\ Len(Docs) > 1 /\ Head(parts).depth >= MaxDepth
            /\ status' = "failed" /\ UNCHANGED <<parts, rejected>>
         \/ /\ Len(Docs) > 1 /\ ~ (Head(parts).depth >= MaxDepth)
            /\ UNCHANGED <<status, rejected>>
            /\ parts' = << [docs |-> SubSeq(Docs, 1, Len(Docs) \div 2), attempt |-> 1,
                            depth |-> Head(parts).depth + 1],
                           [docs |-> SubSeq(Docs, (Len(Docs) \div 2) + 1, Len(Docs)),
                            attempt |-> 1, depth |-> Head(parts).depth + 1] >>
                         \o Tail(parts)
  <1>1. parts \in Seq(ClickHousePart) /\ parts # <<>>
    BY DEF SinkTypes
  <1>2. /\ Docs = Head(parts).docs /\ Len(Docs) \in Nat /\ Len(Docs) >= 1
        /\ ClickHouse!Elems(Docs) = DocsIn(Docs)
    BY <1>1, PartsHoldDocs, CallInProgress
  <1>3. (Len(Docs) = 1 \/ Len(Docs) > 1) /\ ~ (Len(Docs) = 1 /\ Len(Docs) > 1)
    <2> DEFINE n == Len(Docs)
    <2>1. n \in Nat /\ n >= 1
      BY <1>2
    <2> HIDE DEF n
    <2>2. (n = 1 \/ n > 1) /\ ~ (n = 1 /\ n > 1)
      BY <2>1
    <2> QED
      BY <2>2 DEF n
  <1>4. CASE Len(Docs) = 1
    <2>1. ~ (Len(Docs) > 1)
      BY <1>3, <1>4
    <2> QED
      BY <1>2, <1>4, <2>1 DEF ClickHouse!Isolate, ClickHouse!Done, ClickHouse!Part
  <1>5. CASE Len(Docs) > 1 /\ Head(parts).depth >= MaxDepth
    <2>1. Len(Docs) # 1
      BY <1>3, <1>5
    <2> QED
      BY <1>2, <1>5, <2>1 DEF ClickHouse!Isolate, ClickHouse!GiveUp, ClickHouse!Part
  <1>6. CASE Len(Docs) > 1 /\ ~ (Head(parts).depth >= MaxDepth)
    <2>1. Len(Docs) # 1
      BY <1>3, <1>6
    <2> QED
      BY <1>2, <1>6, <2>1
      DEF ClickHouse!Isolate, ClickHouse!Narrow, ClickHouse!Half, ClickHouse!Part
  <1> QED
    BY <1>3, <1>4, <1>5, <1>6

\* Every step of a Write to ClickHouse is one of the three, or nothing.
LEMMA ClickHouseSteps ==
  ASSUME SinkTypes, kind = "clickhouse", ClickHouse!Next, UNCHANGED <<kind, stale>>
  PROVE  SinkTypes' /\ (SinkStep \/ SinkStutter)
  <1>1. /\ parts \in Seq(ClickHousePart) /\ stored \in [Keys -> Nat]
        /\ applied \in Int /\ stale \in Nat /\ faults \in Nat /\ denied \in BOOLEAN
        /\ status \in {"writing", "ok", "failed"}
        /\ (status = "writing" => parts # <<>>)
    BY DEF SinkTypes
  <1>2. \A x \in ClickHousePart : x.docs \in DocSeq /\ x.attempt \in Nat /\ x.depth \in Nat
    BY PartsHoldDocs
  <1>3. ASSUME status = "writing"
        PROVE  /\ Docs = Head(parts).docs /\ Docs \in DocSeq /\ Docs \in Seq(SinkDoc)
               /\ Head(parts) \in ClickHousePart /\ Tail(parts) \in Seq(ClickHousePart)
               /\ Len(Docs) \in Nat /\ Len(Docs) >= 1
               /\ ClickHouse!Elems(Docs) = DocsIn(Docs)
               /\ IsFiniteSet(DocsIn(Docs)) /\ DocsIn(Docs) \subseteq SinkDoc
    BY <1>1, <1>2, <1>3, CallInProgress
  <1>4. Contract!Absorbed({}) = stored
    BY <1>1, AbsorbedNothing
  <1>5. ASSUME status = "writing", ClickHouse!Insert(Docs)
        PROVE  /\ stored' \in [Keys -> Nat]
               /\ \E S \in SUBSET DocsIn(Docs) : stored' = Contract!Absorbed(S)
               /\ TokenKnown => \A d \in DocsIn(Docs) : stored'[d.key] >= d.ver
    <2>1. CASE ClickHouse!Token(Docs) \in tokens
      <3>1. stored' = stored
        BY <1>5, <2>1 DEF ClickHouse!Insert
      <3> QED
        BY <1>1, <1>4, <1>5, <2>1, <3>1 DEF TokenKnown
    <2>2. CASE ClickHouse!Token(Docs) \notin tokens
      <3>1. stored' = ClickHouse!Contract!Absorbed(DocsIn(Docs))
        BY <1>3, <1>5, <2>2 DEF ClickHouse!Insert
      <3>2. DocsIn(Docs) \in SUBSET DocsIn(Docs)
        OBVIOUS
      <3>3. /\ stored' = Contract!Absorbed(DocsIn(Docs)) /\ stored' \in [Keys -> Nat]
            /\ \A d \in DocsIn(Docs) : stored'[d.key] >= d.ver
        BY <1>1, <1>3, <1>5, <3>1, <3>2, AbsorbedHolds
      <3> QED
        BY <3>2, <3>3
    <2> QED
      BY <2>1, <2>2
  <1>6. Cardinality({}) = 0 /\ DocsIn(<<>>) = {} /\ Distinct(<<>>) /\ <<>> \in Seq(SinkDoc)
        /\ Len(<<>>) = 0
    BY FS_EmptySet DEF DocsIn, Distinct
  <1>7. ASSUME ClickHouse!Encode PROVE SinkTypes' /\ (SinkStep \/ SinkStutter)
    <2>1. status = "writing" /\ UNCHANGED <<batch, stored, applied, rejected, faults, denied>>
          /\ UNCHANGED parts /\ (status' = "failed" \/ UNCHANGED status)
      BY <1>7 DEF ClickHouse!Encode, ClickHouse!GiveUp
    <2>2. SinkTypes'
      BY <1>1, <2>1, ClickHouseTypes
    <2>3. CountsNothing
      BY <2>1 DEF CountsNothing, Queue
    <2> QED
      BY <1>4, <2>1, <2>2, <2>3 DEF SinkStep
  <1>8. ASSUME ClickHouse!Inserted PROVE SinkTypes' /\ SinkStep
    <2>1. /\ status = "writing" /\ UNCHANGED <<batch, rejected, faults, denied>>
          /\ parts' = Tail(parts)
          /\ status' = IF Tail(parts) = <<>> THEN "ok" ELSE "writing"
      BY <1>8 DEF ClickHouse!Inserted, ClickHouse!Done
    <2>2. ClickHouse!Insert(Docs) /\ applied' = applied + Len(Docs)
      BY <1>3, <1>8, <2>1 DEF ClickHouse!Inserted, ClickHouse!Part
    <2>3. /\ parts' \in Seq(ClickHousePart) /\ Queue(parts)' = Tail(Queue(parts))
          /\ Tail(parts) = <<>> <=> Tail(Queue(parts)) = <<>>
      BY <1>1, <1>2, <2>1, CallDone
    <2>4. /\ stored' \in [Keys -> Nat]
          /\ \E S \in SUBSET DocsIn(Docs) : stored' = Contract!Absorbed(S)
          /\ TokenKnown => \A d \in DocsIn(Docs) : stored'[d.key] >= d.ver
      BY <1>5, <2>1, <2>2
    <2>5. applied' \in Int /\ applied' + stale' + 0 + 0 = applied + stale + Len(Docs)
      <3> DEFINE n == Len(Docs)
      <3>1. n \in Nat /\ applied' = applied + n
        BY <1>3, <2>1, <2>2
      <3> HIDE DEF n
      <3>2. applied + n \in Int /\ (applied + n) + stale + 0 + 0 = applied + stale + n
        BY <1>1, <3>1
      <3> QED
        BY <3>1, <3>2, Zenon DEF n
    <2>6. SinkTypes'
      BY <1>1, <2>1, <2>3, <2>4, <2>5, ClickHouseTypes
    <2>7. Counts(<<>>, {})
      <3>1. applied' + stale' + Cardinality({}) + Len(<<>>) = applied + stale + Len(Docs)
        BY <1>6, <2>5
      <3>2. TokenKnown => \A d \in DocsIn(Docs) \ DocsIn(<<>>) :
                            d \in {} \/ stored'[d.key] >= d.ver
        BY <2>4
      <3>3. status' = IF Tail(Queue(parts)) = <<>> THEN "ok" ELSE "writing"
        BY <2>1, <2>3
      <3>4. DocsIn(<<>>) \subseteq DocsIn(Docs) /\ rejected' = rejected \cup {}
        BY <1>6, <2>1
      <3> QED
        BY <1>6, <2>3, <3>1, <3>2, <3>3, <3>4 DEF Counts
    <2> QED
      BY <2>1, <2>4, <2>6, <2>7 DEF SinkStep
  <1>9. ASSUME ClickHouse!PostFails PROVE SinkTypes' /\ SinkStep
    <2>1. /\ status = "writing" /\ UNCHANGED <<batch, applied, rejected, denied>>
          /\ faults' = faults + 1
      BY <1>9 DEF ClickHouse!PostFails, ClickHouse!Fault
    <2>2. ClickHouse!Insert(Docs) \/ UNCHANGED stored
      BY <1>3, <1>9, <2>1 DEF ClickHouse!PostFails, ClickHouse!Part
    <2>3. /\ stored' \in [Keys -> Nat]
          /\ \E S \in SUBSET DocsIn(Docs) : stored' = Contract!Absorbed(S)
      BY <1>1, <1>4, <1>5, <2>1, <2>2
    <2>4. \/ status' = "failed" /\ UNCHANGED parts
          \/ /\ parts' = <<[Head(parts) EXCEPT !.attempt = @ + 1]>> \o Tail(parts)
             /\ UNCHANGED status
      BY <1>9 DEF ClickHouse!PostFails, ClickHouse!GiveUp, ClickHouse!Part
    <2>5. /\ parts' \in Seq(ClickHousePart) /\ parts' # <<>> /\ Queue(parts)' = Queue(parts)
          /\ status' \in {"writing", "failed"}
      <3>1. CASE status' = "failed" /\ UNCHANGED parts
        BY <1>1, <2>1, <3>1 DEF Queue
      <3>2. CASE /\ parts' = <<[Head(parts) EXCEPT !.attempt = @ + 1]>> \o Tail(parts)
                 /\ UNCHANGED status
        <4> DEFINE a == [Head(parts) EXCEPT !.attempt = @ + 1]
        <4>1. a \in ClickHousePart /\ a.docs = Docs
          BY <1>2, <1>3, <2>1 DEF ClickHousePart
        <4>2. parts' = <<a>> \o Tail(parts)
          BY <3>2
        <4> HIDE DEF a
        <4>3. /\ parts' \in Seq(ClickHousePart) /\ parts' # <<>>
              /\ a.docs = Docs => Queue(parts)' = Queue(parts)
          BY <1>1, <1>2, <2>1, <4>1, <4>2, CallRepeated
        <4> QED
          BY <2>1, <3>2, <4>1, <4>3
      <3> QED
        BY <2>4, <3>1, <3>2
    <2>6. SinkTypes'
      BY <1>1, <2>1, <2>3, <2>5, ClickHouseTypes
    <2>7. CountsNothing
      BY <2>1, <2>5 DEF CountsNothing
    <2> QED
      BY <2>1, <2>3, <2>6, <2>7 DEF SinkStep
  <1>10. ASSUME status = "writing", ClickHouse!Isolate,
                UNCHANGED <<batch, stored, applied>>, faults' \in Nat, denied' \in BOOLEAN,
                denied => denied', denied' \/ DocsIn(Docs) \cap Refused # {}
         PROVE  SinkTypes' /\ SinkStep
    <2>1. CASE /\ Len(Docs) = 1 /\ rejected' = rejected \cup DocsIn(Docs)
               /\ parts' = Tail(parts)
               /\ status' = IF Tail(parts) = <<>> THEN "ok" ELSE "writing"
      <3>1. /\ parts' \in Seq(ClickHousePart) /\ Queue(parts)' = Tail(Queue(parts))
            /\ Tail(parts) = <<>> <=> Tail(Queue(parts)) = <<>>
        BY <1>1, <1>2, <1>10, <2>1, CallDone
      <3>2. SinkTypes'
        BY <1>1, <1>10, <2>1, <3>1, ClickHouseTypes
      <3>3. DocsIn(Docs) = {Docs[1]}
        BY <2>1 DEF DocsIn
      <3>4. Cardinality(DocsIn(Docs)) = 1
        BY <3>3, FS_Singleton
      <3>5. denied' \/ DocsIn(Docs) \subseteq Refused
        BY <1>10, <3>3
      <3>6. applied' + stale' + Cardinality(DocsIn(Docs)) + Len(<<>>) = applied + stale + Len(Docs)
        BY <1>1, <1>6, <1>10, <2>1, <3>4
      <3>7. Counts(<<>>, DocsIn(Docs))
        <4>1. DocsIn(<<>>) \subseteq DocsIn(Docs)
              /\ DocsIn(Docs) \subseteq DocsIn(Docs) \ DocsIn(<<>>)
          BY <1>6
        <4>2. status' = IF Tail(Queue(parts)) = <<>> THEN "ok" ELSE "writing"
          BY <2>1, <3>1
        <4> QED
          BY <1>6, <2>1, <3>1, <3>5, <3>6, <4>1, <4>2 DEF Counts
      <3> QED
        BY <1>4, <1>10, <3>2, <3>7 DEF SinkStep
    <2>2. CASE status' = "failed" /\ UNCHANGED <<parts, rejected>>
      <3>1. SinkTypes'
        BY <1>1, <1>10, <2>2, ClickHouseTypes
      <3>2. CountsNothing
        BY <1>10, <2>2 DEF CountsNothing, Queue
      <3> QED
        BY <1>4, <1>10, <3>1, <3>2 DEF SinkStep
    <2> DEFINE x == SubSeq(Docs, 1, Len(Docs) \div 2)
               y == SubSeq(Docs, (Len(Docs) \div 2) + 1, Len(Docs))
               a == [docs |-> x, attempt |-> 1, depth |-> Head(parts).depth + 1]
               b == [docs |-> y, attempt |-> 1, depth |-> Head(parts).depth + 1]
    <2>3. CASE Len(Docs) > 1 /\ UNCHANGED <<status, rejected>> /\ parts' = <<a, b>> \o Tail(parts)
      <3>1. x \in DocSeq /\ y \in DocSeq /\ x \o y = Docs
        BY <1>3, <1>10, <2>3, HalvesOfPart
      <3>2. Head(parts).depth + 1 \in Nat
        BY <1>2, <1>3, <1>10
      <3> HIDE DEF x, y
      <3>3. a \in ClickHousePart /\ b \in ClickHousePart /\ a.docs = x /\ b.docs = y
        BY <3>1, <3>2 DEF ClickHousePart
      <3>4. parts' = <<a, b>> \o Tail(parts)
        BY <2>3
      <3> HIDE DEF a, b
      <3>5. /\ parts' \in Seq(ClickHousePart) /\ parts' # <<>>
            /\ Queue(parts)' = <<x, y>> \o Tail(Queue(parts))
        <4>1. /\ parts' \in Seq(ClickHousePart) /\ parts' # <<>>
              /\ Queue(parts)' = <<a.docs, b.docs>> \o Tail(Queue(parts))
          BY <1>1, <1>2, <1>10, <3>3, <3>4, CallSplit
        <4> QED
          BY <3>3, <4>1
      <3>6. SinkTypes'
        BY <1>1, <1>10, <2>3, <3>5, ClickHouseTypes
      <3>7. Splits
        BY <1>10, <2>3, <3>1, <3>5 DEF Splits
      <3> QED
        BY <1>4, <1>10, <3>6, <3>7 DEF SinkStep
    <2> QED
      BY <1>10, <2>1, <2>2, <2>3, IsolateSteps
  <1>11. ASSUME ClickHouse!InsertRefused PROVE SinkTypes' /\ SinkStep
    <2>1. /\ status = "writing" /\ ClickHouse!Isolate
          /\ UNCHANGED <<batch, stored, applied, faults, denied>>
      BY <1>11 DEF ClickHouse!InsertRefused
    <2>2. DocsIn(Docs) \cap Refused # {}
      BY <1>3, <1>11, <2>1 DEF ClickHouse!InsertRefused, ClickHouse!Acceptable, ClickHouse!Part
    <2> QED
      BY <1>1, <1>10, <2>1, <2>2
  <1>12. ASSUME ClickHouse!InsertDenied PROVE SinkTypes' /\ SinkStep
    <2>1. /\ status = "writing" /\ ClickHouse!Isolate /\ faults' = faults + 1 /\ denied'
          /\ UNCHANGED <<batch, stored, applied>> /\ denied' \in BOOLEAN
      BY <1>12 DEF ClickHouse!InsertDenied, ClickHouse!Fault
    <2> QED
      BY <1>1, <1>10, <2>1
  <1>13. ASSUME ClickHouse!Cancelled PROVE SinkTypes' /\ SinkStep
    <2>1. /\ status = "writing" /\ status' = "failed" /\ UNCHANGED parts
          /\ UNCHANGED <<batch, stored, applied, rejected, denied>> /\ faults' = faults + 1
      BY <1>13 DEF ClickHouse!Cancelled, ClickHouse!GiveUp, ClickHouse!Fault
    <2>2. SinkTypes'
      BY <1>1, <2>1, ClickHouseTypes
    <2>3. CountsNothing
      BY <2>1 DEF CountsNothing, Queue
    <2> QED
      BY <1>4, <2>1, <2>2, <2>3 DEF SinkStep
  <1>14. ASSUME ClickHouse!BackoffOver \/ ClickHouse!Returned PROVE SinkTypes' /\ SinkStutter
    <2>1. UNCHANGED <<batch, parts, stored, applied, rejected, status, faults, denied>>
      BY <1>14 DEF ClickHouse!BackoffOver, ClickHouse!Returned, ClickHouse!vars
    <2> QED
      BY <1>1, <2>1, ClickHouseTypes DEF SinkStutter
  <1> QED
    BY <1>7, <1>8, <1>9, <1>11, <1>12, <1>13, <1>14 DEF ClickHouse!Next

\* A Write begins with one call for the whole batch.
LEMMA WriteBegins ==
  ASSUME Init
  PROVE  /\ SinkTypes /\ Queue(parts) = <<batch>>
         /\ batch \in ElasticBatches \cup ClickHouseBatches
         /\ rejected = {} /\ status = "writing" /\ applied = 0 /\ stale = 0
  <1>1. \A b \in ElasticBatches \cup ClickHouseBatches : b \in DocSeq
    BY SinksAssumption DEF SinksAssumption, DocSeq
  <1>2. ASSUME kind = "elasticsearch", Elastic!Init, faults = 0, denied = FALSE
        PROVE  /\ SinkTypes /\ Queue(parts) = <<batch>> /\ batch \in ElasticBatches
               /\ rejected = {} /\ status = "writing" /\ applied = 0 /\ stale = 0
    <2> DEFINE a == [docs |-> batch, attempt |-> 1]
    <2>1. batch \in ElasticBatches /\ parts = <<a>>
          /\ rejected = {} /\ status = "writing" /\ applied = 0 /\ stale = 0
      BY <1>2 DEF Elastic!Init
    <2>2. stored \in [Keys -> Nat]
      <3>1. stored \in [Keys -> {0, 2}]
        BY <1>2 DEF Elastic!Init
      <3> QED
        BY <3>1
    <2>3. a \in ElasticPart /\ a.docs = batch
      BY <1>1, <2>1 DEF ElasticPart
    <2> HIDE DEF a
    <2>4. <<a>> \in Seq(ElasticPart) /\ Queue(<<a>>) = <<a.docs>> /\ <<a>> # <<>>
      BY <2>3, PartsHoldDocs, QueueOfFew
    <2>5. parts \in Seq(ElasticPart) /\ Queue(parts) = <<batch>> /\ parts # <<>>
      BY <2>1, <2>3, <2>4, Zenon
    <2>6. applied \in Int /\ stale \in Nat /\ faults \in Nat
      BY <1>2, <2>1
    <2>7. denied \in BOOLEAN /\ batch \in DocSeq /\ kind # "clickhouse"
      BY <1>1, <1>2, <2>1
    <2>8. SinkTypes
      BY <1>2, <2>1, <2>2, <2>5, <2>6, <2>7 DEF SinkTypes
    <2> QED
      BY <1>2, <2>1, <2>5, <2>8
  <1>3. ASSUME kind = "clickhouse", ClickHouse!Init, stale = 0
        PROVE  /\ SinkTypes /\ Queue(parts) = <<batch>> /\ batch \in ClickHouseBatches
               /\ rejected = {} /\ status = "writing" /\ applied = 0 /\ stale = 0
    <2> DEFINE a == [docs |-> batch, attempt |-> 1, depth |-> 1]
    <2>1. batch \in ClickHouseBatches /\ parts = <<a>>
          /\ rejected = {} /\ status = "writing" /\ applied = 0 /\ faults = 0 /\ denied = FALSE
      BY <1>3 DEF ClickHouse!Init
    <2>2. stored \in [Keys -> Nat]
      <3> DEFINE E == ClickHouse!Elems(Earlier)
                 v(k) == IF \E d \in E : d.key = k
                           THEN (CHOOSE d \in E : d.key = k).ver ELSE 0
      <3>1. stored = [k \in Keys |-> v(k)]
        BY <1>3 DEF ClickHouse!Init
      <3>2. Earlier \in Seq(SinkDoc)
        BY SinksAssumption DEF SinksAssumption
      <3>3. E = DocsIn(Earlier) /\ DocsIn(Earlier) \subseteq SinkDoc
        BY <3>2, DocsFinite
      <3>4. \A d \in E : d.ver \in Nat
        BY <3>3 DEF SinkDoc
      <3> HIDE DEF E
      <3>5. \A k \in Keys : v(k) \in Nat
        BY <3>4
      <3> QED
        BY <3>1, <3>5
    <2>3. a \in ClickHousePart /\ a.docs = batch
      BY <1>1, <2>1 DEF ClickHousePart
    <2> HIDE DEF a
    <2>4. <<a>> \in Seq(ClickHousePart) /\ Queue(<<a>>) = <<a.docs>> /\ <<a>> # <<>>
      BY <2>3, PartsHoldDocs, QueueOfFew
    <2>5. parts \in Seq(ClickHousePart) /\ Queue(parts) = <<batch>> /\ parts # <<>>
      BY <2>1, <2>3, <2>4, Zenon
    <2>6. applied \in Int /\ stale \in Nat /\ faults \in Nat
      BY <1>3, <2>1
    <2>7. denied \in BOOLEAN /\ batch \in DocSeq /\ kind # "elasticsearch"
      BY <1>1, <1>3, <2>1
    <2>8. SinkTypes
      BY <1>3, <2>1, <2>2, <2>5, <2>6, <2>7 DEF SinkTypes
    <2> QED
      BY <1>3, <2>1, <2>5, <2>8
  <1> QED
    BY <1>2, <1>3 DEF Init

\* Every step of a Write is one of the three, or nothing.
LEMMA WriteSteps ==
  ASSUME SinkTypes, [Next]_vars
  PROVE  SinkTypes' /\ (SinkStep \/ SinkStutter)
  <1>1. CASE Next
    BY <1>1, ElasticSteps, ClickHouseSteps DEF Next, ofElastic, ofClickHouse
  <1>2. CASE UNCHANGED vars
    BY <1>2 DEF vars, ofElastic, ofClickHouse, SinkTypes, SinkStutter
  <1> QED
    BY <1>1, <1>2

\* Rows that are written in one request share no fate: unless an answer blamed
\* no row at all, only documents the destination refuses are reported, through
\* every splitting, narrowing and retrying of either sink.
THEOREM SinksOnlyTheRefused == Spec => []OnlyTheRefused
  <1> DEFINE Inv == SinkTypes /\ OnlyTheRefused
  <1>1. Init => Inv
    BY WriteBegins DEF OnlyTheRefused
  <1>2. Inv /\ [Next]_vars => Inv'
    <2> SUFFICES ASSUME Inv, [Next]_vars PROVE Inv'
      OBVIOUS
    <2>1. SinkTypes' /\ (SinkStep \/ SinkStutter)
      BY WriteSteps
    <2>2. CASE SinkStutter
      BY <2>1, <2>2 DEF SinkStutter, OnlyTheRefused
    <2>3. CASE SinkStep
      <3>1. /\ denied => denied'
            /\ CountsNothing \/ Splits \/ \E rest, refused : Counts(rest, refused)
        BY <2>3 DEF SinkStep
      <3>2. CASE CountsNothing \/ Splits
        BY <2>1, <3>1, <3>2 DEF CountsNothing, Splits, OnlyTheRefused
      <3>3. ASSUME NEW rest, NEW refused, Counts(rest, refused) PROVE OnlyTheRefused'
        <4>1. rejected' = rejected \cup refused /\ (denied' \/ refused \subseteq Refused)
          BY <3>3 DEF Counts
        <4> QED
          BY <3>1, <4>1 DEF OnlyTheRefused
      <3> QED
        BY <2>1, <3>1, <3>2, <3>3
    <2> QED
      BY <2>1, <2>2, <2>3
  <1>3. Inv => OnlyTheRefused
    OBVIOUS
  <1> QED
    BY <1>1, <1>2, <1>3, PTL DEF Spec

-----------------------------------------------------------------------------
(***************************************************************************)
(* What a queue of calls holds: its documents and how many they are.       *)
(***************************************************************************)
QueueDocs(q) == UNION {DocsIn(q[i]) : i \in 1..Len(q)}

Waiting(q) == Total([i \in 1..Len(q) |-> Len(q[i])], Len(q))

\* No document is in two places.
Apart(q) ==
  /\ \A i \in 1..Len(q) : Distinct(q[i])
  /\ \A i, j \in 1..Len(q) : i # j => DocsIn(q[i]) \cap DocsIn(q[j]) = {}

\* The calls of a queue have lengths.
LEMMA CallLengths ==
  ASSUME NEW s \in Seq(DocSeq)
  PROVE  Len(s) \in Nat /\ \A i \in 1..Len(s) : s[i] \in DocSeq /\ Len(s[i]) \in Nat
  <1>1. Len(s) \in Nat /\ \A i \in 1..Len(s) : s[i] \in DocSeq
    BY ElementOfSeq, LenProperties
  <1>2. \A l \in DocSeq : Len(l) \in Nat
    BY LenProperties DEF DocSeq
  <1> QED
    BY <1>1, <1>2

\* One queue after another.
LEMMA QueuesAdd ==
  ASSUME NEW s \in Seq(DocSeq), NEW t \in Seq(DocSeq)
  PROVE  /\ s \o t \in Seq(DocSeq)
         /\ QueueDocs(s \o t) = QueueDocs(s) \cup QueueDocs(t)
         /\ Waiting(s) \in Nat
         /\ Waiting(s \o t) = Waiting(s) + Waiting(t)
         /\ Apart(s \o t) <=> /\ Apart(s) /\ Apart(t)
                              /\ QueueDocs(s) \cap QueueDocs(t) = {}
  <1> DEFINE u == s \o t
             ws == [i \in 1..Len(s) |-> Len(s[i])]
             wt == [i \in 1..Len(t) |-> Len(t[i])]
             wu == [i \in 1..Len(u) |-> Len(u[i])]
  <1>1. /\ u \in Seq(DocSeq) /\ Len(u) = Len(s) + Len(t)
        /\ \A i \in 1..Len(s) : u[i] = s[i]
        /\ \A i \in 1..Len(t) : u[Len(s) + i] = t[i]
    BY ConcatProperties
  <1>2. Len(s) \in Nat /\ \A i \in 1..Len(s) : Len(s[i]) \in Nat
    BY CallLengths
  <1>3. Len(t) \in Nat
    BY CallLengths
  <1> HIDE DEF u
  <1>4. \A i \in 1..Len(u) : Len(u[i]) \in Nat
    BY <1>1, CallLengths
  <1>5. /\ \A i \in 1..(Len(s) + Len(t)) : wu[i] \in Nat
        /\ \A i \in 1..Len(s) : wu[i] = ws[i] /\ ws[i] \in Nat
    BY <1>1, <1>2, <1>3, <1>4
  <1>6. \A i \in 1..Len(t) : wu[Len(s) + i] = wt[i]
    BY <1>1, <1>2, <1>3
  <1>7. /\ Waiting(s) = Total(ws, Len(s))
        /\ Waiting(t) = Total(wt, Len(t))
        /\ Waiting(u) = Total(wu, Len(s) + Len(t))
    BY <1>1 DEF Waiting
  <1> HIDE DEF ws, wt, wu
  <1>8. Total(wu, Len(s) + Len(t)) = Total(wu, Len(s)) + Total(wt, Len(t))
    BY <1>2, <1>3, <1>5, <1>6, TotalSplits
  <1>9. Total(wu, Len(s)) = Total(ws, Len(s))
    BY <1>2, <1>5, TotalAgrees
  <1>10. Total(ws, Len(s)) \in Nat
    BY <1>2, <1>5, TotalFacts
  <1>11. \A i \in 1..Len(u) : i \in 1..Len(s) \/ (i - Len(s) \in 1..Len(t) /\ i = Len(s) + (i - Len(s)))
    BY <1>1, <1>2, <1>3
  <1>12. /\ \A i \in 1..Len(s) : i \in 1..Len(u)
         /\ \A i \in 1..Len(t) : Len(s) + i \in 1..Len(u)
         /\ \A i, j \in 1..Len(t) : Len(s) + i = Len(s) + j => i = j
         /\ \A i \in 1..Len(s), j \in 1..Len(t) : i # Len(s) + j
    BY <1>1, <1>2, <1>3
  <1>13. \A i \in 1..Len(u) : (\E j \in 1..Len(s) : i = j /\ u[i] = s[j])
                              \/ \E j \in 1..Len(t) : i = Len(s) + j /\ u[i] = t[j]
    BY <1>1, <1>11
  <1>14. QueueDocs(u) = QueueDocs(s) \cup QueueDocs(t)
    <2>1. ASSUME NEW d \in QueueDocs(u) PROVE d \in QueueDocs(s) \cup QueueDocs(t)
      <3>1. PICK i \in 1..Len(u) : d \in DocsIn(u[i])
        BY DEF QueueDocs
      <3> QED
        BY <1>13, <3>1 DEF QueueDocs
    <2>2. ASSUME NEW d \in QueueDocs(s) PROVE d \in QueueDocs(u)
      <3>1. PICK i \in 1..Len(s) : d \in DocsIn(s[i])
        BY DEF QueueDocs
      <3>2. i \in 1..Len(u) /\ u[i] = s[i]
        BY <1>1, <1>12
      <3> QED
        BY <3>1, <3>2 DEF QueueDocs
    <2>3. ASSUME NEW d \in QueueDocs(t) PROVE d \in QueueDocs(u)
      <3>1. PICK i \in 1..Len(t) : d \in DocsIn(t[i])
        BY DEF QueueDocs
      <3>2. Len(s) + i \in 1..Len(u) /\ u[Len(s) + i] = t[i]
        BY <1>1, <1>12
      <3> QED
        BY <3>1, <3>2 DEF QueueDocs
    <2> QED
      BY <2>1, <2>2, <2>3
  <1>15. ASSUME Apart(u) PROVE Apart(s) /\ Apart(t) /\ QueueDocs(s) \cap QueueDocs(t) = {}
    <2>1. Apart(s)
      BY <1>1, <1>12, <1>15 DEF Apart
    <2>2. Apart(t)
      <3>1. \A i \in 1..Len(t) : Distinct(t[i])
        BY <1>1, <1>12, <1>15 DEF Apart
      <3>2. ASSUME NEW i \in 1..Len(t), NEW j \in 1..Len(t), i # j
            PROVE  DocsIn(t[i]) \cap DocsIn(t[j]) = {}
        <4>1. DocsIn(u[Len(s) + i]) \cap DocsIn(u[Len(s) + j]) = {}
          <5>1. Len(s) + i \in 1..Len(u) /\ Len(s) + j \in 1..Len(u) /\ Len(s) + i # Len(s) + j
            BY <1>12, <3>2
          <5> QED
            BY <1>15, <5>1 DEF Apart
        <4>2. u[Len(s) + i] = t[i] /\ u[Len(s) + j] = t[j]
          BY <1>1
        <4> QED
          BY <4>1, <4>2
      <3> QED
        BY <3>1, <3>2 DEF Apart
    <2>3. ASSUME NEW d, d \in QueueDocs(s), d \in QueueDocs(t) PROVE FALSE
      <3>1. PICK i \in 1..Len(s) : d \in DocsIn(s[i])
        BY <2>3 DEF QueueDocs
      <3>2. PICK j \in 1..Len(t) : d \in DocsIn(t[j])
        BY <2>3 DEF QueueDocs
      <3>3. i \in 1..Len(u) /\ Len(s) + j \in 1..Len(u) /\ i # Len(s) + j
            /\ u[i] = s[i] /\ u[Len(s) + j] = t[j]
        BY <1>1, <1>12
      <3>4. DocsIn(u[i]) \cap DocsIn(u[Len(s) + j]) = {}
        BY <1>15, <3>3 DEF Apart
      <3> QED
        BY <3>1, <3>2, <3>3, <3>4
    <2> QED
      BY <2>1, <2>2, <2>3
  <1>16. ASSUME Apart(s), Apart(t), QueueDocs(s) \cap QueueDocs(t) = {} PROVE Apart(u)
    <2>1. \A i \in 1..Len(u) : Distinct(u[i])
      BY <1>13, <1>16 DEF Apart
    <2>2. \A i \in 1..Len(s) : DocsIn(s[i]) \subseteq QueueDocs(s)
      BY DEF QueueDocs
    <2>3. \A i \in 1..Len(t) : DocsIn(t[i]) \subseteq QueueDocs(t)
      BY DEF QueueDocs
    <2>4. ASSUME NEW i \in 1..Len(u), NEW j \in 1..Len(u), i # j
          PROVE  DocsIn(u[i]) \cap DocsIn(u[j]) = {}
      <3>1. CASE \E m \in 1..Len(s) : i = m /\ u[i] = s[m]
        <4>1. PICK m \in 1..Len(s) : i = m /\ u[i] = s[m]
          BY <3>1
        <4>2. CASE \E n \in 1..Len(s) : j = n /\ u[j] = s[n]
          BY <1>16, <2>4, <4>1, <4>2 DEF Apart
        <4>3. CASE \E n \in 1..Len(t) : j = Len(s) + n /\ u[j] = t[n]
          BY <1>16, <2>2, <2>3, <4>1, <4>3
        <4> QED
          BY <1>13, <4>2, <4>3
      <3>2. CASE \E m \in 1..Len(t) : i = Len(s) + m /\ u[i] = t[m]
        <4>1. PICK m \in 1..Len(t) : i = Len(s) + m /\ u[i] = t[m]
          BY <3>2
        <4>2. CASE \E n \in 1..Len(s) : j = n /\ u[j] = s[n]
          BY <1>16, <2>2, <2>3, <4>1, <4>2
        <4>3. CASE \E n \in 1..Len(t) : j = Len(s) + n /\ u[j] = t[n]
          <5>1. PICK n \in 1..Len(t) : j = Len(s) + n /\ u[j] = t[n]
            BY <4>3
          <5>2. m # n
            BY <2>4, <4>1, <5>1
          <5> QED
            BY <1>16, <4>1, <5>1, <5>2 DEF Apart
        <4> QED
          BY <1>13, <4>2, <4>3
      <3> QED
        BY <1>13, <3>1, <3>2
    <2> QED
      BY <2>1, <2>4 DEF Apart
  <1>17. Waiting(u) = Waiting(s) + Waiting(t) /\ Waiting(s) \in Nat
    BY <1>7, <1>8, <1>9, <1>10
  <1> QED
    BY <1>1, <1>14, <1>15, <1>16, <1>17 DEF u

\* A queue of one call, and of none.
LEMMA SmallQueues ==
  ASSUME NEW a \in DocSeq
  PROVE  /\ <<a>> \in Seq(DocSeq) /\ QueueDocs(<<a>>) = DocsIn(a)
         /\ Waiting(<<a>>) = Len(a) /\ (Apart(<<a>>) <=> Distinct(a))
         /\ <<>> \in Seq(DocSeq) /\ QueueDocs(<<>>) = {} /\ Waiting(<<>>) = 0 /\ Apart(<<>>)
  <1> DEFINE w == [i \in 1..Len(<<a>>) |-> Len(<<a>>[i])]
  <1>1. Len(<<a>>) = 1 /\ <<a>>[1] = a /\ <<a>> \in Seq(DocSeq) /\ 1..1 = {1}
    OBVIOUS
  <1>2. Len(<<>>) = 0 /\ 1..0 = {} /\ <<>> \in Seq(DocSeq)
    OBVIOUS
  <1>3. QueueDocs(<<a>>) = DocsIn(a) /\ QueueDocs(<<>>) = {}
    BY <1>1, <1>2 DEF QueueDocs
  <1>4. (Apart(<<a>>) <=> Distinct(a)) /\ Apart(<<>>)
    BY <1>1, <1>2 DEF Apart
  <1>5. Waiting(<<>>) = 0
    BY <1>2, TotalFacts DEF Waiting
  <1>6. Waiting(<<a>>) = Len(a)
    <2>1. w[1] = Len(a) /\ Waiting(<<a>>) = Total(w, 1)
      BY <1>1 DEF Waiting
    <2>2. 0 \in Nat /\ 0 + 1 = 1
      OBVIOUS
    <2> HIDE DEF w
    <2>3. Total(w, 0) = 0 /\ Total(w, 0 + 1) = Total(w, 0) + w[0 + 1]
      BY <2>2, TotalFacts
    <2>4. Len(a) \in Nat
      BY LenProperties DEF DocSeq
    <2>5. Total(w, 1) = 0 + w[1]
      BY <2>2, <2>3
    <2> QED
      BY <2>1, <2>4, <2>5
  <1> QED
    BY <1>1, <1>2, <1>3, <1>4, <1>5, <1>6

\* A queue is its first call and the others.
LEMMA FirstCall ==
  ASSUME NEW q \in Seq(DocSeq), q # <<>>
  PROVE  /\ Head(q) \in DocSeq /\ Tail(q) \in Seq(DocSeq)
         /\ QueueDocs(q) = DocsIn(Head(q)) \cup QueueDocs(Tail(q))
         /\ Waiting(Tail(q)) \in Nat /\ Waiting(q) = Len(Head(q)) + Waiting(Tail(q))
         /\ Apart(q) => /\ Distinct(Head(q)) /\ Apart(Tail(q))
                        /\ DocsIn(Head(q)) \cap QueueDocs(Tail(q)) = {}
  <1> DEFINE h == <<Head(q)>>
             t == Tail(q)
  <1>1. Head(q) \in DocSeq /\ t \in Seq(DocSeq) /\ h \o t = q
    <2>1. \A w \in Seq(DocSeq) : w # <<>> => <<Head(w)>> \o Tail(w) = w
      OBVIOUS
    <2> QED
      BY <2>1, HeadTailProperties
  <1>2. /\ h \in Seq(DocSeq) /\ QueueDocs(h) = DocsIn(Head(q)) /\ Waiting(h) = Len(Head(q))
        /\ Apart(h) <=> Distinct(Head(q))
    BY <1>1, SmallQueues
  <1> HIDE DEF h, t
  <1>3. /\ QueueDocs(h \o t) = QueueDocs(h) \cup QueueDocs(t)
        /\ Waiting(h \o t) = Waiting(h) + Waiting(t)
        /\ Apart(h \o t) => Apart(h) /\ Apart(t) /\ QueueDocs(h) \cap QueueDocs(t) = {}
    BY <1>1, <1>2, QueuesAdd
  <1>4. Waiting(t) \in Nat
    BY <1>1, QueuesAdd
  <1> QED
    BY <1>1, <1>2, <1>3, <1>4, Zenon DEF t

\* The documents of two sequences, one after the other.
LEMMA DocsOfTwo ==
  ASSUME NEW a \in Seq(SinkDoc), NEW b \in Seq(SinkDoc)
  PROVE  /\ DocsIn(a \o b) = DocsIn(a) \cup DocsIn(b)
         /\ Len(a \o b) = Len(a) + Len(b)
         /\ Distinct(a \o b) => Distinct(a) /\ Distinct(b) /\ DocsIn(a) \cap DocsIn(b) = {}
  <1> DEFINE u == a \o b
  <1>1. /\ u \in Seq(SinkDoc) /\ Len(u) = Len(a) + Len(b)
        /\ \A i \in 1..Len(a) : u[i] = a[i]
        /\ \A i \in 1..Len(b) : u[Len(a) + i] = b[i]
    BY ConcatProperties
  <1>2. Len(a) \in Nat /\ Len(b) \in Nat
    BY LenProperties
  <1> HIDE DEF u
  <1>3. /\ \A i \in 1..Len(a) : i \in 1..Len(u)
        /\ \A i \in 1..Len(b) : Len(a) + i \in 1..Len(u)
        /\ \A i, j \in 1..Len(b) : Len(a) + i = Len(a) + j => i = j
        /\ \A i \in 1..Len(a), j \in 1..Len(b) : i # Len(a) + j
    BY <1>1, <1>2
  <1>4. \A i \in 1..Len(u) : i \in 1..Len(a) \/ (i - Len(a) \in 1..Len(b) /\ i = Len(a) + (i - Len(a)))
    BY <1>1, <1>2
  <1>5. DocsIn(u) = DocsIn(a) \cup DocsIn(b)
    <2>1. ASSUME NEW d \in DocsIn(u) PROVE d \in DocsIn(a) \cup DocsIn(b)
      <3>1. PICK i \in 1..Len(u) : d = u[i]
        BY DEF DocsIn
      <3>2. CASE i \in 1..Len(a)
        BY <1>1, <3>1, <3>2 DEF DocsIn
      <3>3. CASE i - Len(a) \in 1..Len(b) /\ i = Len(a) + (i - Len(a))
        <4> DEFINE j == i - Len(a)
        <4>1. j \in 1..Len(b) /\ i = Len(a) + j
          BY <3>3
        <4> HIDE DEF j
        <4>2. d = b[j]
          BY <1>1, <3>1, <4>1
        <4> QED
          BY <4>1, <4>2 DEF DocsIn
      <3> QED
        BY <1>4, <3>2, <3>3
    <2>2. \A d \in DocsIn(a) \cup DocsIn(b) : d \in DocsIn(u)
      BY <1>1, <1>3 DEF DocsIn
    <2> QED
      BY <2>1, <2>2
  <1>6. ASSUME Distinct(u) PROVE Distinct(a) /\ Distinct(b) /\ DocsIn(a) \cap DocsIn(b) = {}
    <2>1. Distinct(a)
      BY <1>1, <1>3, <1>6 DEF Distinct
    <2>2. Distinct(b)
      <3> SUFFICES ASSUME NEW i \in 1..Len(b), NEW j \in 1..Len(b), b[i] = b[j] PROVE i = j
        BY DEF Distinct
      <3>1. u[Len(a) + i] = u[Len(a) + j] /\ Len(a) + i \in 1..Len(u) /\ Len(a) + j \in 1..Len(u)
        BY <1>1, <1>3
      <3>2. Len(a) + i = Len(a) + j
        BY <1>6, <3>1 DEF Distinct
      <3> QED
        BY <1>3, <3>2
    <2>3. ASSUME NEW i \in 1..Len(a), NEW j \in 1..Len(b), a[i] = b[j] PROVE FALSE
      <3>1. u[i] = u[Len(a) + j] /\ i \in 1..Len(u) /\ Len(a) + j \in 1..Len(u) /\ i # Len(a) + j
        BY <1>1, <1>3, <2>3
      <3> QED
        BY <1>6, <3>1 DEF Distinct
    <2> QED
      BY <2>1, <2>2, <2>3 DEF DocsIn
  <1> QED
    BY <1>1, <1>5, <1>6 DEF u

-----------------------------------------------------------------------------
(***************************************************************************)
(* Every document is counted once.  A document that waits has not been     *)
(* reported, and no two calls hold the same one.                           *)
(***************************************************************************)
Unshared ==
  status # "failed" =>
    /\ Apart(Queue(parts)) /\ QueueDocs(Queue(parts)) \cap rejected = {}
    /\ IsFiniteSet(rejected)

Balanced ==
  status # "failed" =>
    applied + stale + Cardinality(rejected) + Waiting(Queue(parts)) = Len(batch)

\* The documents of a queue that is put together from other calls for the
\* documents of its first, and from the rest of it.
LEMMA QueueReplaced ==
  ASSUME NEW q \in Seq(DocSeq), q # <<>>, NEW new \in Seq(DocSeq),
         QueueDocs(new) \subseteq DocsIn(Head(q)), Distinct(Head(q)) => Apart(new)
  PROVE  /\ new \o Tail(q) \in Seq(DocSeq)
         /\ QueueDocs(new \o Tail(q)) = QueueDocs(new) \cup QueueDocs(Tail(q))
         /\ QueueDocs(new \o Tail(q)) \subseteq QueueDocs(q)
         /\ Waiting(new) \in Nat /\ Waiting(Tail(q)) \in Nat
         /\ Waiting(new \o Tail(q)) = Waiting(new) + Waiting(Tail(q))
         /\ Waiting(q) = Len(Head(q)) + Waiting(Tail(q))
         /\ Apart(q) => Apart(new \o Tail(q))
  <1>1. /\ Tail(q) \in Seq(DocSeq)
        /\ QueueDocs(q) = DocsIn(Head(q)) \cup QueueDocs(Tail(q))
        /\ Waiting(Tail(q)) \in Nat /\ Waiting(q) = Len(Head(q)) + Waiting(Tail(q))
        /\ Apart(q) => /\ Distinct(Head(q)) /\ Apart(Tail(q))
                       /\ DocsIn(Head(q)) \cap QueueDocs(Tail(q)) = {}
    BY FirstCall
  <1>2. /\ new \o Tail(q) \in Seq(DocSeq)
        /\ QueueDocs(new \o Tail(q)) = QueueDocs(new) \cup QueueDocs(Tail(q))
        /\ Waiting(new) \in Nat
        /\ Waiting(new \o Tail(q)) = Waiting(new) + Waiting(Tail(q))
        /\ Apart(new \o Tail(q)) <=> /\ Apart(new) /\ Apart(Tail(q))
                                     /\ QueueDocs(new) \cap QueueDocs(Tail(q)) = {}
    BY <1>1, QueuesAdd
  <1>3. QueueDocs(new \o Tail(q)) \subseteq QueueDocs(q)
    BY <1>1, <1>2
  <1>4. Apart(q) => Apart(new \o Tail(q))
    <2>1. Apart(q) => QueueDocs(new) \cap QueueDocs(Tail(q)) = {}
      BY <1>1
    <2> QED
      BY <1>1, <1>2, <2>1
  <1> QED
    BY <1>1, <1>2, <1>3, <1>4

\* The queue after each kind of step.
LEMMA QueueOfSplit ==
  ASSUME NEW q \in Seq(DocSeq), q # <<>>, NEW a \in DocSeq, NEW b \in DocSeq, a \o b = Head(q)
  PROVE  LET r == <<a, b>> \o Tail(q)
         IN  /\ r \in Seq(DocSeq) /\ QueueDocs(r) = QueueDocs(q)
             /\ Waiting(r) = Waiting(q) /\ (Apart(q) => Apart(r))
  <1> DEFINE new == <<a, b>>
  <1>1. a \in Seq(SinkDoc) /\ b \in Seq(SinkDoc)
    BY DEF DocSeq
  <1>2. /\ DocsIn(Head(q)) = DocsIn(a) \cup DocsIn(b) /\ Len(Head(q)) = Len(a) + Len(b)
        /\ Distinct(Head(q)) => Distinct(a) /\ Distinct(b) /\ DocsIn(a) \cap DocsIn(b) = {}
    <2>1. /\ DocsIn(a \o b) = DocsIn(a) \cup DocsIn(b) /\ Len(a \o b) = Len(a) + Len(b)
          /\ Distinct(a \o b) => Distinct(a) /\ Distinct(b) /\ DocsIn(a) \cap DocsIn(b) = {}
      BY <1>1, DocsOfTwo
    <2> QED
      BY <2>1, Zenon
  <1>3. /\ <<a>> \in Seq(DocSeq) /\ QueueDocs(<<a>>) = DocsIn(a)
        /\ Waiting(<<a>>) = Len(a) /\ (Apart(<<a>>) <=> Distinct(a))
    BY SmallQueues
  <1>4. /\ <<b>> \in Seq(DocSeq) /\ QueueDocs(<<b>>) = DocsIn(b)
        /\ Waiting(<<b>>) = Len(b) /\ (Apart(<<b>>) <=> Distinct(b))
    BY SmallQueues
  <1>5. new = <<a>> \o <<b>>
    <2> DEFINE s == <<a>>
               t == <<b>>
               u == s \o t
    <2>0. s \in Seq(DocSeq) /\ t \in Seq(DocSeq)
      OBVIOUS
    <2>1. Len(s) = 1 /\ Len(t) = 1 /\ s[1] = a /\ t[1] = b
      OBVIOUS
    <2>2. new \in Seq(DocSeq) /\ Len(new) = 2 /\ new[1] = a /\ new[2] = b
      OBVIOUS
    <2> HIDE DEF s, t, new
    <2>3. /\ u \in Seq(DocSeq) /\ Len(u) = Len(s) + Len(t)
          /\ (\A i \in 1..Len(s) : u[i] = s[i]) /\ \A i \in 1..Len(t) : u[Len(s) + i] = t[i]
      BY <2>0, ConcatProperties
    <2>4. Len(u) = 2 /\ u[1] = a /\ u[1 + 1] = b
      BY <2>1, <2>3
    <2>5. \A i \in 1..Len(u) : i = 1 \/ i = 2
      BY <2>4
    <2> HIDE DEF u
    <2>6. \A i \in 1..Len(u) : u[i] = new[i]
      BY <2>2, <2>4, <2>5
    <2>7. u = new
      BY <2>2, <2>3, <2>4, <2>6, SeqEqual
    <2> QED
      BY <2>7 DEF u, s, t
  <1>6. /\ new \in Seq(DocSeq) /\ QueueDocs(new) = DocsIn(a) \cup DocsIn(b)
        /\ Waiting(new) = Len(a) + Len(b)
        /\ Apart(new) <=> Distinct(a) /\ Distinct(b) /\ DocsIn(a) \cap DocsIn(b) = {}
    <2> DEFINE s == <<a>>
               t == <<b>>
    <2>1. s \in Seq(DocSeq) /\ t \in Seq(DocSeq)
      BY <1>3, <1>4
    <2> HIDE DEF s, t
    <2>2. /\ s \o t \in Seq(DocSeq) /\ QueueDocs(s \o t) = QueueDocs(s) \cup QueueDocs(t)
          /\ Waiting(s \o t) = Waiting(s) + Waiting(t)
          /\ Apart(s \o t) <=> Apart(s) /\ Apart(t) /\ QueueDocs(s) \cap QueueDocs(t) = {}
      BY <2>1, QueuesAdd
    <2>3. /\ QueueDocs(s) = DocsIn(a) /\ QueueDocs(t) = DocsIn(b)
          /\ Waiting(s) = Len(a) /\ Waiting(t) = Len(b) /\ new = s \o t
          /\ (Apart(s) <=> Distinct(a)) /\ (Apart(t) <=> Distinct(b))
      BY <1>3, <1>4, <1>5 DEF s, t
    <2> HIDE DEF new
    <2> QED
      BY <2>2, <2>3, Zenon
  <1> HIDE DEF new
  <1>7. QueueDocs(new) \subseteq DocsIn(Head(q)) /\ (Distinct(Head(q)) => Apart(new))
    BY <1>2, <1>6
  <1>8. /\ new \o Tail(q) \in Seq(DocSeq)
        /\ QueueDocs(new \o Tail(q)) = QueueDocs(new) \cup QueueDocs(Tail(q))
        /\ Waiting(new \o Tail(q)) = Waiting(new) + Waiting(Tail(q))
        /\ Waiting(q) = Len(Head(q)) + Waiting(Tail(q))
        /\ Apart(q) => Apart(new \o Tail(q))
    BY <1>6, <1>7, QueueReplaced
  <1>9. QueueDocs(q) = DocsIn(Head(q)) \cup QueueDocs(Tail(q))
    BY FirstCall
  <1>10. QueueDocs(new \o Tail(q)) = QueueDocs(q)
    BY <1>2, <1>6, <1>8, <1>9
  <1>11. Waiting(new \o Tail(q)) = Waiting(q)
    BY <1>2, <1>6, <1>8
  <1> QED
    BY <1>8, <1>10, <1>11 DEF new

LEMMA QueueOfRest ==
  ASSUME NEW q \in Seq(DocSeq), q # <<>>, NEW rest \in Seq(SinkDoc),
         DocsIn(rest) \subseteq DocsIn(Head(q)), Distinct(Head(q)) => Distinct(rest)
  PROVE  LET r == IF rest = <<>> THEN Tail(q) ELSE <<rest>> \o Tail(q)
         IN  /\ r \in Seq(DocSeq)
             /\ QueueDocs(r) = DocsIn(rest) \cup QueueDocs(Tail(q))
             /\ QueueDocs(r) \subseteq QueueDocs(q)
             /\ Waiting(Tail(q)) \in Nat
             /\ Waiting(r) = Len(rest) + Waiting(Tail(q))
             /\ Waiting(q) = Len(Head(q)) + Waiting(Tail(q))
             /\ (Apart(q) => Apart(r))
  <1>1. /\ Tail(q) \in Seq(DocSeq) /\ Head(q) \in DocSeq
        /\ QueueDocs(q) = DocsIn(Head(q)) \cup QueueDocs(Tail(q))
        /\ Waiting(Tail(q)) \in Nat /\ Waiting(q) = Len(Head(q)) + Waiting(Tail(q))
        /\ Apart(q) => /\ Distinct(Head(q)) /\ Apart(Tail(q))
                       /\ DocsIn(Head(q)) \cap QueueDocs(Tail(q)) = {}
    BY FirstCall
  <1>2. CASE rest = <<>>
    <2>1. DocsIn(rest) = {} /\ Len(rest) = 0
      BY <1>2 DEF DocsIn
    <2> QED
      BY <1>1, <1>2, <2>1
  <1>3. CASE rest # <<>>
    <2> DEFINE new == <<rest>>
    <2>1. rest \in DocSeq
      BY <1>3 DEF DocSeq
    <2>2. /\ new \in Seq(DocSeq) /\ QueueDocs(new) = DocsIn(rest)
          /\ Waiting(new) = Len(rest) /\ (Apart(new) <=> Distinct(rest))
      BY <2>1, SmallQueues
    <2> HIDE DEF new
    <2>3. QueueDocs(new) \subseteq DocsIn(Head(q)) /\ (Distinct(Head(q)) => Apart(new))
      BY <2>2
    <2>4. /\ new \o Tail(q) \in Seq(DocSeq)
          /\ QueueDocs(new \o Tail(q)) = QueueDocs(new) \cup QueueDocs(Tail(q))
          /\ QueueDocs(new \o Tail(q)) \subseteq QueueDocs(q)
          /\ Waiting(new \o Tail(q)) = Waiting(new) + Waiting(Tail(q))
          /\ Apart(q) => Apart(new \o Tail(q))
      BY <2>2, <2>3, QueueReplaced
    <2>5. (IF rest = <<>> THEN Tail(q) ELSE <<rest>> \o Tail(q)) = new \o Tail(q)
      BY <1>3 DEF new
    <2> QED
      BY <1>1, <2>2, <2>4, <2>5
  <1> QED
    BY <1>2, <1>3

\* While a Write goes on there is a call in progress, and what it is about is
\* the first of the queue.
LEMMA QueueInProgress ==
  ASSUME SinkTypes, status = "writing"
  PROVE  /\ Queue(parts) \in Seq(DocSeq) /\ Queue(parts) # <<>>
         /\ Docs = Head(Queue(parts)) /\ Docs \in DocSeq /\ Docs \in Seq(SinkDoc)
         /\ Len(Docs) \in Nat
  <1>1. parts # <<>> /\ (parts \in Seq(ElasticPart) \/ parts \in Seq(ClickHousePart))
    BY DEF SinkTypes
  <1>2. Queue(parts) \in Seq(DocSeq) /\ Queue(parts) # <<>> /\ Docs \in DocSeq
        /\ Docs \in Seq(SinkDoc) /\ Len(Docs) \in Nat
    <2>1. CASE parts \in Seq(ElasticPart)
      BY <1>1, <2>1, PartsHoldDocs, QueueParts, CallInProgress
    <2>2. CASE parts \in Seq(ClickHousePart)
      BY <1>1, <2>2, PartsHoldDocs, QueueParts, CallInProgress
    <2> QED
      BY <1>1, <2>1, <2>2
  <1> QED
    BY <1>2 DEF Docs

\* The waiting documents of Accounts are those of the queue.
LEMMA AccountsIsBalanced ==
  ASSUME SinkTypes
  PROVE  Accounts <=> Balanced
  <1> DEFINE n == Len(parts)
             w == [i \in 1..Len(Queue(parts)) |-> Len(Queue(parts)[i])]
             waiting == CHOOSE f : f = [i \in 0..n |-> IF i = 0 THEN 0
                                                       ELSE f[i - 1] + Len(parts[i].docs)]
  <1>1. \/ parts \in Seq(ElasticPart)
        \/ parts \in Seq(ClickHousePart)
    BY DEF SinkTypes
  <1>2. n \in Nat
    BY <1>1, LenProperties
  <1>3. Len(Queue(parts)) = n /\ \A i \in 1..n : Queue(parts)[i] = parts[i].docs
    BY <1>2 DEF Queue
  <1>4. \A i \in 1..n : w[i] = Len(parts[i].docs)
    BY <1>2, <1>3
  <1>5. Waiting(Queue(parts)) = Total(w, n)
    BY <1>3 DEF Waiting
  <1> HIDE DEF w
  <1>6. \A f : f = [i \in 0..n |-> IF i = 0 THEN 0 ELSE f[i - 1] + Len(parts[i].docs)]
                 <=> Sums(f, w, n)
    <2> SUFFICES ASSUME NEW f
                 PROVE  [i \in 0..n |-> IF i = 0 THEN 0 ELSE f[i - 1] + Len(parts[i].docs)]
                          = [i \in 0..n |-> IF i = 0 THEN 0 ELSE f[i - 1] + w[i]]
      BY DEF Sums
    <2>1. \A i \in 0..n : i # 0 => w[i] = Len(parts[i].docs)
      BY <1>2, <1>4
    <2> HIDE DEF n
    <2> QED
      BY <2>1
  <1>7. Sums(waiting, w, n)
    BY <1>2, <1>6, SumsExist
  <1>8. waiting[n] = Waiting(Queue(parts))
    <2> HIDE DEF waiting, n
    <2> QED
      BY <1>2, <1>5, <1>7, TotalIs
  <1>9. Accounts <=> (status # "failed" =>
                        applied + stale + Cardinality(rejected) + waiting[n] = Len(batch))
    BY DEF Accounts
  <1> QED
    BY <1>8, <1>9, Zenon DEF Balanced

\* A step counts each document of the call in progress once or leaves it
\* waiting.
LEMMA UnsharedStep ==
  ASSUME SinkTypes, Unshared, Balanced, SinkStep, SinkTypes'
  PROVE  Unshared' /\ Balanced'
  <1> DEFINE q == Queue(parts)
             r == Queue(parts)'
  <1>1. /\ status = "writing" /\ UNCHANGED batch
        /\ CountsNothing \/ Splits \/ \E rest, refused : Counts(rest, refused)
    BY DEF SinkStep
  <1>2. q \in Seq(DocSeq) /\ q # <<>> /\ Docs = Head(q) /\ Docs \in Seq(SinkDoc)
        /\ Len(Docs) \in Nat
    BY <1>1, QueueInProgress
  <1>3. /\ Apart(q) /\ QueueDocs(q) \cap rejected = {} /\ IsFiniteSet(rejected)
        /\ applied + stale + Cardinality(rejected) + Waiting(q) = Len(batch)
    BY <1>1 DEF Unshared, Balanced
  <1>4. applied \in Int /\ stale \in Nat /\ applied' \in Int /\ stale' \in Nat
    BY DEF SinkTypes
  <1>5. Cardinality(rejected) \in Nat
    BY <1>3, FS_CardinalityType
  <1> HIDE DEF q, r
  <1>6. ASSUME /\ Apart(r) /\ QueueDocs(r) \cap rejected' = {} /\ IsFiniteSet(rejected')
               /\ applied' + stale' + Cardinality(rejected') + Waiting(r) = Len(batch)
        PROVE  Unshared' /\ Balanced'
    <2>1. batch' = batch /\ Queue(parts)' = r
      BY <1>1 DEF r
    <2>2. Unshared'
      <3>1. /\ Apart(Queue(parts)') /\ QueueDocs(Queue(parts)') \cap rejected' = {}
            /\ IsFiniteSet(rejected')
        BY <1>6, <2>1, Zenon
      <3> QED
        BY <3>1 DEF Unshared, Apart, QueueDocs, DocsIn, Distinct
    <2>3. Balanced'
      <3>1. applied' + stale' + Cardinality(rejected') + Waiting(Queue(parts)') = Len(batch')
        BY <1>6, <2>1, Zenon
      <3> QED
        BY <3>1 DEF Balanced, Waiting, Total, Sums
    <2> QED
      BY <2>2, <2>3
  <1>7. CASE CountsNothing
    <2>1. r = q /\ UNCHANGED <<applied, stale, rejected>>
      BY <1>7 DEF CountsNothing, q, r
    <2> QED
      BY <1>3, <1>6, <2>1
  <1>8. CASE Splits
    <2>1. UNCHANGED <<applied, stale, rejected>>
      BY <1>8 DEF Splits
    <2>2. PICK a, b \in DocSeq : a \o b = Head(q) /\ r = <<a, b>> \o Tail(q)
      BY <1>2, <1>8 DEF Splits, q, r
    <2>3. QueueDocs(r) = QueueDocs(q) /\ Waiting(r) = Waiting(q) /\ (Apart(q) => Apart(r))
      BY <1>2, <2>2, QueueOfSplit
    <2> QED
      BY <1>3, <1>6, <2>1, <2>3
  <1>9. ASSUME NEW rest, NEW refused, Counts(rest, refused) PROVE Unshared' /\ Balanced'
    <2>1. CASE status' = "failed"
      BY <2>1 DEF Unshared, Balanced
    <2>2. CASE status' # "failed"
      <3>1. /\ rest \in Seq(SinkDoc) /\ DocsIn(rest) \subseteq DocsIn(Head(q))
            /\ Distinct(Head(q)) => Distinct(rest)
            /\ refused \subseteq DocsIn(Head(q)) \ DocsIn(rest)
            /\ rejected' = rejected \cup refused
            /\ applied' + stale' + Cardinality(refused) + Len(rest) = applied + stale + Len(Head(q))
        BY <1>2, <1>9 DEF Counts
      <3>2. r = IF rest = <<>> THEN Tail(q) ELSE <<rest>> \o Tail(q)
        <4>1. \/ rest # <<>> /\ Queue(parts)' = <<rest>> \o Tail(Queue(parts))
              \/ rest = <<>> /\ Queue(parts)' = Tail(Queue(parts))
          BY <1>9, <2>2 DEF Counts
        <4> QED
          BY <4>1 DEF q, r
      <3>3. /\ QueueDocs(r) = DocsIn(rest) \cup QueueDocs(Tail(q))
            /\ QueueDocs(r) \subseteq QueueDocs(q)
            /\ Waiting(Tail(q)) \in Nat
            /\ Waiting(r) = Len(rest) + Waiting(Tail(q))
            /\ Waiting(q) = Len(Head(q)) + Waiting(Tail(q))
            /\ (Apart(q) => Apart(r))
        BY <1>2, <3>1, <3>2, QueueOfRest
      <3>4. /\ QueueDocs(q) = DocsIn(Head(q)) \cup QueueDocs(Tail(q))
            /\ DocsIn(Head(q)) \cap QueueDocs(Tail(q)) = {}
        BY <1>2, <1>3, FirstCall
      <3>5. refused \cap rejected = {} /\ QueueDocs(r) \cap (rejected \cup refused) = {}
        BY <1>3, <3>1, <3>3, <3>4
      <3>6. IsFiniteSet(refused)
        <4>1. refused \in SUBSET DocsIn(Docs) /\ IsFiniteSet(DocsIn(Docs))
          BY <1>2, <3>1, DocsFinite
        <4> QED
          BY <4>1, FS_Subset
      <3>7. /\ IsFiniteSet(rejected \cup refused) /\ Cardinality(refused) \in Nat
            /\ Cardinality(rejected \cup refused) = Cardinality(rejected) + Cardinality(refused)
        <4>1. /\ IsFiniteSet(rejected \cup refused)
              /\ Cardinality(rejected \cup refused) = Cardinality(rejected) + Cardinality(refused)
                                                        - Cardinality(rejected \cap refused)
          BY <1>3, <3>6, FS_Union
        <4>2. rejected \cap refused = {}
          BY <3>5
        <4>3. Cardinality(rejected \cap refused) = 0
          BY <4>2, FS_EmptySet
        <4>4. Cardinality(refused) \in Nat
          BY <3>6, FS_CardinalityType
        <4> QED
          BY <1>5, <4>1, <4>3, <4>4
      <3> DEFINE c == Cardinality(rejected)
                 f == Cardinality(refused)
                 h == Len(Head(q))
                 l == Len(rest)
                 t == Waiting(Tail(q))
                 n == Len(batch)
      <3>8. /\ c \in Nat /\ f \in Nat /\ h \in Nat /\ l \in Nat /\ t \in Nat
            /\ applied' + stale' + f + l = applied + stale + h
            /\ applied + stale + c + (h + t) = n /\ n \in Nat
        <4>1. Len(batch) \in Nat
          BY LenProperties DEF SinkTypes, DocSeq
        <4> QED
          BY <1>2, <1>3, <1>5, <3>1, <3>3, <3>7, <4>1, LenProperties
      <3>9. Cardinality(rejected') = c + f /\ Waiting(r) = l + t
        BY <3>1, <3>3, <3>7
      <3> HIDE DEF c, f, h, l, t, n
      <3>10. applied' + stale' + (c + f) + (l + t) = n
        <4> DEFINE x == applied + stale
                   y == applied' + stale'
        <4>1. x \in Int /\ y \in Int
          BY <1>4
        <4>2. y + f + l = x + h /\ x + c + (h + t) = n
          BY <3>8
        <4> HIDE DEF x, y
        <4>3. y + (c + f) + (l + t) = n
          BY <3>8, <4>1, <4>2
        <4> QED
          BY <4>3 DEF y
      <3>11. applied' + stale' + Cardinality(rejected') + Waiting(r) = Len(batch)
        BY <3>9, <3>10, Zenon DEF n
      <3> QED
        BY <1>3, <1>6, <3>1, <3>3, <3>5, <3>7, <3>11
    <2> QED
      BY <2>1, <2>2
  <1> QED
    BY <1>1, <1>7, <1>8, <1>9

\* No batch holds a document twice: two changes differ in their version, the
\* rows of a scan, and the two documents of one change, in their key.
DistinctBatches == \A b \in ElasticBatches \cup ClickHouseBatches : Distinct(b)

\* Every document is counted once: those applied, outdated, reported and still
\* waiting are together as many as the batch holds, however requests are split,
\* narrowed and retried, so that the total Runner.write compares with the batch
\* after a Write is right, and no document is counted before its fate is known.
THEOREM SinksAccount ==
  ASSUME DistinctBatches
  PROVE  Spec => []Accounts
  <1> DEFINE Inv == SinkTypes /\ Unshared /\ Balanced
  <1>1. Init => Inv
    <2> SUFFICES ASSUME Init PROVE Inv
      OBVIOUS
    <2>1. /\ SinkTypes /\ Queue(parts) = <<batch>> /\ batch \in ElasticBatches \cup ClickHouseBatches
          /\ rejected = {} /\ applied = 0 /\ stale = 0
      BY WriteBegins
    <2>2. batch \in DocSeq /\ Distinct(batch)
      BY <2>1 DEF SinkTypes, DistinctBatches
    <2>3. Waiting(<<batch>>) = Len(batch) /\ Apart(<<batch>>)
      BY <2>2, SmallQueues
    <2>4. Unshared
      BY <2>1, <2>3, FS_EmptySet DEF Unshared
    <2>5. Cardinality(rejected) = 0 /\ Len(batch) \in Nat
      BY <2>1, <2>2, FS_EmptySet, LenProperties DEF DocSeq
    <2>6. Balanced
      BY <2>1, <2>3, <2>5 DEF Balanced
    <2> QED
      BY <2>1, <2>4, <2>6
  <1>2. Inv /\ [Next]_vars => Inv'
    <2> SUFFICES ASSUME Inv, [Next]_vars PROVE Inv'
      OBVIOUS
    <2>1. SinkTypes' /\ (SinkStep \/ SinkStutter)
      BY WriteSteps
    <2>2. CASE SinkStutter
      <3>1. /\ UNCHANGED <<batch, applied, stale, rejected, status>>
            /\ Queue(parts)' = Queue(parts)
        BY <2>2 DEF SinkStutter, Queue
      <3>2. Unshared'
        <4>1. status' # "failed" =>
                /\ Apart(Queue(parts)') /\ QueueDocs(Queue(parts)') \cap rejected' = {}
                /\ IsFiniteSet(rejected')
          BY <3>1, Zenon DEF Unshared
        <4> QED
          BY <4>1 DEF Unshared, Apart, QueueDocs, DocsIn, Distinct
      <3>3. Balanced'
        <4>1. status' # "failed" =>
                applied' + stale' + Cardinality(rejected') + Waiting(Queue(parts)') = Len(batch')
          BY <3>1, Zenon DEF Balanced
        <4> QED
          BY <4>1 DEF Balanced, Waiting, Total, Sums
      <3> QED
        BY <2>1, <3>2, <3>3
    <2>3. CASE SinkStep
      BY <2>1, <2>3, UnsharedStep
    <2> QED
      BY <2>1, <2>2, <2>3
  <1>3. Inv => Accounts
    BY AccountsIsBalanced
  <1> QED
    BY <1>1, <1>2, <1>3, PTL DEF Spec

-----------------------------------------------------------------------------
(***************************************************************************)
(* Narrowing reaches single rows.  A part at the last depth has room for   *)
(* one row, and each level above it for twice as many as the next:         *)
(* 2^(MaxDepth - 1) rows at the first.                                     *)
(***************************************************************************)
Rooms(room) ==
  /\ room \in [1..MaxDepth -> Nat]
  /\ room[MaxDepth] = 1
  /\ \A d \in 1..(MaxDepth - 1) : room[d] = 2 * room[d + 1]
  /\ \A b \in ClickHouseBatches : Len(b) <= room[1]

DepthSuffices == \E room : Rooms(room)

\* A part that fits its depth, of documents of the batch.
Fitting(room) ==
  {x \in ClickHousePart : /\ x.depth \in 1..MaxDepth /\ Len(x.docs) <= room[x.depth]
                          /\ DocsIn(x.docs) \subseteq DocsIn(batch)}

PartsFit(room) == kind = "clickhouse" => parts \in Seq(Fitting(room))

LEMMA PartsFitStep ==
  ASSUME NEW CONSTANT room, Rooms(room), SinkTypes, PartsFit(room), FailsOnlyOnFault,
         kind = "clickhouse", ClickHouse!Next, UNCHANGED <<kind, stale>>
  PROVE  PartsFit(room)' /\ FailsOnlyOnFault'
  <1> DEFINE P == Fitting(room)
  <1>1. /\ parts \in Seq(P) /\ faults \in Nat /\ batch \in Seq(SinkDoc)
        /\ (status = "writing" => parts # <<>>)
    BY DEF SinkTypes, PartsFit, DocSeq
  <1>2. \A x \in P : /\ x \in ClickHousePart /\ x.docs \in DocSeq
                     /\ x.depth \in 1..MaxDepth /\ Len(x.docs) <= room[x.depth]
                     /\ DocsIn(x.docs) \subseteq DocsIn(batch)
    BY PartsHoldDocs DEF Fitting
  <1>3. ASSUME status = "writing"
        PROVE  /\ Docs = Head(parts).docs /\ Docs \in DocSeq /\ Docs \in Seq(SinkDoc)
               /\ Head(parts) \in P /\ Len(Docs) \in Nat /\ Len(Docs) >= 1
               /\ Elastic!Elems(Docs) = DocsIn(Docs) /\ ClickHouse!Elems(Docs) = DocsIn(Docs)
               /\ Head(parts).depth \in 1..MaxDepth /\ Len(Docs) <= room[Head(parts).depth]
               /\ DocsIn(Docs) \subseteq DocsIn(batch)
    <2>1. /\ Docs = Head(parts).docs /\ Docs \in DocSeq /\ Docs \in Seq(SinkDoc)
          /\ Head(parts) \in P /\ Len(Docs) \in Nat /\ Len(Docs) >= 1
          /\ Elastic!Elems(Docs) = DocsIn(Docs) /\ ClickHouse!Elems(Docs) = DocsIn(Docs)
      BY <1>1, <1>2, <1>3, CallInProgress
    <2> QED
      BY <1>2, <2>1
  <1>4. ClickHouse!Elems(batch) = DocsIn(batch) /\ MaxDepth \in Nat /\ MaxDepth >= 1
    BY <1>1, DocsFinite, SinksAssumption DEF SinksAssumption
  <1>5. ASSUME UNCHANGED batch, parts' \in Seq(P) PROVE PartsFit(room)'
    <2>1. Fitting(room)' = P
      BY <1>5 DEF Fitting, DocsIn
    <2> QED
      BY <1>5, <2>1 DEF PartsFit
  <1> HIDE DEF P
  <1>6. ASSUME status = "writing", ClickHouse!Isolate, UNCHANGED batch
        PROVE  PartsFit(room)' /\ FailsOnlyOnFault'
    <2>1. CASE /\ parts' = Tail(parts)
               /\ status' = IF Tail(parts) = <<>> THEN "ok" ELSE "writing"
      <3>1. parts' \in Seq(P)
        BY <1>1, <1>2, <1>6, <2>1, CallDone
      <3> QED
        BY <1>5, <1>6, <2>1, <3>1 DEF FailsOnlyOnFault
    <2>2. CASE Len(Docs) > 1 /\ Head(parts).depth >= MaxDepth
      <3>1. Head(parts).depth = MaxDepth
        BY <1>3, <1>4, <1>6, <2>2
      <3>2. Len(Docs) <= room[MaxDepth] /\ room[MaxDepth] = 1
        BY <1>3, <1>6, <3>1 DEF Rooms
      <3>3. Len(Docs) <= 1
        BY <3>2
      <3> DEFINE n == Len(Docs)
      <3>4. n \in Nat /\ n > 1 /\ n <= 1
        BY <1>3, <1>6, <2>2, <3>3
      <3> HIDE DEF n
      <3> QED
        BY <3>4
    <2> DEFINE k == Head(parts).depth
               x == SubSeq(Docs, 1, Len(Docs) \div 2)
               y == SubSeq(Docs, (Len(Docs) \div 2) + 1, Len(Docs))
               a == [docs |-> x, attempt |-> 1, depth |-> k + 1]
               b == [docs |-> y, attempt |-> 1, depth |-> k + 1]
    <2>3. CASE /\ Len(Docs) > 1 /\ ~ (k >= MaxDepth)
               /\ UNCHANGED status /\ parts' = <<a, b>> \o Tail(parts)
      <3>1. /\ x \in DocSeq /\ y \in DocSeq /\ x \o y = Docs
            /\ Len(x) = Len(Docs) \div 2 /\ Len(y) = Len(Docs) - (Len(Docs) \div 2)
            /\ \A n \in Nat : Len(Docs) <= 2 * n =>
                 Len(Docs) \div 2 <= n /\ Len(Docs) - (Len(Docs) \div 2) <= n
        BY <1>3, <1>6, <2>3, HalvesOfPart
      <3>2. k \in 1..(MaxDepth - 1) /\ k + 1 \in 1..MaxDepth /\ k + 1 \in Nat
        BY <1>3, <1>4, <1>6, <2>3
      <3> HIDE DEF k
      <3>3. room[k + 1] \in Nat /\ room[k] = 2 * room[k + 1]
        BY <3>2 DEF Rooms
      <3>4. Len(Docs) <= 2 * room[k + 1]
        <4>1. Len(Docs) <= room[k]
          BY <1>3, <1>6 DEF k
        <4> QED
          BY <3>3, <4>1, Zenon
      <3> HIDE DEF x, y
      <3>5. Len(x) <= room[k + 1] /\ Len(y) <= room[k + 1]
        BY <3>1, <3>3, <3>4, Zenon
      <3>6. DocsIn(x) \subseteq DocsIn(batch) /\ DocsIn(y) \subseteq DocsIn(batch)
        <4>1. x \in Seq(SinkDoc) /\ y \in Seq(SinkDoc)
          BY <3>1 DEF DocSeq
        <4>2. DocsIn(x \o y) = DocsIn(x) \cup DocsIn(y)
          BY <4>1, DocsOfTwo
        <4>3. DocsIn(Docs) = DocsIn(x) \cup DocsIn(y)
          BY <3>1, <4>2, Zenon
        <4> QED
          BY <1>3, <1>6, <4>3
      <3>7. a \in ClickHousePart /\ a.docs = x /\ a.depth = k + 1
        BY <3>1, <3>2 DEF ClickHousePart
      <3>8. b \in ClickHousePart /\ b.docs = y /\ b.depth = k + 1
        BY <3>1, <3>2 DEF ClickHousePart
      <3>9. parts' = <<a, b>> \o Tail(parts)
        BY <2>3
      <3> HIDE DEF a, b
      <3>10. a \in P /\ b \in P
        BY <3>2, <3>5, <3>6, <3>7, <3>8 DEF P, Fitting
      <3>11. parts' \in Seq(P)
        BY <1>1, <1>2, <1>6, <3>9, <3>10, CallSplit
      <3> QED
        BY <1>5, <1>6, <2>3, <3>11 DEF FailsOnlyOnFault
    <2> QED
      BY <1>6, <2>1, <2>2, <2>3, IsolateSteps
  <1>7. ASSUME UNCHANGED <<batch, parts>>, status' = "failed", faults' > 0
        PROVE  PartsFit(room)' /\ FailsOnlyOnFault'
    BY <1>1, <1>5, <1>7 DEF FailsOnlyOnFault
  <1>8. CASE ClickHouse!Encode
    <2>1. status = "writing" /\ UNCHANGED <<batch, parts, faults>>
          /\ (UNCHANGED status \/ \E d \in ClickHouse!Elems(Head(parts).docs) : d.body = "none")
      BY <1>8 DEF ClickHouse!Encode, ClickHouse!GiveUp, ClickHouse!Part
    <2>2. PartsFit(room)'
      BY <1>1, <1>5, <2>1
    <2>3. CASE UNCHANGED status
      BY <2>1, <2>2, <2>3 DEF FailsOnlyOnFault
    <2>4. CASE \E d \in ClickHouse!Elems(Head(parts).docs) : d.body = "none"
      <3>1. \E d \in ClickHouse!Elems(batch) : d.body = "none"
        BY <1>3, <1>4, <2>1, <2>4
      <3>2. ClickHouse!Elems(batch)' = ClickHouse!Elems(batch)
        BY <2>1 DEF ClickHouse!Elems
      <3>3. \E d \in ClickHouse!Elems(batch)' : d.body = "none"
        BY <3>1, <3>2
      <3> QED
        BY <2>2, <3>3 DEF FailsOnlyOnFault, ClickHouse!Elems
    <2> QED
      BY <2>1, <2>3, <2>4
  <1>9. CASE ClickHouse!Inserted
    <2>1. /\ status = "writing" /\ UNCHANGED batch /\ parts' = Tail(parts)
          /\ status' = IF Tail(parts) = <<>> THEN "ok" ELSE "writing"
      BY <1>9 DEF ClickHouse!Inserted, ClickHouse!Done
    <2>2. parts' \in Seq(P)
      BY <1>1, <1>2, <2>1, CallDone
    <2> QED
      BY <1>5, <2>1, <2>2 DEF FailsOnlyOnFault
  <1>10. CASE ClickHouse!PostFails
    <2>1. status = "writing" /\ UNCHANGED batch /\ faults' > 0
      BY <1>1, <1>10 DEF ClickHouse!PostFails, ClickHouse!Fault
    <2>2. \/ status' = "failed" /\ UNCHANGED parts
          \/ /\ parts' = <<[Head(parts) EXCEPT !.attempt = @ + 1]>> \o Tail(parts)
             /\ UNCHANGED status
      BY <1>10 DEF ClickHouse!PostFails, ClickHouse!GiveUp, ClickHouse!Part
    <2>3. CASE /\ parts' = <<[Head(parts) EXCEPT !.attempt = @ + 1]>> \o Tail(parts)
               /\ UNCHANGED status
      <3> DEFINE h == Head(parts)
                 a == [h EXCEPT !.attempt = @ + 1]
      <3>1. h \in P /\ h \in ClickHousePart
        BY <1>2, <1>3, <2>1
      <3> HIDE DEF h
      <3>2. a \in ClickHousePart /\ a.docs = h.docs /\ a.depth = h.depth
        BY <3>1 DEF ClickHousePart
      <3>3. parts' = <<a>> \o Tail(parts)
        BY <2>3 DEF h
      <3> HIDE DEF a
      <3>4. a \in P
        BY <1>2, <3>1, <3>2 DEF P, Fitting
      <3>5. parts' \in Seq(P)
        BY <1>1, <1>2, <2>1, <3>3, <3>4, CallRepeated
      <3> QED
        BY <1>5, <2>1, <2>3, <3>5 DEF FailsOnlyOnFault
    <2> QED
      BY <1>7, <2>1, <2>2, <2>3
  <1>11. CASE ClickHouse!InsertRefused
    BY <1>6, <1>11 DEF ClickHouse!InsertRefused
  <1>12. CASE ClickHouse!InsertDenied
    BY <1>6, <1>12 DEF ClickHouse!InsertDenied
  <1>13. CASE ClickHouse!Cancelled
    BY <1>1, <1>7, <1>13 DEF ClickHouse!Cancelled, ClickHouse!GiveUp, ClickHouse!Fault
  <1>14. CASE ClickHouse!BackoffOver \/ ClickHouse!Returned
    <2>1. UNCHANGED <<batch, parts, status, faults>>
      BY <1>14 DEF ClickHouse!BackoffOver, ClickHouse!Returned, ClickHouse!vars
    <2> QED
      BY <1>1, <1>5, <2>1 DEF FailsOnlyOnFault, ClickHouse!Elems
  <1> QED
    BY <1>8, <1>9, <1>10, <1>11, <1>12, <1>13, <1>14 DEF ClickHouse!Next

\* What Plan.Apply made can be written: with batches of at most 2^(MaxDepth - 1)
\* rows (2048 with maxIsolationDepth 12) isolate reaches every bad row before
\* its depth is spent, so that a Write to ClickHouse fails only after a fault or
\* for a document without a body.
THEOREM SinksFailOnlyOnFault ==
  ASSUME DepthSuffices
  PROVE  Spec => []FailsOnlyOnFault
  <1>1. PICK room : Rooms(room)
    BY DEF DepthSuffices
  <1> DEFINE Inv == SinkTypes /\ PartsFit(room) /\ FailsOnlyOnFault
  <1>2. Init => Inv
    <2> SUFFICES ASSUME Init PROVE Inv
      OBVIOUS
    <2>1. SinkTypes /\ status = "writing"
      BY WriteBegins
    <2>2. ASSUME kind = "clickhouse" PROVE parts \in Seq(Fitting(room))
      <3> DEFINE a == [docs |-> batch, attempt |-> 1, depth |-> 1]
      <3>1. batch \in ClickHouseBatches /\ parts = <<a>>
        BY <2>2 DEF Init, ClickHouse!Init
      <3>2. batch \in DocSeq /\ Len(batch) <= room[1] /\ 1 \in 1..MaxDepth
        BY <1>1, <2>1, <3>1, SinksAssumption DEF SinkTypes, Rooms, SinksAssumption
      <3>3. a \in ClickHousePart /\ a.docs = batch /\ a.depth = 1
        BY <3>2 DEF ClickHousePart
      <3> HIDE DEF a
      <3>4. a \in Fitting(room)
        BY <3>2, <3>3 DEF Fitting
      <3> QED
        BY <3>1, <3>4
    <2> QED
      BY <2>1, <2>2 DEF PartsFit, FailsOnlyOnFault
  <1>3. Inv /\ [Next]_vars => Inv'
    <2> SUFFICES ASSUME Inv, [Next]_vars PROVE Inv'
      OBVIOUS
    <2>1. SinkTypes'
      BY WriteSteps
    <2>2. CASE kind = "clickhouse" /\ Next
      BY <1>1, <2>1, <2>2, PartsFitStep DEF Next, ofElastic
    <2>3. CASE kind = "elasticsearch" /\ Next
      BY <2>1, <2>3 DEF Next, PartsFit, FailsOnlyOnFault
    <2>4. CASE UNCHANGED vars
      BY <2>1, <2>4 DEF vars, ofElastic, ofClickHouse, PartsFit, Fitting, DocsIn,
                        FailsOnlyOnFault, ClickHouse!Elems
    <2> QED
      BY <2>2, <2>3, <2>4 DEF SinkTypes
  <1>4. Inv => FailsOnlyOnFault
    OBVIOUS
  <1> QED
    BY <1>2, <1>3, <1>4, PTL DEF Spec

-----------------------------------------------------------------------------
(***************************************************************************)
(* A Write keeps the contract.  A document of the batch is in a call still *)
(* to be made, reported, or stored at its version or above.  ClickHouse    *)
(* answers for an insert it believes it has taken without taking it, so    *)
(* there the token must tell the parts of a batch apart: a part is a       *)
(* section of the batch, which its first document and its length give.     *)
(***************************************************************************)
Section(s, b) ==
  \E o \in Nat : o + Len(s) <= Len(b) /\ \A i \in 1..Len(s) : s[i] = b[o + i]

\* No two documents of a batch have the key and the version in common, for the
\* same reason.
UniqueVersions ==
  \A b \in ClickHouseBatches : \A i, j \in 1..Len(b) :
    b[i].key = b[j].key /\ b[i].ver = b[j].ver => i = j

\* An insert ClickHouse took before this Write held the documents of whatever
\* has its token now, as it does when the same batch is written again.
EarlierTold ==
  /\ \A d, e \in DocsIn(Earlier) : d.key = e.key => d.ver = e.ver
  /\ Earlier # <<>> =>
       \A b \in ClickHouseBatches, s \in DocSeq :
         Section(s, b) /\ ClickHouse!Token(s) = ClickHouse!Token(Earlier)
           => DocsIn(s) \subseteq DocsIn(Earlier)

SectionParts == {x \in ClickHousePart : Section(x.docs, batch)}

TokensTold ==
  \A s \in DocSeq : Section(s, batch) /\ ClickHouse!Token(s) \in tokens =>
    \A d \in DocsIn(s) : stored[d.key] >= d.ver

TokensInv ==
  kind = "clickhouse" =>
    /\ batch \in ClickHouseBatches
    /\ parts \in Seq(SectionParts)
    /\ TokensTold

\* Two sections of a batch with one token are the same.
LEMMA TokenTells ==
  ASSUME UniqueVersions, NEW b \in ClickHouseBatches, b \in Seq(SinkDoc),
         NEW s \in DocSeq, NEW t \in DocSeq, Section(s, b), Section(t, b),
         ClickHouse!Token(s) = ClickHouse!Token(t)
  PROVE  DocsIn(s) = DocsIn(t)
  <1>1. s[1].key = t[1].key /\ s[1].ver = t[1].ver /\ Len(s) = Len(t)
    BY DEF ClickHouse!Token
  <1>2. s \in Seq(SinkDoc) /\ s # <<>> /\ t \in Seq(SinkDoc)
    BY DEF DocSeq
  <1>3. Len(s) \in Nat /\ Len(s) >= 1 /\ Len(b) \in Nat
    BY <1>2, EmptySeq, LenProperties
  <1>4. PICK o \in Nat : o + Len(s) <= Len(b) /\ \A i \in 1..Len(s) : s[i] = b[o + i]
    BY DEF Section
  <1>5. PICK p \in Nat : p + Len(s) <= Len(b) /\ \A i \in 1..Len(s) : t[i] = b[p + i]
    BY <1>1 DEF Section
  <1>6. 1 \in 1..Len(s) /\ o + 1 \in 1..Len(b) /\ p + 1 \in 1..Len(b)
    BY <1>3, <1>4, <1>5
  <1>7. s[1] = b[o + 1] /\ t[1] = b[p + 1]
    BY <1>4, <1>5, <1>6
  <1>8. o + 1 = p + 1
    BY <1>1, <1>6, <1>7 DEF UniqueVersions
  <1>9. o = p
    BY <1>8
  <1>10. \A i \in 1..Len(s) : s[i] = t[i]
    BY <1>4, <1>5, <1>9
  <1> QED
    BY <1>1, <1>10 DEF DocsIn

\* The halves of a section are sections.
LEMMA SectionHalves ==
  ASSUME NEW b \in Seq(SinkDoc), NEW x \in Seq(SinkDoc), NEW y \in Seq(SinkDoc),
         NEW s, x \o y = s, Section(s, b)
  PROVE  Section(x, b) /\ Section(y, b)
  <1>1. /\ Len(s) = Len(x) + Len(y)
        /\ \A i \in 1..Len(x) : s[i] = x[i]
        /\ \A i \in 1..Len(y) : s[Len(x) + i] = y[i]
    <2>1. /\ Len(x \o y) = Len(x) + Len(y)
          /\ \A i \in 1..Len(x) : (x \o y)[i] = x[i]
          /\ \A i \in 1..Len(y) : (x \o y)[Len(x) + i] = y[i]
      BY ConcatProperties
    <2> QED
      BY <2>1
  <1>2. Len(x) \in Nat /\ Len(y) \in Nat /\ Len(b) \in Nat
    BY LenProperties
  <1>3. PICK o \in Nat : o + Len(s) <= Len(b) /\ \A i \in 1..Len(s) : s[i] = b[o + i]
    BY DEF Section
  <1> DEFINE m == Len(x)
             n == Len(y)
             l == Len(b)
  <1>4. /\ m \in Nat /\ n \in Nat /\ l \in Nat /\ o + (m + n) <= l
        /\ \A i \in 1..(m + n) : s[i] = b[o + i]
        /\ \A i \in 1..m : s[i] = x[i]
        /\ \A i \in 1..n : s[m + i] = y[i]
    BY <1>1, <1>2, <1>3
  <1> HIDE DEF m, n, l
  <1>5. o + m <= l /\ \A i \in 1..m : x[i] = b[o + i]
    <2>1. \A i \in 1..m : i \in 1..(m + n)
      BY <1>4
    <2> QED
      BY <1>4, <2>1
  <1>6. /\ o + m \in Nat /\ (o + m) + n <= l
        /\ \A i \in 1..n : y[i] = b[(o + m) + i]
    <2>1. \A i \in 1..n : m + i \in 1..(m + n) /\ o + (m + i) = (o + m) + i
      BY <1>4
    <2>2. \A i \in 1..n : y[i] = b[(o + m) + i]
      BY <1>4, <2>1
    <2> QED
      BY <1>4, <2>2
  <1> QED
    BY <1>5, <1>6 DEF Section, m, n, l

LEMMA TokensStep ==
  ASSUME UniqueVersions, SinkTypes, TokensInv, kind = "clickhouse", ClickHouse!Next,
         UNCHANGED <<kind, stale>>
  PROVE  TokensInv'
  <1> DEFINE P == SectionParts
  <1>1. /\ parts \in Seq(P) /\ batch \in ClickHouseBatches /\ TokensTold
        /\ batch \in Seq(SinkDoc) /\ stored \in [Keys -> Nat]
        /\ (status = "writing" => parts # <<>>)
    BY DEF SinkTypes, TokensInv, DocSeq
  <1>2. \A x \in P : x \in ClickHousePart /\ x.docs \in DocSeq /\ Section(x.docs, batch)
    BY PartsHoldDocs DEF SectionParts
  <1>3. ASSUME status = "writing"
        PROVE  /\ Docs = Head(parts).docs /\ Docs \in DocSeq /\ Docs \in Seq(SinkDoc)
               /\ Head(parts) \in P /\ Len(Docs) \in Nat
               /\ ClickHouse!Elems(Docs) = DocsIn(Docs) /\ Section(Docs, batch)
    <2>1. /\ Docs = Head(parts).docs /\ Docs \in DocSeq /\ Docs \in Seq(SinkDoc)
          /\ Head(parts) \in P /\ Len(Docs) \in Nat
          /\ ClickHouse!Elems(Docs) = DocsIn(Docs)
      BY <1>1, <1>2, <1>3, CallInProgress
    <2> QED
      BY <1>2, <2>1
  <1>4. ASSUME UNCHANGED batch, parts' \in Seq(P), TokensTold' PROVE TokensInv'
    <2>1. SectionParts' = P
      BY <1>4 DEF SectionParts, Section
    <2> QED
      BY <1>1, <1>4, <2>1 DEF TokensInv
  <1> HIDE DEF P
  <1>5. ASSUME UNCHANGED <<batch, stored, tokens>> PROVE TokensTold'
    BY <1>1, <1>5 DEF TokensTold, Section
  <1>6. ASSUME status = "writing", UNCHANGED batch, ClickHouse!Insert(Docs) PROVE TokensTold'
    <2>1. CASE ClickHouse!Token(Docs) \in tokens
      <3>1. stored' = stored /\ tokens' = tokens
        BY <1>6, <2>1 DEF ClickHouse!Insert
      <3> QED
        BY <1>5, <1>6, <3>1
    <2>2. CASE ClickHouse!Token(Docs) \notin tokens
      <3>1. /\ stored' = ClickHouse!Contract!Absorbed(DocsIn(Docs))
            /\ tokens' = tokens \cup {ClickHouse!Token(Docs)}
        BY <1>3, <1>6, <2>2 DEF ClickHouse!Insert
      <3>2. DocsIn(Docs) \in SUBSET DocsIn(Docs)
        OBVIOUS
      <3>3. /\ stored' \in [Keys -> Nat] /\ (\A k \in Keys : stored'[k] >= stored[k])
            /\ \A d \in DocsIn(Docs) : stored'[d.key] >= d.ver
        BY <1>1, <1>3, <1>6, <3>1, <3>2, AbsorbedHolds
      <3>4. ASSUME NEW s \in DocSeq, Section(s, batch), ClickHouse!Token(s) \in tokens',
                   NEW d \in DocsIn(s)
            PROVE  stored'[d.key] >= d.ver
        <4>1. CASE ClickHouse!Token(s) \in tokens
          <5>1. stored[d.key] >= d.ver
            BY <1>1, <3>4, <4>1 DEF TokensTold
          <5>2. d.key \in Keys /\ d.ver \in Nat
            <6>1. s \in Seq(SinkDoc)
              BY DEF DocSeq
            <6>2. d \in SinkDoc
              BY <6>1, DocsFinite
            <6> QED
              BY <6>2 DEF SinkDoc
          <5>3. stored'[d.key] >= stored[d.key] /\ stored'[d.key] \in Nat /\ stored[d.key] \in Nat
            BY <1>1, <3>3, <5>2
          <5> QED
            BY <5>1, <5>2, <5>3
        <4>2. CASE ClickHouse!Token(s) = ClickHouse!Token(Docs)
          <5>1. DocsIn(s) = DocsIn(Docs)
            BY <1>1, <1>3, <1>6, <3>4, <4>2, TokenTells
          <5> QED
            BY <3>3, <5>1
        <4> QED
          BY <3>1, <3>4, <4>1, <4>2
      <3>5. \A s \in DocSeq : Section(s, batch)' => Section(s, batch)
        BY <1>6 DEF Section
      <3>6. \A s \in DocSeq : ClickHouse!Token(s)' = ClickHouse!Token(s) /\ DocsIn(s)' = DocsIn(s)
        BY DEF ClickHouse!Token, DocsIn
      <3> QED
        BY <3>4, <3>5, <3>6 DEF TokensTold
    <2> QED
      BY <2>1, <2>2
  <1>7. ASSUME status = "writing", ClickHouse!Isolate, UNCHANGED <<batch, stored, tokens>>
        PROVE  TokensInv'
    <2>1. CASE parts' = Tail(parts)
      <3>1. parts' \in Seq(P)
        BY <1>1, <1>2, <1>7, <2>1, CallDone
      <3> QED
        BY <1>4, <1>5, <1>7, <3>1
    <2>2. CASE UNCHANGED parts
      BY <1>1, <1>4, <1>5, <1>7, <2>2
    <2> DEFINE k == Head(parts).depth
               x == SubSeq(Docs, 1, Len(Docs) \div 2)
               y == SubSeq(Docs, (Len(Docs) \div 2) + 1, Len(Docs))
               a == [docs |-> x, attempt |-> 1, depth |-> k + 1]
               b == [docs |-> y, attempt |-> 1, depth |-> k + 1]
    <2>3. CASE Len(Docs) > 1 /\ parts' = <<a, b>> \o Tail(parts)
      <3>1. x \in DocSeq /\ y \in DocSeq /\ x \o y = Docs
        BY <1>3, <1>7, <2>3, HalvesOfPart
      <3>2. k + 1 \in Nat
        <4>1. k \in Nat
          BY <1>2, <1>3, <1>7, PartsHoldDocs
        <4> QED
          BY <4>1
      <3> HIDE DEF x, y, k
      <3>3. Section(x, batch) /\ Section(y, batch)
        <4>1. x \in Seq(SinkDoc) /\ y \in Seq(SinkDoc)
          BY <3>1 DEF DocSeq
        <4> QED
          BY <1>1, <1>3, <1>7, <3>1, <4>1, SectionHalves
      <3>4. a \in ClickHousePart /\ a.docs = x /\ b \in ClickHousePart /\ b.docs = y
        BY <3>1, <3>2 DEF ClickHousePart
      <3>5. parts' = <<a, b>> \o Tail(parts)
        BY <2>3
      <3> HIDE DEF a, b
      <3>6. a \in P /\ b \in P
        BY <3>3, <3>4 DEF P, SectionParts
      <3>7. parts' \in Seq(P)
        BY <1>1, <1>2, <1>7, <3>5, <3>6, CallSplit
      <3> QED
        BY <1>4, <1>5, <1>7, <3>7
    <2> QED
      BY <1>7, <2>1, <2>2, <2>3, IsolateSteps
  <1>8. CASE ClickHouse!Encode \/ ClickHouse!Cancelled \/ ClickHouse!BackoffOver \/ ClickHouse!Returned
    <2>1. UNCHANGED <<batch, parts, stored, tokens>>
      BY <1>8 DEF ClickHouse!Encode, ClickHouse!Cancelled, ClickHouse!BackoffOver,
                  ClickHouse!Returned, ClickHouse!GiveUp, ClickHouse!vars
    <2> QED
      BY <1>1, <1>4, <1>5, <2>1
  <1>9. CASE ClickHouse!Inserted
    <2>1. status = "writing" /\ UNCHANGED batch /\ parts' = Tail(parts)
      BY <1>9 DEF ClickHouse!Inserted, ClickHouse!Done
    <2>2. ClickHouse!Insert(Docs)
      BY <1>3, <1>9, <2>1 DEF ClickHouse!Inserted, ClickHouse!Part
    <2>3. parts' \in Seq(P)
      BY <1>1, <1>2, <2>1, CallDone
    <2> QED
      BY <1>4, <1>6, <2>1, <2>2, <2>3
  <1>10. CASE ClickHouse!PostFails
    <2>1. status = "writing" /\ UNCHANGED batch
      BY <1>10 DEF ClickHouse!PostFails
    <2>2. ClickHouse!Insert(Docs) \/ UNCHANGED <<stored, tokens>>
      BY <1>3, <1>10, <2>1 DEF ClickHouse!PostFails, ClickHouse!Part
    <2>3. TokensTold'
      BY <1>5, <1>6, <2>1, <2>2
    <2>4. \/ UNCHANGED parts
          \/ parts' = <<[Head(parts) EXCEPT !.attempt = @ + 1]>> \o Tail(parts)
      BY <1>10 DEF ClickHouse!PostFails, ClickHouse!GiveUp, ClickHouse!Part
    <2>5. CASE parts' = <<[Head(parts) EXCEPT !.attempt = @ + 1]>> \o Tail(parts)
      <3> DEFINE h == Head(parts)
                 a == [h EXCEPT !.attempt = @ + 1]
      <3>1. h \in P /\ h \in ClickHousePart
        BY <1>2, <1>3, <2>1
      <3> HIDE DEF h
      <3>2. a \in ClickHousePart /\ a.docs = h.docs
        BY <3>1 DEF ClickHousePart
      <3>3. parts' = <<a>> \o Tail(parts)
        BY <2>5 DEF h
      <3> HIDE DEF a
      <3>4. a \in P
        BY <1>2, <3>1, <3>2 DEF P, SectionParts
      <3>5. parts' \in Seq(P)
        BY <1>1, <1>2, <2>1, <3>3, <3>4, CallRepeated
      <3> QED
        BY <1>4, <2>1, <2>3, <3>5
    <2> QED
      BY <1>1, <1>4, <2>1, <2>3, <2>4, <2>5
  <1>11. CASE ClickHouse!InsertRefused \/ ClickHouse!InsertDenied
    BY <1>7, <1>11 DEF ClickHouse!InsertRefused, ClickHouse!InsertDenied
  <1> QED
    BY <1>8, <1>9, <1>10, <1>11 DEF ClickHouse!Next

\* Before the Write ClickHouse has at most the token of an earlier insert.
LEMMA TokensBegin ==
  ASSUME EarlierTold, Init
  PROVE  TokensInv
  <1> SUFFICES ASSUME kind = "clickhouse" PROVE TokensInv
    BY DEF TokensInv
  <1> DEFINE a == [docs |-> batch, attempt |-> 1, depth |-> 1]
             E == DocsIn(Earlier)
  <1>1. batch \in ClickHouseBatches /\ parts = <<a>>
        /\ tokens = (IF Earlier = <<>> THEN {} ELSE {ClickHouse!Token(Earlier)})
    BY DEF Init, ClickHouse!Init
  <1>2. batch \in DocSeq /\ stored \in [Keys -> Nat]
    BY WriteBegins DEF SinkTypes
  <1>3. Earlier \in Seq(SinkDoc)
    BY SinksAssumption DEF SinksAssumption
  <1>4. ClickHouse!Elems(Earlier) = E /\ E \subseteq SinkDoc
    BY <1>3, DocsFinite
  <1>5. stored = [k \in Keys |-> IF \E d \in E : d.key = k
                                   THEN (CHOOSE d \in E : d.key = k).ver ELSE 0]
    BY <1>4 DEF Init, ClickHouse!Init
  <1>6. \A d \in E : stored[d.key] >= d.ver
    <2> SUFFICES ASSUME NEW d \in E PROVE stored[d.key] >= d.ver
      OBVIOUS
    <2> DEFINE e == CHOOSE x \in E : x.key = d.key
    <2>1. e \in E /\ e.key = d.key
      OBVIOUS
    <2>2. d.key \in Keys /\ d.ver \in Nat
      BY <1>4 DEF SinkDoc
    <2>3. stored[d.key] = e.ver
      BY <1>5, <2>2
    <2> HIDE DEF e, E
    <2>4. e.ver = d.ver
      BY <2>1 DEF EarlierTold, E
    <2> QED
      BY <2>2, <2>3, <2>4
  <1>7. Section(batch, batch)
    <2>1. 0 \in Nat /\ 0 + Len(batch) <= Len(batch) /\ \A i \in 1..Len(batch) : batch[i] = batch[0 + i]
      BY <1>2, LenProperties DEF DocSeq
    <2> QED
      BY <2>1 DEF Section
  <1>8. a \in ClickHousePart /\ a.docs = batch
    BY <1>2 DEF ClickHousePart
  <1> HIDE DEF a
  <1>9. parts \in Seq(SectionParts)
    BY <1>1, <1>7, <1>8 DEF SectionParts
  <1>10. TokensTold
    <2> SUFFICES ASSUME NEW s \in DocSeq, Section(s, batch), ClickHouse!Token(s) \in tokens,
                        NEW d \in DocsIn(s)
                 PROVE  stored[d.key] >= d.ver
      BY DEF TokensTold
    <2>1. Earlier # <<>> /\ ClickHouse!Token(s) = ClickHouse!Token(Earlier)
      BY <1>1
    <2>2. d \in E
      BY <1>1, <2>1 DEF EarlierTold
    <2> QED
      BY <1>6, <2>2
  <1> QED
    BY <1>1, <1>9, <1>10 DEF TokensInv

\* Nothing of the batch is lost on the way.
Covered ==
  /\ rejected \subseteq DocsIn(batch)
  /\ status = "writing" =>
       /\ QueueDocs(Queue(parts)) \subseteq DocsIn(batch)
       /\ \A d \in DocsIn(batch) :
            d \in QueueDocs(Queue(parts)) \/ d \in rejected \/ stored[d.key] >= d.ver

\* The call in progress is a section of the batch, so that its token tells.
LEMMA TokensInvTells ==
  ASSUME SinkTypes, TokensInv, status = "writing"
  PROVE  TokenKnown
  <1> SUFFICES ASSUME kind = "clickhouse", parts # <<>>, ClickHouse!Token(Docs) \in tokens
               PROVE  \A d \in DocsIn(Docs) : stored[d.key] >= d.ver
    BY DEF TokenKnown
  <1>1. parts \in Seq(SectionParts) /\ TokensTold
    BY DEF TokensInv
  <1>2. \A x \in SectionParts : x.docs \in DocSeq /\ Section(x.docs, batch)
    BY PartsHoldDocs DEF SectionParts
  <1>3. Docs = Head(parts).docs /\ Docs \in DocSeq /\ Head(parts) \in SectionParts
    BY <1>1, <1>2, CallInProgress
  <1> QED
    BY <1>1, <1>2, <1>3 DEF TokensTold

\* A step of a Write is a step of the contract, and loses nothing.
LEMMA ContractStep ==
  ASSUME SinkTypes, Covered, TokenKnown, SinkStep, SinkTypes'
  PROVE  Covered' /\ Contract!Next
  <1> DEFINE q == Queue(parts)
             r == Queue(parts)'
             B == DocsIn(batch)
  <1>1. /\ status = "writing" /\ UNCHANGED batch
        /\ CountsNothing \/ Splits \/ \E rest, refused : Counts(rest, refused)
    BY DEF SinkStep
  <1>2. q \in Seq(DocSeq) /\ q # <<>> /\ Docs = Head(q) /\ Docs \in Seq(SinkDoc)
    BY <1>1, QueueInProgress
  <1>3. /\ rejected \subseteq B /\ QueueDocs(q) \subseteq B
        /\ \A d \in B : d \in QueueDocs(q) \/ d \in rejected \/ stored[d.key] >= d.ver
    BY <1>1 DEF Covered
  <1>4. /\ QueueDocs(q) = DocsIn(Docs) \cup QueueDocs(Tail(q)) /\ DocsIn(Docs) \subseteq B
    <2>1. QueueDocs(q) = DocsIn(Docs) \cup QueueDocs(Tail(q))
      BY <1>2, FirstCall
    <2> QED
      BY <1>3, <2>1
  <1>5. batch \in Seq(SinkDoc) /\ stored \in [Keys -> Nat] /\ stored' \in [Keys -> Nat]
    BY DEF SinkTypes, DocSeq
  <1>6. Contract!Docs = B
    <2>1. DOMAIN batch = 1..Len(batch)
      BY <1>5, LenProperties
    <2> QED
      BY <2>1 DEF Contract!Docs, DocsIn
  <1>7. PICK S \in SUBSET DocsIn(Docs) : stored' = Contract!Absorbed(S)
    BY DEF SinkStep
  <1>8. S \in SUBSET B /\ \A k \in Keys : stored'[k] >= stored[k]
    BY <1>2, <1>4, <1>5, <1>7, AbsorbedHolds
  <1>9. \A d \in B : stored[d.key] >= d.ver => stored'[d.key] >= d.ver
    <2> SUFFICES ASSUME NEW d \in B, stored[d.key] >= d.ver PROVE stored'[d.key] >= d.ver
      OBVIOUS
    <2>1. d \in SinkDoc
      BY <1>5, DocsFinite
    <2>2. d.key \in Keys /\ d.ver \in Nat
      BY <2>1 DEF SinkDoc
    <2>3. stored[d.key] \in Nat /\ stored'[d.key] \in Nat /\ stored'[d.key] >= stored[d.key]
      BY <1>5, <1>8, <2>2
    <2> QED
      BY <2>2, <2>3
  <1> HIDE DEF q, r, B
  <1>10. ASSUME rejected \subseteq rejected', rejected' \subseteq B,
                status' \in {"writing", "failed"},
                status' = "writing" =>
                  /\ QueueDocs(r) \subseteq B
                  /\ \A d \in B : d \in QueueDocs(r) \/ d \in rejected' \/ stored'[d.key] >= d.ver
         PROVE  Covered' /\ Contract!Next
    <2>1. Covered'
      <3>1. DocsIn(batch') = B /\ Queue(parts)' = r
        BY <1>1 DEF B, r
      <3>2. /\ rejected' \subseteq DocsIn(batch')
            /\ status' = "writing" =>
                 /\ QueueDocs(Queue(parts)') \subseteq DocsIn(batch')
                 /\ \A d \in DocsIn(batch') :
                      d \in QueueDocs(Queue(parts)') \/ d \in rejected' \/ stored'[d.key] >= d.ver
        BY <1>10, <3>1, Zenon
      <3> QED
        BY <3>2 DEF Covered, QueueDocs, DocsIn
    <2>2. CASE status' = "writing"
      BY <1>1, <1>6, <1>7, <1>8, <1>10, <2>1, <2>2 DEF Contract!Next, Contract!Settle
    <2>3. CASE status' = "failed"
      BY <1>1, <1>6, <1>7, <1>8, <1>10, <2>1, <2>3 DEF Contract!Next, Contract!Fail
    <2> QED
      BY <1>10, <2>2, <2>3
  <1>11. CASE CountsNothing
    <2>1. r = q /\ UNCHANGED rejected /\ status' \in {"writing", "failed"}
      BY <1>11 DEF CountsNothing, q, r
    <2> QED
      BY <1>3, <1>9, <1>10, <2>1
  <1>12. CASE Splits
    <2>1. UNCHANGED <<rejected, status>>
      BY <1>12 DEF Splits
    <2>2. PICK a, b \in DocSeq : a \o b = Head(q) /\ r = <<a, b>> \o Tail(q)
      BY <1>2, <1>12 DEF Splits, q, r
    <2>3. QueueDocs(r) = QueueDocs(q)
      BY <1>2, <2>2, QueueOfSplit
    <2> QED
      BY <1>1, <1>3, <1>9, <1>10, <2>1, <2>3
  <1>13. ASSUME NEW rest, NEW refused, Counts(rest, refused) PROVE Covered' /\ Contract!Next
    <2>1. /\ rest \in Seq(SinkDoc) /\ DocsIn(rest) \subseteq DocsIn(Docs)
          /\ Distinct(Docs) => Distinct(rest)
          /\ refused \subseteq DocsIn(Docs) \ DocsIn(rest)
          /\ rejected' = rejected \cup refused
          /\ \A d \in DocsIn(Docs) \ DocsIn(rest) : d \in refused \/ stored'[d.key] >= d.ver
      BY <1>13 DEF Counts
    <2>2. rejected \subseteq rejected' /\ rejected' \subseteq B
      BY <1>3, <1>4, <2>1
    <2>3. \A d \in B : d \in DocsIn(rest) \cup QueueDocs(Tail(q)) \/ d \in rejected'
                         \/ stored'[d.key] >= d.ver
      BY <1>3, <1>4, <1>9, <2>1
    <2>4. CASE status' = "failed"
      BY <1>10, <2>2, <2>4
    <2>5. CASE status' # "failed"
      <3>1. r = (IF rest = <<>> THEN Tail(q) ELSE <<rest>> \o Tail(q))
            /\ status' = (IF r = <<>> THEN "ok" ELSE "writing")
        <4>1. CASE rest # <<>>
          <5>1. r = <<rest>> \o Tail(q) /\ status' = "writing"
            BY <1>13, <2>5, <4>1 DEF Counts, q, r
          <5>2. rest \in DocSeq
            BY <2>1, <4>1 DEF DocSeq
          <5>3. <<rest>> \o Tail(q) # <<>>
            <6> DEFINE s == <<rest>>
                       t == Tail(q)
            <6>1. s \in Seq(DocSeq) /\ t \in Seq(DocSeq)
              BY <1>2, <5>2, FirstCall
            <6>2. Len(s) = 1
              OBVIOUS
            <6> HIDE DEF s, t
            <6>3. Len(s \o t) = Len(s) + Len(t) /\ Len(t) \in Nat
              BY <6>1, ConcatProperties, LenProperties
            <6>4. Len(s \o t) # 0 /\ Len(<<>>) = 0
              BY <6>2, <6>3
            <6>5. s \o t # <<>>
              BY <6>4, Zenon
            <6> QED
              BY <6>5 DEF s, t
          <5> QED
            BY <4>1, <5>1, <5>3
        <4>2. CASE rest = <<>>
          BY <1>13, <2>5, <4>2 DEF Counts, q, r
        <4> QED
          BY <4>1, <4>2
      <3>2. /\ QueueDocs(r) = DocsIn(rest) \cup QueueDocs(Tail(q))
            /\ QueueDocs(r) \subseteq QueueDocs(q)
        <4>1. DocsIn(rest) \subseteq DocsIn(Head(q)) /\ (Distinct(Head(q)) => Distinct(rest))
          BY <1>2, <2>1
        <4> QED
          BY <1>2, <2>1, <3>1, <4>1, QueueOfRest
      <3>3. /\ QueueDocs(r) \subseteq B
            /\ \A d \in B : d \in QueueDocs(r) \/ d \in rejected' \/ stored'[d.key] >= d.ver
        BY <1>3, <2>3, <3>2
      <3>4. CASE status' = "writing"
        BY <1>10, <2>2, <3>3, <3>4
      <3>5. CASE status' = "ok"
        <4>1. r = <<>>
          BY <3>1, <3>5
        <4>2. QueueDocs(<<>>) = {}
          BY <1>2, FirstCall, SmallQueues
        <4>3. \A d \in B : stored'[d.key] >= d.ver \/ d \in rejected'
          BY <3>3, <4>1, <4>2
        <4>4. Contract!Next
          BY <1>1, <1>6, <1>7, <1>8, <2>2, <3>5, <4>3 DEF Contract!Next, Contract!Return
        <4>5. DocsIn(batch') = B
          BY <1>1 DEF B
        <4>6. Covered'
          BY <2>2, <3>5, <4>5 DEF Covered, DocsIn
        <4> QED
          BY <4>4, <4>6
      <3> QED
        BY <3>1, <3>4, <3>5
    <2> QED
      BY <2>4, <2>5
  <1> QED
    BY <1>1, <1>11, <1>12, <1>13

\* One Write of either sink is one Write of the contract: it succeeds only when
\* every document is stored at its version or above or reported as refused,
\* however requests are split, narrowed, lost and repeated, and although
\* ClickHouse ignores an insert whose token it has seen.
THEOREM SinksMeetContract ==
  ASSUME UniqueVersions, EarlierTold
  PROVE  Spec => MeetsContract
  <1> DEFINE Inv == SinkTypes /\ TokensInv /\ Covered
  <1>1. Init => Inv /\ Contract!Init
    <2> SUFFICES ASSUME Init PROVE Inv /\ Contract!Init
      OBVIOUS
    <2>1. /\ SinkTypes /\ Queue(parts) = <<batch>> /\ rejected = {} /\ status = "writing"
      BY WriteBegins
    <2>2. TokensInv
      BY TokensBegin
    <2>3. QueueDocs(<<batch>>) = DocsIn(batch)
      BY <2>1, SmallQueues DEF SinkTypes
    <2>4. Covered
      BY <2>1, <2>3 DEF Covered
    <2> QED
      BY <2>1, <2>2, <2>4 DEF Contract!Init
  <1>2. Inv /\ [Next]_vars => Inv' /\ [Contract!Next]_Contract!vars
    <2> SUFFICES ASSUME Inv, [Next]_vars PROVE Inv' /\ [Contract!Next]_Contract!vars
      OBVIOUS
    <2>1. SinkTypes' /\ (SinkStep \/ SinkStutter)
      BY WriteSteps
    <2>2. TokensInv'
      <3>1. CASE kind = "clickhouse" /\ Next
        BY <3>1, TokensStep DEF Next, ofElastic
      <3>2. CASE kind = "elasticsearch" /\ Next
        BY <3>2 DEF Next, TokensInv
      <3>3. CASE UNCHANGED vars
        <4>1. UNCHANGED <<kind, batch, parts, stored, tokens>>
          BY <3>3 DEF vars, ofClickHouse
        <4>2. SectionParts' = SectionParts
          BY <4>1 DEF SectionParts, Section
        <4>3. TokensTold => TokensTold'
          BY <4>1 DEF TokensTold, Section
        <4> QED
          BY <4>1, <4>2, <4>3 DEF TokensInv
      <3> QED
        BY <3>1, <3>2, <3>3 DEF SinkTypes
    <2>3. CASE SinkStutter
      <3>1. UNCHANGED <<batch, stored, rejected, status, parts>>
        BY <2>3 DEF SinkStutter
      <3>2. UNCHANGED Contract!vars
        BY <3>1 DEF Contract!vars
      <3>3. Queue(parts)' = Queue(parts) /\ DocsIn(batch)' = DocsIn(batch)
            /\ QueueDocs(Queue(parts))' = QueueDocs(Queue(parts))
        BY <3>1 DEF Queue, DocsIn, QueueDocs
      <3>4. Covered'
        BY <3>1, <3>3, Zenon DEF Covered
      <3> QED
        BY <2>1, <2>2, <3>2, <3>4
    <2>4. CASE SinkStep
      <3>1. TokenKnown
        BY <2>4, TokensInvTells DEF SinkStep
      <3> QED
        BY <2>1, <2>2, <2>4, <3>1, ContractStep
    <2> QED
      BY <2>1, <2>3, <2>4
  <1> QED
    BY <1>1, <1>2, PTL DEF Spec, MeetsContract, Contract!Spec
===============================================================================
