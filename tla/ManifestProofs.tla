---------------------------- MODULE ManifestProofs ----------------------------
(***************************************************************************)
(* Proofs about Manifest for every list, every limit and every other       *)
(* manifest whose chunks may turn up.                                      *)
(*                                                                         *)
(* The idea: while the records go through EncodeManifest, the groups put   *)
(* one after the other are the records that have been dealt with, and no   *)
(* group is longer than the bound allows.  The worker accepts a list only  *)
(* if all data has the digests of these chunks.                            *)
(***************************************************************************)
EXTENDS Manifest, Lemmas

IDs == DOMAIN RecordBytes

\* A sorted list has the same repositories, and ascends if none is in it twice.
LEMMA SortedList ==
  ASSUME NEW ids \in Seq(IDs)
  PROVE  /\ Sorted(ids) \in Seq(IDs)
         /\ Len(Sorted(ids)) = Len(ids)
         /\ Range(Sorted(ids)) = Range(ids)
         /\ ~HasDuplicates(Sorted(ids)) => IsAscending(Sorted(ids))
<1>1. IDs \in SUBSET Int
  BY ManifestAssumption DEF IDs
<1>2. QED
  BY <1>1, SortedFacts DEF HasDuplicates

-----------------------------------------------------------------------------
(* Sequences one after the other. *)

\* The sequences put one after the other, up to the i-th at i.
Pasted(f, S, seqs) ==
  /\ f \in [0..Len(seqs) -> Seq(S)]
  /\ f[0] = <<>>
  /\ \A i \in 1..Len(seqs) : f[i] = f[i - 1] \o seqs[i]

LEMMA PastedExists ==
  ASSUME NEW S, NEW seqs \in Seq(Seq(S))
  PROVE  \E f : Pasted(f, S, seqs)
<1> DEFINE n == Len(seqs)
           step == [i \in 1..n |-> [acc \in Seq(S) |-> acc \o seqs[i]]]
<1>1. n \in Nat /\ \A i \in 1..n : seqs[i] \in Seq(S)
  OBVIOUS
<1>2. step \in [1..n -> [Seq(S) -> Seq(S)]]
  BY <1>1, ConcatProperties
<1>3. PICK g : IsLoop(g, n, Seq(S), <<>>, step)
  <2>1. <<>> \in Seq(S) /\ n \in Nat
    BY <1>1, EmptySeq
  <2> HIDE DEF step, n
  <2>2. QED
    BY <1>2, <2>1, LoopExists
<1>4. ASSUME NEW i \in 1..n PROVE g[i] = g[i - 1] \o seqs[i]
  <2>1. i - 1 \in 0..n
    BY <1>1
  <2> HIDE DEF step
  <2>2. g[i - 1] \in Seq(S) /\ g[i] = step[i][g[i - 1]]
    BY <1>3, <2>1 DEF IsLoop
  <2>3. QED
    BY <2>2 DEF step
<1>5. Pasted(g, S, seqs)
  BY <1>3, <1>4 DEF Pasted, IsLoop
<1>6. QED
  BY <1>5

LEMMA Flattened ==
  ASSUME NEW S, NEW seqs \in Seq(Seq(S)), NEW f, Pasted(f, S, seqs)
  PROVE  FlattenSeq(seqs) = f[Len(seqs)]
<1> DEFINE n == Len(seqs)
           Body(h) == [i \in 1..n |-> IF i = 1 THEN seqs[i] ELSE h[i - 1] \o seqs[i]]
           flat == CHOOSE h : h = Body(h)
           g == [i \in 1..n |-> f[i]]
<1>1. n \in Nat /\ (\A i \in 1..n : seqs[i] \in Seq(S)) /\ (\A i \in 1..n : i # 1 => i - 1 \in 1..n)
  OBVIOUS
<1>2. f[0] = <<>> /\ (\A i \in 1..n : f[i] = f[i - 1] \o seqs[i])
  BY DEF Pasted
<1>3. CASE n = 0
  <2>1. seqs = <<>>
    BY <1>3, EmptySeq
  <2>2. FlattenSeq(seqs) = seqs
    BY <1>3 DEF FlattenSeq
  <2>3. QED
    BY <1>2, <1>3, <2>1, <2>2
<1>4. CASE n # 0
  <2>1. FlattenSeq(seqs) = flat[n]
    BY <1>4 DEF FlattenSeq
  <2> HIDE DEF n
  <2>2. ASSUME NEW i \in 1..n
        PROVE  g[i] = IF i = 1 THEN seqs[i] ELSE g[i - 1] \o seqs[i]
    <3>1. CASE i = 1
      <4>1. f[1] = <<>> \o seqs[1] /\ seqs[1] \in Seq(S)
        <5>1. 1 - 1 = 0
          OBVIOUS
        <5>2. QED
          BY <1>1, <1>2, <3>1, <5>1
      <4>2. QED
        BY <3>1, <4>1, ConcatEmptySeq
    <3>2. CASE i # 1
      <4>1. i - 1 \in 1..n
        BY <1>1, <3>2
      <4>2. f[i] = f[i - 1] \o seqs[i]
        BY <1>2
      <4>3. QED
        BY <3>2, <4>1, <4>2
    <3>3. QED
      BY <3>1, <3>2
  <2>3. g = Body(g)
    BY <2>2
  <2>4. flat = Body(flat)
    <3> HIDE DEF Body, g
    <3>1. QED
      BY <2>3
  <2>5. \A i \in 1..n : flat[i] = IF i = 1 THEN seqs[i] ELSE flat[i - 1] \o seqs[i]
    <3> HIDE DEF flat
    <3>1. QED
      BY <2>4
  <2> HIDE DEF flat, g, Body
  <2> DEFINE T == {i \in 0..n : i # 0 => flat[i] = g[i]}
  <2>6. 0 \in T
    BY <1>1
  <2>7. ASSUME NEW i \in 1..n, i - 1 \in T PROVE i \in T
    <3>1. CASE i = 1
      BY <1>1, <2>2, <2>5, <3>1
    <3>2. CASE i # 1
      <4>1. flat[i - 1] = g[i - 1]
        BY <1>1, <2>7, <3>2
      <4>2. flat[i] = flat[i - 1] \o seqs[i] /\ g[i] = g[i - 1] \o seqs[i]
        BY <2>2, <2>5, <3>2
      <4>3. flat[i] = g[i] /\ i \in 0..n
        BY <1>1, <4>1, <4>2
      <4>4. QED
        BY <4>3
    <3>3. QED
      BY <3>1, <3>2
  <2>8. 0..n \subseteq T
    <3> HIDE DEF T
    <3>1. QED
      BY <1>1, <2>6, <2>7, LoopInduction
  <2>9. n \in 1..n /\ n \in 0..n
    BY <1>1, <1>4
  <2>10. flat[n] = g[n]
    BY <1>4, <2>8, <2>9
  <2>11. g[n] = f[n]
    BY <2>9 DEF g
  <2>12. QED
    BY <2>1, <2>10, <2>11 DEF n
<1>5. QED
  BY <1>3, <1>4

\* One sequence more at the end.
LEMMA FlattenAppend ==
  ASSUME NEW S, NEW seqs \in Seq(Seq(S)), NEW last \in Seq(S)
  PROVE  /\ FlattenSeq(seqs) \in Seq(S)
         /\ FlattenSeq(Append(seqs, last)) = FlattenSeq(seqs) \o last
<1> DEFINE n == Len(seqs)
           more == Append(seqs, last)
<1>1. PICK f : Pasted(f, S, seqs)
  BY PastedExists
<1>2. FlattenSeq(seqs) = f[n] /\ f[n] \in Seq(S) /\ n \in Nat
  <2>1. n \in Nat /\ n \in 0..n
    OBVIOUS
  <2>2. QED
    BY <1>1, <2>1, Flattened DEF Pasted
<1>3. more \in Seq(Seq(S)) /\ Len(more) = n + 1 /\ more[n + 1] = last
      /\ \A i \in 1..n : more[i] = seqs[i]
  BY AppendProperties
<1> DEFINE g == [i \in 0..(n + 1) |-> IF i = n + 1 THEN f[n] \o last ELSE f[i]]
<1>4. g \in [0..(n + 1) -> Seq(S)]
  <2>1. f[n] \o last \in Seq(S)
    BY <1>2, ConcatProperties
  <2>2. \A i \in 0..(n + 1) : i # n + 1 => f[i] \in Seq(S)
    <3>1. \A i \in 0..(n + 1) : i # n + 1 => i \in 0..n
      BY <1>2
    <3>2. QED
      BY <1>1, <3>1 DEF Pasted
  <2>3. QED
    BY <2>1, <2>2
<1>5. ASSUME NEW i \in 1..(n + 1) PROVE g[i] = g[i - 1] \o more[i]
  <2>1. i - 1 \in 0..n /\ i - 1 \in 0..(n + 1) /\ i - 1 # n + 1
    BY <1>2
  <2>2. g[i - 1] = f[i - 1]
    BY <2>1
  <2> HIDE DEF more
  <2>3. CASE i = n + 1
    <3>1. i - 1 = n /\ g[n + 1] = f[n] \o last
      BY <1>2, <2>3
    <3>2. QED
      BY <1>3, <2>2, <2>3, <3>1
  <2>4. CASE i # n + 1
    <3>1. i \in 1..n
      BY <1>2, <2>4
    <3>2. f[i] = f[i - 1] \o seqs[i]
      BY <1>1, <3>1 DEF Pasted
    <3>3. g[i] = f[i]
      BY <2>4
    <3>4. QED
      BY <1>3, <2>2, <3>1, <3>2, <3>3
  <2>5. QED
    BY <2>3, <2>4
<1>6. g[0] = <<>>
  BY <1>1, <1>2 DEF Pasted
<1>7. Pasted(g, S, more)
  <2> HIDE DEF g, more, n
  <2>1. QED
    BY <1>3, <1>4, <1>5, <1>6 DEF Pasted
<1>8. FlattenSeq(more) = g[n + 1]
  <2> HIDE DEF g, more, n
  <2>1. QED
    BY <1>3, <1>7, Flattened
<1>9. g[n + 1] = f[n] \o last
  BY <1>2
<1>10. QED
  BY <1>2, <1>8, <1>9

LEMMA FlattenSingle ==
  ASSUME NEW S, NEW only \in Seq(S)
  PROVE  FlattenSeq(<<only>>) = only
<1>1. <<>> \in Seq(Seq(S)) /\ Append(<<>>, only) = <<only>>
  BY EmptySeq
<1>2. FlattenSeq(<<>>) = <<>>
  BY DEF FlattenSeq
<1>3. FlattenSeq(<<only>>) = <<>> \o only
  BY <1>1, <1>2, FlattenAppend
<1>4. QED
  BY <1>3, ConcatEmptySeq

-----------------------------------------------------------------------------
(* The length of the records. *)

LEMMA Bytes ==
  ASSUME NEW id \in IDs
  PROVE  RecordBytes[id] \in Nat \ {0}
BY ManifestAssumption DEF IDs

\* The length of the records of some repositories, up to the i-th at i.
Measured(f, ids) ==
  /\ f \in [0..Len(ids) -> Nat]
  /\ f[0] = 0
  /\ \A i \in 1..Len(ids) : f[i] = f[i - 1] + RecordBytes[ids[i]]

LEMMA TotalMeasured ==
  ASSUME NEW ids \in Seq(IDs)
  PROVE  \E f : Measured(f, ids) /\ TotalBytes(ids) = f[Len(ids)]
<1> DEFINE n == Len(ids)
           step == [i \in 1..n |-> [sum \in Nat |-> sum + RecordBytes[ids[i]]]]
           Body(h) == [i \in 0..n |-> IF i = 0 THEN 0 ELSE h[i - 1] + RecordBytes[ids[i]]]
           upTo == CHOOSE h : h = Body(h)
<1>1. n \in Nat /\ 0 \in Nat /\ \A i \in 1..n : RecordBytes[ids[i]] \in Nat
  <2>1. \A i \in 1..n : ids[i] \in IDs
    OBVIOUS
  <2>2. QED
    BY <2>1, Bytes
<1>2. step \in [1..n -> [Nat -> Nat]]
  BY <1>1
<1>3. PICK f : IsLoop(f, n, Nat, 0, step)
  <2> HIDE DEF step, n
  <2>1. QED
    BY <1>1, <1>2, LoopExists
<1>4. f \in [0..n -> Nat] /\ f[0] = 0
  BY <1>3 DEF IsLoop
<1>5. ASSUME NEW i \in 1..n PROVE f[i] = f[i - 1] + RecordBytes[ids[i]]
  <2>1. i - 1 \in 0..n
    BY <1>1
  <2> HIDE DEF step
  <2>2. f[i - 1] \in Nat /\ f[i] = step[i][f[i - 1]]
    BY <1>3, <2>1 DEF IsLoop
  <2>3. QED
    BY <2>2 DEF step
<1>6. Measured(f, ids)
  BY <1>4, <1>5 DEF Measured
<1>7. f = Body(f)
  <2>1. \A i \in 0..n : i # 0 => i \in 1..n
    BY <1>1
  <2> HIDE DEF n, step
  <2>2. \A i \in 0..n : f[i] = IF i = 0 THEN 0 ELSE f[i - 1] + RecordBytes[ids[i]]
    BY <1>4, <1>5, <2>1
  <2>3. QED
    BY <1>4, <2>2
<1>8. upTo = Body(upTo)
  <2> HIDE DEF Body
  <2>1. QED
    BY <1>7
<1>9. /\ upTo[0] = 0
      /\ \A i \in 1..n : upTo[i] = upTo[i - 1] + RecordBytes[ids[i]]
  <2> HIDE DEF upTo, n
  <2>1. \A i \in 0..n : upTo[i] = IF i = 0 THEN 0 ELSE upTo[i - 1] + RecordBytes[ids[i]]
    BY <1>8
  <2>2. (\A i \in 1..n : i \in 0..n /\ i # 0) /\ 0 \in 0..n
    BY <1>1
  <2>3. QED
    BY <2>1, <2>2
<1> HIDE DEF upTo, Body, n, step
<1> DEFINE T == {i \in 0..n : upTo[i] = f[i]}
<1>10. 0 \in T
  BY <1>1, <1>4, <1>9
<1>11. ASSUME NEW i \in 1..n, i - 1 \in T PROVE i \in T
  <2>1. upTo[i] = f[i] /\ i \in 0..n
    BY <1>1, <1>5, <1>9, <1>11
  <2>2. QED
    BY <2>1
<1>12. 0..n \subseteq T
  <2> HIDE DEF T
  <2>1. QED
    BY <1>1, <1>10, <1>11, LoopInduction
<1>13. upTo[n] = f[n]
  BY <1>1, <1>12
<1>14. TotalBytes(ids) = upTo[n]
  BY DEF TotalBytes, upTo, Body, n
<1>15. QED
  BY <1>6, <1>13, <1>14 DEF n

\* One repository more at the end.
LEMMA TotalAppend ==
  ASSUME NEW ids \in Seq(IDs), NEW id \in IDs
  PROVE  /\ TotalBytes(ids) \in Nat
         /\ TotalBytes(Append(ids, id)) = TotalBytes(ids) + RecordBytes[id]
<1> DEFINE n == Len(ids)
           more == Append(ids, id)
<1>1. PICK f : Measured(f, ids) /\ TotalBytes(ids) = f[n]
  BY TotalMeasured
<1>2. more \in Seq(IDs) /\ Len(more) = n + 1 /\ more[n + 1] = id /\ n \in Nat
      /\ \A i \in 1..n : more[i] = ids[i]
  BY AppendProperties
<1> HIDE DEF more
<1>3. PICK g : Measured(g, more) /\ TotalBytes(more) = g[Len(more)]
  BY <1>2, TotalMeasured
<1> DEFINE T == {i \in 0..n : g[i] = f[i]}
<1>4. 0 \in T
  BY <1>1, <1>2, <1>3 DEF Measured
<1>5. ASSUME NEW i \in 1..n, i - 1 \in T PROVE i \in T
  <2>1. i \in 1..Len(more) /\ i \in 0..n
    BY <1>2
  <2>2. g[i] = g[i - 1] + RecordBytes[more[i]]
    BY <1>3, <2>1 DEF Measured
  <2>3. f[i] = f[i - 1] + RecordBytes[ids[i]]
    BY <1>1 DEF Measured
  <2>4. g[i] = f[i]
    BY <1>2, <1>5, <2>2, <2>3
  <2>5. QED
    BY <2>1, <2>4
<1>6. 0..n \subseteq T
  <2> HIDE DEF T, n
  <2>1. QED
    BY <1>2, <1>4, <1>5, LoopInduction
<1>7. g[n] = f[n]
  BY <1>2, <1>6
<1>8. g[n + 1] = g[n] + RecordBytes[id]
  <2>1. n + 1 \in 1..Len(more) /\ (n + 1) - 1 = n
    BY <1>2
  <2>2. g[n + 1] = g[(n + 1) - 1] + RecordBytes[more[n + 1]]
    BY <1>3, <2>1 DEF Measured
  <2>3. QED
    BY <1>2, <2>1, <2>2
<1>9. f[n] \in Nat
  BY <1>1, <1>2 DEF Measured
<1>10. QED
  BY <1>1, <1>2, <1>3, <1>7, <1>8, <1>9 DEF more

LEMMA TotalNone == TotalBytes(<<>>) = 0
<1>1. <<>> \in Seq(IDs) /\ Len(<<>>) = 0
  BY EmptySeq
<1>2. PICK f : Measured(f, <<>>) /\ TotalBytes(<<>>) = f[Len(<<>>)]
  BY <1>1, TotalMeasured
<1>3. QED
  BY <1>1, <1>2 DEF Measured

\* A larger number has no fewer digits.
LEMMA DigitsGrow ==
  ASSUME NEW m \in Nat, NEW n \in Nat, m <= n
  PROVE  Digits(m) \in Nat /\ Digits(n) \in Nat /\ Digits(m) <= Digits(n)
<1> DEFINE largest == 1000000000
           Upto10(k) == {power \in PowersOfTen : power <= k}
<1>1. /\ largest \in Nat
      /\ \A power \in PowersOfTen : power \in Nat /\ power <= largest
  BY SMT DEF PowersOfTen
<1> HIDE DEF largest
<1>2. IsFiniteSet(PowersOfTen)
  <2>1. PowersOfTen \subseteq 0..largest
    BY <1>1
  <2>2. IsFiniteSet(0..largest)
    BY <1>1, FS_Interval
  <2>3. QED
    BY <2>1, <2>2, FS_Subset
<1>3. Upto10(m) \subseteq Upto10(n) /\ Upto10(n) \subseteq PowersOfTen
  <2>1. ASSUME NEW power \in PowersOfTen, power <= m PROVE power <= n
    BY <1>1, <2>1
  <2>2. QED
    BY <2>1
<1>4. Digits(m) = 1 + Cardinality(Upto10(m)) /\ Digits(n) = 1 + Cardinality(Upto10(n))
  BY DEF Digits
<1> HIDE DEF Upto10
<1>5. IsFiniteSet(Upto10(n))
  BY <1>2, <1>3, FS_Subset
<1>6. IsFiniteSet(Upto10(m)) /\ Cardinality(Upto10(m)) <= Cardinality(Upto10(n))
  BY <1>3, <1>5, FS_Subset
<1>7. Cardinality(Upto10(m)) \in Nat /\ Cardinality(Upto10(n)) \in Nat
  BY <1>5, <1>6, FS_CardinalityType
<1>8. QED
  BY <1>4, <1>6, <1>7

-----------------------------------------------------------------------------
(* Cutting. *)

LEMMA BoundIsNat ==
  ASSUME NEW ids \in Seq(IDs)
  PROVE  EnvelopeBound(ids) \in Nat
<1>1. Len(ids) + 1 \in Nat
  OBVIOUS
<1>2. Digits(Len(ids) + 1) \in Nat
  BY <1>1, DigitsGrow
<1>3. QED
  BY <1>2, ManifestAssumption DEF EnvelopeBound, EnvelopeBytes

\* A sequence is all but its last element, and that one after it.
LEMMA FrontLast ==
  ASSUME NEW S, NEW seq \in Seq(S), seq # <<>>
  PROVE  /\ Front(seq) \in Seq(S) /\ Last(seq) \in S
         /\ Len(Front(seq)) = Len(seq) - 1
         /\ \A i \in 1..(Len(seq) - 1) : Front(seq)[i] = seq[i]
         /\ seq = Append(Front(seq), Last(seq))
<1>1. PICK s \in Seq(S), elt \in S : seq = Append(s, elt)
  BY SequenceEmptyOrAppend
<1>2. /\ Len(seq) = Len(s) + 1 /\ seq[Len(s) + 1] = elt /\ Len(s) \in Nat
      /\ \A i \in 1..Len(s) : seq[i] = s[i]
  BY <1>1, AppendProperties
<1>3. Last(seq) = elt
  BY <1>2 DEF Last
<1>4. Front(seq) = s
  <2>1. Front(seq) = SubSeq(seq, 1, Len(s))
    BY <1>2 DEF Front
  <2>2. \A i \in 1..Len(s) : seq[i] \in S
    BY <1>2
  <2>3. /\ Front(seq) \in Seq(S) /\ Len(Front(seq)) = Len(s)
        /\ \A i \in 1..Len(s) : Front(seq)[i] = seq[i]
    BY <1>2, <2>1, <2>2, SubSeqProperties
  <2>4. QED
    BY <1>2, <2>3, SeqEqual
<1>5. QED
  BY <1>1, <1>2, <1>3, <1>4

\* One element more at the end of the last sequence.
LEMMA FlattenGrows ==
  ASSUME NEW S, NEW front \in Seq(Seq(S)), NEW last \in Seq(S), NEW x \in S
  PROVE  FlattenSeq(Append(front, Append(last, x))) = FlattenSeq(Append(front, last)) \o <<x>>
<1> DEFINE longer == Append(last, x)
           one == <<x>>
           flat == FlattenSeq(front)
<1>1. longer \in Seq(S) /\ longer = last \o one
  BY AppendProperties, AppendIsConcat
<1>2. one \in Seq(S)
  OBVIOUS
<1>3. flat \in Seq(S) /\ FlattenSeq(Append(front, last)) = flat \o last
  BY FlattenAppend
<1> HIDE DEF longer, flat, one
<1>4. FlattenSeq(Append(front, longer)) = flat \o longer
  BY <1>1, FlattenAppend DEF flat
<1>5. (flat \o last) \o one = flat \o (last \o one)
  BY <1>2, <1>3, ConcatAssociative
<1>6. FlattenSeq(Append(front, longer)) = FlattenSeq(Append(front, last)) \o one
  BY <1>1, <1>3, <1>4, <1>5
<1>7. QED
  BY <1>6 DEF longer, one

LEMMA LastGrows ==
  ASSUME NEW S, NEW seqs \in Seq(Seq(S)), seqs # <<>>, NEW x \in S
  PROVE  LET more == Append(Front(seqs), Append(Last(seqs), x))
         IN /\ more \in Seq(Seq(S)) /\ more # <<>> /\ Len(more) = Len(seqs)
            /\ \A k \in 1..(Len(seqs) - 1) : more[k] = seqs[k]
            /\ Last(more) = Append(Last(seqs), x)
            /\ FlattenSeq(more) = FlattenSeq(seqs) \o <<x>>
<1> DEFINE front == Front(seqs)
           last == Last(seqs)
           longer == Append(last, x)
           more == Append(front, longer)
<1>1. /\ front \in Seq(Seq(S)) /\ last \in Seq(S)
      /\ Len(front) = Len(seqs) - 1
      /\ \A i \in 1..(Len(seqs) - 1) : front[i] = seqs[i]
      /\ seqs = Append(front, last)
  BY FrontLast
<1> HIDE DEF front, last
<1>2. longer \in Seq(S)
  BY <1>1, AppendProperties
<1> HIDE DEF longer
<1>3. more \in Seq(Seq(S)) /\ more # <<>> /\ Len(more) = Len(front) + 1
  BY <1>1, <1>2, AppendProperties
<1>4. (\A k \in 1..Len(front) : more[k] = front[k]) /\ more[Len(front) + 1] = longer
  BY <1>1, <1>2, AppendProperties
<1> HIDE DEF more
<1>5. Len(seqs) \in Nat /\ Len(more) = Len(seqs)
  BY <1>1, <1>3
<1>6. Last(more) = longer /\ \A k \in 1..(Len(seqs) - 1) : more[k] = seqs[k]
  BY <1>1, <1>4, <1>5 DEF Last
<1>7. FlattenSeq(more) = FlattenSeq(seqs) \o <<x>>
  BY <1>1, FlattenGrows DEF more, longer
<1>8. QED
  BY <1>3, <1>5, <1>6, <1>7 DEF more, longer, last, front

\* One record has gone to the end of the last group or into one of its own.
Extended(groups, size, id, base, max, more) ==
  /\ more.groups \in Seq(Seq(IDs)) /\ more.groups # <<>> /\ more.size \in Nat
  /\ more = [groups |-> more.groups, size |-> more.size]
  /\ FlattenSeq(more.groups) = FlattenSeq(groups) \o <<id>>
  /\ \/ /\ size + RecordSize(id) > max
        /\ Len(more.groups) = Len(groups) + 1
        /\ \A k \in 1..Len(groups) : more.groups[k] = groups[k]
        /\ Last(more.groups) = <<id>>
        /\ more.size = base + RecordSize(id)
     \/ /\ size + RecordSize(id) <= max
        /\ Len(more.groups) = Len(groups)
        /\ \A k \in 1..(Len(groups) - 1) : more.groups[k] = groups[k]
        /\ Last(more.groups) = Append(Last(groups), id)
        /\ more.size = size + RecordSize(id)

LEMMA ExtendFacts ==
  ASSUME NEW groups \in Seq(Seq(IDs)), groups # <<>>, NEW size \in Nat, NEW id \in IDs,
         NEW base \in Nat, NEW max \in Nat
  PROVE  Extended(groups, size, id, base, max,
                  Extend([groups |-> groups, size |-> size], id, base, max))
<1> SUFFICES ASSUME NEW acc, acc = [groups |-> groups, size |-> size],
                    NEW more, more = Extend(acc, id, base, max)
             PROVE  Extended(groups, size, id, base, max, more)
  OBVIOUS
<1> DEFINE n == Len(groups)
           one == <<id>>
           g == more.groups
<1>1. RecordSize(id) \in Nat
  BY Bytes DEF RecordSize
<1>2. one \in Seq(IDs) /\ n \in Nat \ {0} /\ acc.groups = groups /\ acc.size = size
  BY EmptySeq
<1>3. CASE size + RecordSize(id) > max
  <2>1. /\ g = Append(groups, one) /\ more.size = base + RecordSize(id)
        /\ more = [groups |-> g, size |-> more.size]
    BY <1>2, <1>3 DEF Extend
  <2> HIDE DEF one, g
  <2>2. /\ g \in Seq(Seq(IDs)) /\ g # <<>> /\ Len(g) = Len(groups) + 1
        /\ \A k \in 1..Len(groups) : g[k] = groups[k]
        /\ g[Len(groups) + 1] = one
    BY <1>2, <2>1, AppendProperties
  <2>3. FlattenSeq(g) = FlattenSeq(groups) \o one
    BY <1>2, <2>1, FlattenAppend
  <2>4. Last(g) = one
    BY <2>2 DEF Last
  <2>5. base + RecordSize(id) \in Nat
    BY <1>1
  <2>6. QED
    BY <1>3, <2>1, <2>2, <2>3, <2>4, <2>5 DEF one, g, Extended
<1>4. CASE ~(size + RecordSize(id) > max)
  <2>1. /\ g = Append(Front(groups), Append(Last(groups), id))
        /\ more.size = size + RecordSize(id)
        /\ more = [groups |-> g, size |-> more.size]
    BY <1>2, <1>4 DEF Extend
  <2> HIDE DEF one, g
  <2>2. /\ g \in Seq(Seq(IDs)) /\ g # <<>> /\ Len(g) = Len(groups)
        /\ \A k \in 1..(Len(groups) - 1) : g[k] = groups[k]
        /\ Last(g) = Append(Last(groups), id)
        /\ FlattenSeq(g) = FlattenSeq(groups) \o one
    BY <2>1, LastGrows DEF one
  <2>3. size + RecordSize(id) \in Nat /\ size + RecordSize(id) <= max
    BY <1>1, <1>4
  <2>4. QED
    BY <2>1, <2>2, <2>3 DEF g, one, Extended
<1>5. QED
  BY <1>3, <1>4

\* EncodeManifest when i records have been dealt with.
CutSoFar(groups, size, ids, max, i) ==
  LET base == EnvelopeBound(ids)
  IN /\ groups \in Seq(Seq(IDs)) /\ groups # <<>> /\ size \in Nat
     /\ FlattenSeq(groups) = SubSeq(ids, 1, i)
     /\ Len(groups) <= i + 1
     /\ IF i = 0 THEN groups = << <<>> >> ELSE \A k \in DOMAIN groups : groups[k] # <<>>
     /\ size = base + TotalBytes(Last(groups)) + Len(Last(groups))
     /\ ids # <<>> =>
          \A k \in DOMAIN groups : base + TotalBytes(groups[k]) + Len(groups[k]) <= max

LEMMA CutStarts ==
  ASSUME NEW ids \in Seq(IDs), NEW max \in Nat, Fits(ids, max)
  PROVE  CutSoFar(<< <<>> >>, EnvelopeBound(ids), ids, max, 0)
<1> DEFINE groups == << <<>> >>
<1>1. /\ <<>> \in Seq(IDs) /\ groups \in Seq(Seq(IDs)) /\ groups # <<>> /\ Len(groups) = 1
      /\ DOMAIN groups = {1} /\ groups[1] = <<>> /\ Len(<<>>) = 0
  BY EmptySeq
<1>2. Last(groups) = <<>>
  BY <1>1 DEF Last
<1>3. FlattenSeq(groups) = <<>> /\ SubSeq(ids, 1, 0) = <<>>
  <2>1. FlattenSeq(groups) = <<>>
    BY <1>1, FlattenSingle
  <2>2. SubSeq(ids, 1, 0) = <<>>
    BY SubSeqEmpty
  <2>3. QED
    BY <2>1, <2>2
<1>4. EnvelopeBound(ids) \in Nat
  BY BoundIsNat
<1>5. ASSUME ids # <<>> PROVE EnvelopeBound(ids) <= max
  <2>1. Len(ids) \in Nat \ {0}
    BY <1>5, EmptySeq
  <2>2. 1 \in DOMAIN ids /\ ids[1] \in IDs
    BY <2>1
  <2>3. EnvelopeBound(ids) + RecordSize(ids[1]) <= max
    BY <2>2 DEF Fits
  <2>4. RecordSize(ids[1]) \in Nat
    BY <2>2, Bytes DEF RecordSize
  <2>5. QED
    BY <1>4, <2>3, <2>4
<1> HIDE DEF groups
<1>6. CutSoFar(groups, EnvelopeBound(ids), ids, max, 0)
  BY <1>1, <1>2, <1>3, <1>4, <1>5, TotalNone DEF CutSoFar, groups
<1>7. QED
  BY <1>6 DEF groups

LEMMA CutContinues ==
  ASSUME NEW ids \in Seq(IDs), NEW max \in Nat, Fits(ids, max), NEW i \in 1..Len(ids),
         NEW groups, NEW size, CutSoFar(groups, size, ids, max, i - 1)
  PROVE  LET more == Extend([groups |-> groups, size |-> size], ids[i], EnvelopeBound(ids), max)
         IN /\ CutSoFar(more.groups, more.size, ids, max, i)
            /\ more = [groups |-> more.groups, size |-> more.size]
<1> DEFINE base == EnvelopeBound(ids)
           id == ids[i]
           more == Extend([groups |-> groups, size |-> size], id, base, max)
           g == more.groups
           n == Len(groups)
<1>1. /\ groups \in Seq(Seq(IDs)) /\ groups # <<>> /\ size \in Nat
      /\ FlattenSeq(groups) = SubSeq(ids, 1, i - 1)
      /\ n <= i
      /\ IF i - 1 = 0 THEN groups = << <<>> >> ELSE \A k \in DOMAIN groups : groups[k] # <<>>
      /\ size = base + TotalBytes(Last(groups)) + Len(Last(groups))
      /\ \A k \in DOMAIN groups : base + TotalBytes(groups[k]) + Len(groups[k]) <= max
  <2>1. i - 1 + 1 = i /\ ids # <<>>
    BY EmptySeq
  <2>2. QED
    BY <2>1 DEF CutSoFar
<1>2. /\ base \in Nat /\ id \in IDs /\ n \in Nat \ {0} /\ DOMAIN groups = 1..n
      /\ RecordSize(id) = RecordBytes[id] + 1 /\ RecordBytes[id] \in Nat
  <2>1. base \in Nat /\ id \in IDs
    BY BoundIsNat
  <2>2. n \in Nat \ {0}
    BY <1>1, EmptySeq
  <2>3. QED
    BY <1>1, <2>1, <2>2, Bytes DEF RecordSize
<1>3. base + RecordSize(id) <= max
  BY DEF Fits
<1>4. /\ g \in Seq(Seq(IDs)) /\ g # <<>> /\ more.size \in Nat
      /\ more = [groups |-> g, size |-> more.size]
      /\ FlattenSeq(g) = FlattenSeq(groups) \o <<id>>
      /\ \/ /\ size + RecordSize(id) > max
            /\ Len(g) = n + 1
            /\ \A k \in 1..n : g[k] = groups[k]
            /\ Last(g) = <<id>>
            /\ more.size = base + RecordSize(id)
         \/ /\ size + RecordSize(id) <= max
            /\ Len(g) = n
            /\ \A k \in 1..(n - 1) : g[k] = groups[k]
            /\ Last(g) = Append(Last(groups), id)
            /\ more.size = size + RecordSize(id)
  <2> HIDE DEF base, id
  <2>1. Extended(groups, size, id, base, max, more)
    BY <1>1, <1>2, ExtendFacts
  <2> HIDE DEF more
  <2>2. QED
    BY <2>1 DEF Extended
<1> HIDE DEF more
<1>5. FlattenSeq(g) = SubSeq(ids, 1, i)
  <2>1. 1 \in 1..Len(ids) /\ i \in 1..Len(ids)
    OBVIOUS
  <2>2. SubSeq(ids, 1, i) = SubSeq(ids, 1, i - 1) \o <<ids[i]>>
    BY <2>1, SubSeqRecursiveSecond
  <2>3. QED
    BY <1>1, <1>4, <2>2
<1> HIDE DEF base, id, g, n
<1>6. DOMAIN g = 1..Len(g) /\ Last(g) = g[Len(g)] /\ Len(g) \in Nat \ {0}
  <2>1. Len(g) \in Nat \ {0}
    BY <1>4, EmptySeq
  <2>2. QED
    BY <1>4, <2>1 DEF Last
<1>7. Last(groups) = groups[n] /\ Last(groups) \in Seq(IDs) /\ Len(Last(groups)) \in Nat
      /\ TotalBytes(Last(groups)) \in Nat
  <2>1. Last(groups) \in Seq(IDs)
    BY <1>1, FrontLast
  <2>2. QED
    BY <1>2, <2>1, TotalAppend DEF Last, n
<1>8. CASE size + RecordSize(id) > max
  <2>1. i - 1 # 0
    <3>1. ASSUME i - 1 = 0 PROVE FALSE
      <4>1. groups = << <<>> >>
        BY <1>1, <3>1
      <4>2. Len(groups) = 1 /\ groups[1] = <<>> /\ Len(<<>>) = 0
        BY <4>1
      <4>3. Last(groups) = <<>>
        BY <4>2 DEF Last
      <4>4. size = base
        BY <1>1, <1>2, <4>2, <4>3, TotalNone
      <4>5. QED
        BY <1>2, <1>3, <1>8, <4>4
    <3>2. QED
      BY <3>1
  <2>2. /\ Len(g) = n + 1 /\ Last(g) = <<id>> /\ more.size = base + RecordSize(id)
        /\ \A k \in 1..n : g[k] = groups[k]
    <3>1. ~(size + RecordSize(id) <= max)
      BY <1>1, <1>2, <1>8
    <3>2. QED
      BY <1>4, <3>1
  <2>3. TotalBytes(<<id>>) = RecordBytes[id] /\ Len(<<id>>) = 1 /\ <<id>> # <<>>
    <3>1. <<>> \in Seq(IDs) /\ Append(<<>>, id) = <<id>>
      BY EmptySeq
    <3>2. TotalBytes(<<id>>) = 0 + RecordBytes[id]
      BY <1>2, <3>1, TotalAppend, TotalNone
    <3>3. QED
      BY <1>2, <3>2
  <2>4. ASSUME NEW k \in 1..(n + 1)
        PROVE  g[k] # <<>> /\ base + TotalBytes(g[k]) + Len(g[k]) <= max
    <3>1. CASE k = n + 1
      <4>1. g[k] = <<id>>
        BY <1>6, <2>2, <3>1
      <4>2. QED
        BY <1>2, <1>3, <2>3, <4>1
    <3>2. CASE k # n + 1
      <4>1. k \in 1..n
        BY <1>2, <3>2
      <4>2. QED
        BY <1>1, <1>2, <2>1, <2>2, <4>1
    <3>3. QED
      BY <3>1, <3>2
  <2>5. more.size = base + TotalBytes(Last(g)) + Len(Last(g))
    BY <1>2, <2>2, <2>3
  <2>6. Len(g) <= i + 1 /\ i # 0
    BY <1>1, <1>2, <2>2
  <2>7. CutSoFar(g, more.size, ids, max, i)
    BY <1>4, <1>5, <1>6, <2>2, <2>4, <2>5, <2>6 DEF CutSoFar, base
  <2>8. QED
    BY <1>4, <2>7 DEF g, more, base, id
<1>9. CASE ~(size + RecordSize(id) > max)
  <2>1. /\ Len(g) = n /\ Last(g) = Append(Last(groups), id) /\ more.size = size + RecordSize(id)
        /\ \A k \in 1..(n - 1) : g[k] = groups[k]
    BY <1>1, <1>2, <1>4, <1>9
  <2>2. /\ TotalBytes(Last(g)) = TotalBytes(Last(groups)) + RecordBytes[id]
        /\ Len(Last(g)) = Len(Last(groups)) + 1 /\ Last(g) # <<>>
    <3> DEFINE last == Last(groups)
    <3> HIDE DEF last
    <3>1. last \in Seq(IDs) /\ Last(g) = Append(last, id)
      BY <1>7, <2>1 DEF last
    <3>2. TotalBytes(Append(last, id)) = TotalBytes(last) + RecordBytes[id]
      BY <1>2, <3>1, TotalAppend
    <3>3. Len(Append(last, id)) = Len(last) + 1 /\ Append(last, id) # <<>>
      BY <1>2, <3>1, AppendProperties
    <3>4. QED
      BY <3>1, <3>2, <3>3 DEF last
  <2>3. more.size = base + TotalBytes(Last(g)) + Len(Last(g))
    <3>1. PICK total \in Nat, length \in Nat :
             total = TotalBytes(Last(groups)) /\ length = Len(Last(groups))
      BY <1>7
    <3>2. more.size = base + total + length + (RecordBytes[id] + 1)
      BY <1>1, <1>2, <2>1, <3>1
    <3>3. TotalBytes(Last(g)) = total + RecordBytes[id] /\ Len(Last(g)) = length + 1
      BY <2>2, <3>1
    <3>4. PICK bytes \in Nat : bytes = RecordBytes[id]
      BY <1>2
    <3>5. base + total + length + (bytes + 1) = base + (total + bytes) + (length + 1)
      BY <1>2
    <3>6. QED
      BY <3>2, <3>3, <3>4, <3>5
  <2>4. size + RecordSize(id) <= max
    BY <1>1, <1>2, <1>9
  <2>5. ASSUME NEW k \in 1..n
        PROVE  g[k] # <<>> /\ base + TotalBytes(g[k]) + Len(g[k]) <= max
    <3>1. CASE k = n
      <4>1. g[k] = Last(g)
        BY <1>6, <2>1, <3>1
      <4>2. QED
        BY <2>1, <2>2, <2>3, <2>4, <4>1
    <3>2. CASE k # n
      <4>1. k \in 1..(n - 1) /\ n # 1
        BY <1>2, <3>2
      <4>2. i - 1 # 0
        <5>1. ASSUME i - 1 = 0 PROVE FALSE
          <6>1. n <= 1
            BY <1>1, <1>2, <5>1
          <6>2. QED
            BY <1>2, <4>1, <6>1
        <5>2. QED
          BY <5>1
      <4>3. QED
        BY <1>1, <1>2, <2>1, <4>1, <4>2
    <3>3. QED
      BY <3>1, <3>2
  <2>6. Len(g) <= i + 1 /\ i # 0
    BY <1>1, <1>2, <2>1
  <2>7. CutSoFar(g, more.size, ids, max, i)
    BY <1>4, <1>5, <1>6, <2>1, <2>3, <2>5, <2>6 DEF CutSoFar, base
  <2>8. QED
    BY <1>4, <2>7 DEF g, more, base, id
<1>10. QED
  BY <1>8, <1>9

\* What a cut of a list that fits is.
LEMMA CutDone ==
  ASSUME NEW ids \in Seq(IDs), NEW max \in Nat, Fits(ids, max)
  PROVE  \E size : CutSoFar(Cut(ids, max), size, ids, max, Len(ids))
<1> DEFINE n == Len(ids)
           base == EnvelopeBound(ids)
           S == [groups : Seq(Seq(IDs)) \ {<<>>}, size : Nat]
           start == [groups |-> << <<>> >>, size |-> base]
           step == [i \in 1..n |-> [acc \in S |-> Extend(acc, ids[i], base, max)]]
           Body(h) == [i \in 0..n |-> IF i = 0 THEN start ELSE Extend(h[i - 1], ids[i], base, max)]
           upTo == CHOOSE h : h = Body(h)
<1>1. n \in Nat /\ base \in Nat /\ (\A i \in 1..n : ids[i] \in IDs)
  BY BoundIsNat
<1>2. start \in S
  <2>1. <<>> \in Seq(IDs) /\ << <<>> >> \in Seq(Seq(IDs)) /\ << <<>> >> # <<>>
    BY EmptySeq
  <2>2. QED
    BY <1>1, <2>1
<1>3. step \in [1..n -> [S -> S]]
  <2>1. ASSUME NEW i \in 1..n, NEW acc \in S PROVE Extend(acc, ids[i], base, max) \in S
    <3>1. PICK groups \in Seq(Seq(IDs)), size \in Nat :
             groups # <<>> /\ acc = [groups |-> groups, size |-> size]
      <4>1. acc.groups \in Seq(Seq(IDs)) /\ acc.groups # <<>> /\ acc.size \in Nat
            /\ acc = [groups |-> acc.groups, size |-> acc.size]
        OBVIOUS
      <4>2. QED
        BY <4>1
    <3> DEFINE more == Extend([groups |-> groups, size |-> size], ids[i], base, max)
    <3>2. ids[i] \in IDs
      BY <1>1
    <3> HIDE DEF base
    <3>3. Extended(groups, size, ids[i], base, max, more)
      BY <1>1, <3>1, <3>2, ExtendFacts
    <3> HIDE DEF more
    <3>4. more \in S
      BY <3>3 DEF Extended
    <3>5. QED
      BY <3>1, <3>4 DEF more
  <2> HIDE DEF S, base, n
  <2>2. QED
    BY <2>1
<1>4. PICK f : IsLoop(f, n, S, start, step)
  <2> HIDE DEF S, start, step, n
  <2>1. QED
    BY <1>1, <1>2, <1>3, LoopExists
<1> HIDE DEF S, start, base
<1>5. f \in [0..n -> S] /\ f[0] = start
  BY <1>4 DEF IsLoop
<1>6. ASSUME NEW i \in 1..n
      PROVE  f[i - 1] \in S /\ f[i] = Extend(f[i - 1], ids[i], base, max)
  <2>1. i - 1 \in 0..n
    BY <1>1
  <2> HIDE DEF step
  <2>2. f[i - 1] \in S /\ f[i] = step[i][f[i - 1]]
    BY <1>4, <2>1 DEF IsLoop
  <2>3. QED
    BY <2>2 DEF step
<1>7. f = Body(f)
  <2>1. \A i \in 0..n : i # 0 => i \in 1..n
    BY <1>1
  <2> HIDE DEF n, step
  <2>2. \A i \in 0..n : f[i] = IF i = 0 THEN start ELSE Extend(f[i - 1], ids[i], base, max)
    BY <1>5, <1>6, <2>1
  <2>3. QED
    BY <1>5, <2>2
<1>8. upTo = Body(upTo)
  <2> HIDE DEF Body
  <2>1. QED
    BY <1>7
<1>9. upTo[0] = start /\ \A i \in 1..n : upTo[i] = Extend(upTo[i - 1], ids[i], base, max)
  <2> HIDE DEF upTo, n
  <2>1. \A i \in 0..n : upTo[i] = IF i = 0 THEN start
                                  ELSE Extend(upTo[i - 1], ids[i], base, max)
    BY <1>8
  <2>2. (\A i \in 1..n : i \in 0..n /\ i # 0) /\ 0 \in 0..n
    BY <1>1
  <2>3. QED
    BY <2>1, <2>2
<1>10. Cut(ids, max) = upTo[n].groups
  BY DEF Cut, upTo, Body, n, base, start
<1> HIDE DEF upTo, Body, n, step
<1> DEFINE T == {i \in 0..n : /\ upTo[i] = [groups |-> upTo[i].groups, size |-> upTo[i].size]
                              /\ CutSoFar(upTo[i].groups, upTo[i].size, ids, max, i)}
<1>11. 0 \in T
  <2>1. start.groups = << <<>> >> /\ start.size = base
        /\ start = [groups |-> << <<>> >>, size |-> base]
    BY DEF start
  <2>2. CutSoFar(start.groups, start.size, ids, max, 0)
    BY <2>1, CutStarts DEF base
  <2>3. QED
    BY <1>1, <1>9, <2>1, <2>2
<1>12. ASSUME NEW i \in 1..n, i - 1 \in T PROVE i \in T
  <2>1. PICK groups, size :
           upTo[i - 1] = [groups |-> groups, size |-> size]
           /\ CutSoFar(groups, size, ids, max, i - 1)
    BY <1>12
  <2>2. PICK more : more = upTo[i] /\ more = Extend(upTo[i - 1], ids[i], base, max)
    BY <1>9
  <2>3. more = Extend([groups |-> groups, size |-> size], ids[i], EnvelopeBound(ids), max)
    BY <2>1, <2>2 DEF base
  <2>4. /\ CutSoFar(more.groups, more.size, ids, max, i)
        /\ more = [groups |-> more.groups, size |-> more.size]
    BY <2>1, <2>3, CutContinues DEF n
  <2>5. i \in 0..n
    BY <1>1
  <2>6. QED
    BY <2>2, <2>4, <2>5
<1>13. 0..n \subseteq T
  <2> HIDE DEF T
  <2>1. QED
    BY <1>1, <1>11, <1>12, LoopInduction
<1>14. n \in 0..n
  BY <1>1
<1>15. CutSoFar(Cut(ids, max), upTo[n].size, ids, max, n)
  BY <1>10, <1>13, <1>14
<1>16. QED
  BY <1>15 DEF n

-----------------------------------------------------------------------------
(* Encoding. *)

LEMMA LengthIs ==
  ASSUME NEW m \in Nat, NEW f, f = [i \in 1..m |-> f[i]]
  PROVE  Len(f) = m
<1> DEFINE S == {f[i] : i \in 1..m}
<1>1. f \in [1..m -> S]
  OBVIOUS
<1> HIDE DEF S
<1>2. f \in Seq(S)
  BY <1>1, SeqDef
<1>3. DOMAIN f = 1..Len(f) /\ Len(f) \in Nat /\ DOMAIN f = 1..m
  BY <1>1, <1>2, LenProperties
<1>4. QED
  BY <1>3

\* The chunks are numbered from 0, and each has their count.
Numbered(encoded, batch, m) ==
  /\ encoded = [i \in 1..m |-> encoded[i]] /\ DOMAIN encoded = 1..m
  /\ \A i \in 1..m : /\ encoded[i].batch = batch
                     /\ encoded[i].index = i - 1
                     /\ encoded[i].count = m

NoneEmpty(encoded) == \A i \in DOMAIN encoded : encoded[i].ids # <<>>

NoneTooLong(encoded, max) ==
  \A i \in DOMAIN encoded :
    encoded[i].ids # <<>> =>
      EnvelopeBytes(encoded[i].index, encoded[i].count)
        + TotalBytes(encoded[i].ids) + Len(encoded[i].ids) - 1 <= max

\* The chunks of a list, put one after the other, are that list.
LEMMA EncodedFacts ==
  ASSUME NEW batch, NEW ids \in Seq(IDs), NEW max \in Nat, Fits(ids, max),
         NEW encoded, encoded = Encoded(batch, ids, max)
  PROVE  /\ \E m \in Nat \ {0} : Numbered(encoded, batch, m)
         /\ FlattenSeq([i \in DOMAIN encoded |-> encoded[i].ids]) = ids
         /\ ids # <<>> => NoneEmpty(encoded)
         /\ NoneTooLong(encoded, max)
<1> DEFINE groups == Cut(ids, max)
           m == Len(groups)
           n == Len(ids)
           bound == EnvelopeBound(ids)
<1>1. PICK size : CutSoFar(groups, size, ids, max, n)
  BY CutDone
<1>2. encoded = [i \in 1..m |->
                   [batch |-> batch, index |-> i - 1, count |-> m, ids |-> groups[i]]]
  BY DEF Encoded
<1> HIDE DEF groups
<1>3. /\ groups \in Seq(Seq(IDs)) /\ m \in Nat \ {0} /\ n \in Nat /\ m <= n + 1
      /\ FlattenSeq(groups) = ids /\ DOMAIN groups = 1..m
  <2>1. groups \in Seq(Seq(IDs)) /\ groups # <<>> /\ FlattenSeq(groups) = SubSeq(ids, 1, n)
        /\ Len(groups) <= n + 1
    BY <1>1 DEF CutSoFar
  <2>2. m \in Nat \ {0} /\ n \in Nat
    BY <2>1, EmptySeq
  <2>3. SubSeq(ids, 1, n) = ids
    BY SubSeqFull
  <2>4. QED
    BY <2>1, <2>2, <2>3
<1>4. ASSUME ids # <<>>
      PROVE  \A i \in 1..m :
               groups[i] # <<>> /\ bound + TotalBytes(groups[i]) + Len(groups[i]) <= max
  <2>1. n # 0
    BY <1>4, EmptySeq
  <2>2. QED
    BY <1>1, <1>3, <1>4, <2>1 DEF CutSoFar
<1>5. ASSUME ids = <<>> PROVE \A i \in 1..m : groups[i] = <<>>
  <2>1. n = 0
    BY <1>5, EmptySeq
  <2>2. groups = << <<>> >>
    BY <1>1, <2>1 DEF CutSoFar
  <2>3. QED
    BY <2>2
<1> HIDE DEF m, n, bound
<1>6. ASSUME NEW i \in 1..m PROVE EnvelopeBytes(i - 1, m) \in Nat /\ EnvelopeBytes(i - 1, m) <= bound
  <2>1. i - 1 \in Nat /\ n + 1 \in Nat /\ i - 1 <= n + 1 /\ m \in Nat /\ m <= n + 1
    BY <1>3
  <2>2. Digits(i - 1) \in Nat /\ Digits(n + 1) \in Nat /\ Digits(i - 1) <= Digits(n + 1)
    BY <2>1, DigitsGrow
  <2>3. Digits(m) \in Nat /\ Digits(m) <= Digits(n + 1)
    BY <2>1, DigitsGrow
  <2>4. bound = FixedBytes + Digits(n + 1) + Digits(n + 1)
    BY DEF bound, EnvelopeBound, EnvelopeBytes, n
  <2>5. EnvelopeBytes(i - 1, m) = FixedBytes + Digits(i - 1) + Digits(m)
    BY DEF EnvelopeBytes
  <2>6. FixedBytes \in Nat
    BY ManifestAssumption
  <2>7. QED
    BY <2>2, <2>3, <2>4, <2>5, <2>6
<1>7. ASSUME NEW i \in 1..m
      PROVE  /\ encoded[i].batch = batch /\ encoded[i].index = i - 1 /\ encoded[i].count = m
             /\ encoded[i].ids = groups[i]
  BY <1>2
<1>8. encoded = [i \in 1..m |-> encoded[i]] /\ DOMAIN encoded = 1..m
  BY <1>2
<1>9. [i \in DOMAIN encoded |-> encoded[i].ids] = groups
  <2>1. groups = [i \in 1..m |-> groups[i]]
    BY <1>3
  <2>2. [i \in DOMAIN encoded |-> encoded[i].ids] = [i \in 1..m |-> groups[i]]
    BY <1>7, <1>8
  <2>3. QED
    BY <2>1, <2>2
<1>10. ASSUME NEW i \in 1..m, encoded[i].ids # <<>>
       PROVE  EnvelopeBytes(encoded[i].index, encoded[i].count)
                + TotalBytes(encoded[i].ids) + Len(encoded[i].ids) - 1 <= max
  <2>1. groups[i] # <<>> /\ ids # <<>>
    BY <1>5, <1>7, <1>10
  <2>2. bound + TotalBytes(groups[i]) + Len(groups[i]) <= max
    BY <1>4, <2>1
  <2>3. TotalBytes(groups[i]) \in Nat /\ Len(groups[i]) \in Nat /\ bound \in Nat
    <3>1. groups[i] \in Seq(IDs)
      BY <1>3 DEF m
    <3>2. PICK id : id \in IDs
      <4>1. Len(ids) \in Nat \ {0}
        BY <2>1, EmptySeq
      <4>2. ids[1] \in IDs
        BY <4>1
      <4>3. QED
        BY <4>2
    <3>3. QED
      BY <3>1, <3>2, TotalAppend, BoundIsNat DEF bound
  <2>4. PICK total \in Nat, length \in Nat, envelope \in Nat, most \in Nat :
          /\ total = TotalBytes(groups[i]) /\ length = Len(groups[i])
          /\ envelope = EnvelopeBytes(i - 1, m) /\ most = bound
    BY <1>6, <2>3
  <2>5. envelope + total + length - 1 <= max
    <3>1. most + total + length <= max /\ envelope <= most
      BY <1>6, <2>2, <2>4
    <3>2. max \in Nat
      OBVIOUS
    <3>3. QED
      BY <3>1, <3>2
  <2>6. QED
    BY <1>7, <2>4, <2>5
<1>11. ids # <<>> => NoneEmpty(encoded)
  BY <1>4, <1>7, <1>8 DEF NoneEmpty
<1>12. Numbered(encoded, batch, m)
  BY <1>7, <1>8 DEF Numbered
<1>13. NoneTooLong(encoded, max)
  BY <1>8, <1>10 DEF NoneTooLong
<1>14. QED
  BY <1>3, <1>9, <1>11, <1>12, <1>13

-----------------------------------------------------------------------------
(* Reading. *)

\* Keys that count up, or down, put the elements in that order.
LEMMA PlaceUp ==
  ASSUME NEW m \in Nat, NEW keys \in [1..m -> Int], \A i \in 1..m : keys[i] = i - 1
  PROVE  \A i \in 1..m : Place(keys, i) = i
<1>1. SUFFICES ASSUME NEW i \in 1..m PROVE Place(keys, i) = i
  OBVIOUS
<1>2. {j \in DOMAIN keys : keys[j] < keys[i] \/ (keys[j] = keys[i] /\ j <= i)} = 1..i
  OBVIOUS
<1>3. Cardinality(1..i) = i
  BY FS_Interval
<1>4. QED
  BY <1>2, <1>3 DEF Place

LEMMA PlaceDown ==
  ASSUME NEW m \in Nat, NEW keys \in [1..m -> Int], \A i \in 1..m : keys[i] = m - i
  PROVE  \A i \in 1..m : Place(keys, i) = m - i + 1
<1>1. SUFFICES ASSUME NEW i \in 1..m PROVE Place(keys, i) = m - i + 1
  OBVIOUS
<1>2. {j \in DOMAIN keys : keys[j] < keys[i] \/ (keys[j] = keys[i] /\ j <= i)} = i..m
  OBVIOUS
<1>3. Cardinality(i..m) = m - i + 1
  BY FS_Interval
<1>4. QED
  BY <1>2, <1>3 DEF Place

\* The files in order are the files, listed forwards or backwards.
LEMMA InOrderFacts ==
  ASSUME NEW m \in Nat, NEW files, files = [i \in 1..m |-> files[i]], DOMAIN files = 1..m,
         \A i \in 1..m : files[i].index = i - 1,
         NEW listing \in {files, Reverse(files)}
  PROVE  InOrder(listing) = files
<1> DEFINE keys == [i \in DOMAIN listing |-> listing[i].index]
<1>1. Reverse(files) = [i \in 1..m |-> files[m - i + 1]]
  <2>1. Len(files) = m
    BY LengthIs
  <2>2. QED
    BY <2>1 DEF Reverse
<1>2. CASE listing = files
  <2>1. keys \in [1..m -> Int] /\ \A i \in 1..m : keys[i] = i - 1
    BY <1>2
  <2> HIDE DEF keys
  <2>2. ASSUME NEW k \in 1..m PROVE Order(keys)[k] = k
    <3>1. Order(keys)[k] \in 1..m /\ Place(keys, Order(keys)[k]) = k
      <4>1. Order(keys) \in [1..m -> 1..m]
        BY <2>1, OrderFacts
      <4>2. \A l \in 1..m : Place(keys, Order(keys)[l]) = l
        BY <2>1, OrderFacts
      <4>3. QED
        BY <4>1, <4>2
    <3>2. \A i \in 1..m : Place(keys, i) = i
      BY <2>1, PlaceUp
    <3>3. QED
      BY <3>1, <3>2
  <2>3. InOrder(listing) = [k \in 1..m |-> listing[Order(keys)[k]]]
    BY <1>2 DEF InOrder, keys
  <2>4. QED
    BY <1>2, <2>2, <2>3
<1>3. CASE listing = Reverse(files)
  <2>1. ASSUME NEW i \in 1..m
        PROVE  m - i + 1 \in 1..m /\ m - (m - i + 1) + 1 = i /\ m - i + 1 - 1 = m - i
    OBVIOUS
  <2>2. DOMAIN listing = 1..m /\ \A i \in 1..m : listing[i] = files[m - i + 1]
    BY <1>1, <1>3
  <2>3. keys \in [1..m -> Int] /\ \A i \in 1..m : keys[i] = m - i
    <3>1. ASSUME NEW i \in 1..m PROVE listing[i].index = m - i
      <4>1. files[m - i + 1].index = m - i + 1 - 1
        BY <2>1
      <4>2. QED
        BY <2>1, <2>2, <4>1
    <3>2. QED
      BY <2>2, <3>1
  <2> HIDE DEF keys
  <2>4. ASSUME NEW k \in 1..m PROVE Order(keys)[k] = m - k + 1
    <3>1. Order(keys)[k] \in 1..m /\ Place(keys, Order(keys)[k]) = k
      <4>1. Order(keys) \in [1..m -> 1..m]
        BY <2>3, OrderFacts
      <4>2. \A l \in 1..m : Place(keys, Order(keys)[l]) = l
        BY <2>3, OrderFacts
      <4>3. QED
        BY <4>1, <4>2
    <3>2. \A i \in 1..m : Place(keys, i) = m - i + 1
      BY <2>3, PlaceDown
    <3>3. PICK i \in 1..m : i = Order(keys)[k] /\ m - i + 1 = k
      BY <3>1, <3>2
    <3>4. QED
      BY <3>3
  <2>5. InOrder(listing) = [k \in 1..m |-> listing[Order(keys)[k]]]
    BY <2>2 DEF InOrder, keys
  <2>6. ASSUME NEW k \in 1..m PROVE listing[Order(keys)[k]] = files[k]
    BY <2>1, <2>2, <2>4
  <2>7. QED
    BY <2>5, <2>6
<1>4. QED
  BY <1>2, <1>3

-----------------------------------------------------------------------------
(* The manifest on its way. *)

Accepted == ~HasDuplicates(Sorted(list)) /\ Fits(Sorted(list), limit)

Files == [i \in DOMAIN chunks |-> File(i)]

\* The chunks are those of the list; what is read comes from mounted files for
\* exactly these chunks.
ManifestInv ==
  /\ list \in Lists /\ limit \in Limits
  /\ IF stage \in {"encoded", "read"}
     THEN /\ Accepted
          /\ chunks = Encoded(Batch, Sorted(list), limit)
          /\ DOMAIN mounted = DOMAIN chunks
     ELSE chunks = <<>> /\ mounted = <<>>
  /\ stage = "read" => \E listing \in {Files, Reverse(Files)} : result = Decoded(listing)

LEMMA ManifestInvariant == Spec => []ManifestInv
<1>1. Init => ManifestInv
  BY DEF Init, ManifestInv
<1>2. ManifestInv /\ [Next]_vars => ManifestInv'
  <2> SUFFICES ASSUME ManifestInv, [Next]_vars PROVE ManifestInv'
    OBVIOUS
  <2>1. CASE Encode
    <3>1. Accepted' <=> Accepted
      BY <2>1 DEF Encode, Accepted
    <3>2. stage' # "read" /\ list' = list /\ limit' = limit
      BY <2>1 DEF Encode
    <3>3. CASE Accepted
      <4>1. stage' = "encoded" /\ chunks' = Encoded(Batch, Sorted(list), limit)
            /\ mounted' = chunks'
        BY <2>1, <3>3 DEF Encode, Accepted
      <4>2. QED
        BY <3>1, <3>2, <3>3, <4>1 DEF ManifestInv
    <3>4. CASE ~Accepted
      <4>1. stage' = "rejected" /\ chunks' = chunks /\ mounted' = mounted /\ stage = "listed"
        BY <2>1, <3>4 DEF Encode, Accepted
      <4>2. QED
        BY <3>2, <4>1 DEF ManifestInv
    <3>5. QED
      BY <3>3, <3>4
  <2>2. ASSUME NEW i \in DOMAIN mounted, Replace(i) PROVE ManifestInv'
    <3>1. /\ stage = "encoded" /\ stage' = "encoded" /\ DOMAIN mounted' = DOMAIN mounted
          /\ list' = list /\ limit' = limit /\ chunks' = chunks
      BY <2>2 DEF Replace
    <3>2. Accepted' <=> Accepted
      BY <3>1 DEF Accepted
    <3>3. QED
      BY <3>1, <3>2 DEF ManifestInv
  <2>3. CASE Read
    <3>1. /\ stage = "encoded" /\ stage' = "read"
          /\ list' = list /\ limit' = limit /\ chunks' = chunks /\ mounted' = mounted
          /\ \E listing \in {Files, Reverse(Files)} : result' = Decoded(listing)
      BY <2>3 DEF Read, Files
    <3>2. (Accepted' <=> Accepted) /\ Files' = Files
      BY <3>1 DEF Accepted, Files, File
    <3>3. QED
      BY <3>1, <3>2 DEF ManifestInv
  <2>4. CASE UNCHANGED vars
    <3>1. /\ stage' = stage /\ list' = list /\ limit' = limit
          /\ chunks' = chunks /\ mounted' = mounted /\ result' = result
      BY <2>4 DEF vars
    <3>2. (Accepted' <=> Accepted) /\ Files' = Files
      BY <3>1 DEF Accepted, Files, File
    <3>3. QED
      BY <3>1, <3>2 DEF ManifestInv
  <2>5. QED
    BY <2>1, <2>2, <2>3, <2>4 DEF Next
<1>3. QED
  BY <1>1, <1>2, PTL DEF Spec

\* The list that was encoded, and what its chunks are.
LEMMA Encoding ==
  ASSUME ManifestInv, stage \in {"encoded", "read"}
  PROVE  LET ids == Sorted(list)
         IN /\ ids \in Seq(IDs) /\ ~HasDuplicates(ids) /\ IsAscending(ids)
            /\ Range(ids) = Range(list) /\ (list # <<>> => ids # <<>>)
            /\ limit \in Nat /\ Fits(ids, limit) /\ chunks = Encoded(Batch, ids, limit)
<1>1. list \in Seq(IDs) /\ limit \in Nat
  BY ManifestAssumption DEF ManifestInv, IDs
<1>2. /\ ~HasDuplicates(Sorted(list)) /\ Fits(Sorted(list), limit)
      /\ chunks = Encoded(Batch, Sorted(list), limit)
  BY DEF ManifestInv, Accepted
<1>3. /\ Sorted(list) \in Seq(IDs) /\ Len(Sorted(list)) = Len(list)
      /\ Range(Sorted(list)) = Range(list) /\ IsAscending(Sorted(list))
  BY <1>1, <1>2, SortedList
<1>4. list # <<>> => Sorted(list) # <<>>
  BY <1>1, <1>3, EmptySeq
<1>5. QED
  BY <1>1, <1>2, <1>3, <1>4

\* What is read is the list, or nothing; and the list if nothing was replaced.
LEMMA Reading ==
  ASSUME ManifestInv, stage = "read"
  PROVE  /\ result.ok => result.ids = Sorted(list)
         /\ mounted = chunks => result.ok
<1> DEFINE ids == Sorted(list)
<1>1. /\ ids \in Seq(IDs) /\ ~HasDuplicates(ids) /\ limit \in Nat /\ Fits(ids, limit)
      /\ chunks = Encoded(Batch, ids, limit)
  BY Encoding
<1> HIDE DEF ids
<1>2. PICK m \in Nat \ {0} : Numbered(chunks, Batch, m)
  BY <1>1, EncodedFacts
<1>3. FlattenSeq([i \in 1..m |-> chunks[i].ids]) = ids
  <2>1. FlattenSeq([i \in DOMAIN chunks |-> chunks[i].ids]) = ids
    BY <1>1, EncodedFacts
  <2>2. QED
    BY <1>2, <2>1 DEF Numbered
<1>4. /\ Files = [i \in 1..m |-> Files[i]] /\ DOMAIN Files = 1..m
      /\ \A i \in 1..m : /\ Files[i].index = i - 1 /\ Files[i].digest = chunks[i]
                         /\ Files[i].data = mounted[i]
  BY <1>2 DEF Files, File, Numbered
<1>5. PICK listing \in {Files, Reverse(Files)} : result = Decoded(listing)
  BY DEF ManifestInv
<1>6. InOrder(listing) = Files
  BY <1>2, <1>4, InOrderFacts
<1> DEFINE read == FlattenSeq([i \in DOMAIN Files |-> Files[i].data.ids])
<1>7. result = IF Consistent(Files) /\ ~HasDuplicates(read) /\ BatchHolds(Files[1].data.batch)
               THEN [ok |-> TRUE, ids |-> read]
               ELSE [ok |-> FALSE, ids |-> <<>>]
  BY <1>5, <1>6 DEF Decoded
<1>8. ASSUME \A i \in 1..m : mounted[i] = chunks[i] PROVE read = ids
  <2>1. [i \in DOMAIN Files |-> Files[i].data.ids] = [i \in 1..m |-> chunks[i].ids]
    BY <1>4, <1>8
  <2>2. QED
    BY <1>3, <2>1
<1> HIDE DEF read
<1>9. ASSUME result.ok PROVE result.ids = ids
  <2>1. Consistent(Files) /\ result.ids = read
    BY <1>7, <1>9
  <2>2. \A i \in 1..m : mounted[i] = chunks[i]
    BY <1>4, <2>1 DEF Consistent, DigestHolds
  <2>3. QED
    BY <1>8, <2>1, <2>2
<1>10. ASSUME mounted = chunks PROVE result.ok
  <2>1. read = ids
    BY <1>8, <1>10
  <2>2. Len(Files) = m
    BY <1>2, <1>4, LengthIs
  <2>3. 1 \in 1..m
    BY <1>2
  <2>4. Consistent(Files)
    BY <1>2, <1>4, <1>10, <2>2, <2>3 DEF Consistent, DigestHolds, Numbered
  <2>5. BatchHolds(Files[1].data.batch)
    BY <1>2, <1>4, <1>10, <2>3 DEF BatchHolds, Numbered
  <2>6. QED
    BY <1>1, <1>7, <2>1, <2>4, <2>5
<1>11. QED
  BY <1>9, <1>10 DEF ids

\* No ConfigMap is refused for its size: no chunk of EncodeManifest is longer than
\* the limit, whatever the records and the limit are.
THEOREM NoChunkTooLong == Spec => []ChunksFit
<1>1. ASSUME ManifestInv PROVE ChunksFit
  <2>1. CASE stage \in {"encoded", "read"}
    <3>1. PICK ids : /\ ids \in Seq(IDs) /\ limit \in Nat /\ Fits(ids, limit)
                     /\ chunks = Encoded(Batch, ids, limit)
      BY <1>1, <2>1, Encoding
    <3>2. NoneTooLong(chunks, limit)
      BY <3>1, EncodedFacts
    <3>3. QED
      BY <3>2 DEF ChunksFit, NoneTooLong
  <2>2. CASE stage \notin {"encoded", "read"}
    BY <1>1, <2>2 DEF ManifestInv, ChunksFit
  <2>3. QED
    BY <2>1, <2>2
<1>2. QED
  BY <1>1, ManifestInvariant, PTL

\* NewManifest and EncodeManifest cut any list into groups in the order of the
\* IDs, each repository in one of them, and none of them is empty.
THEOREM GroupsAreACut == Spec => []CutIntoGroups
<1>1. ASSUME ManifestInv, stage \in {"encoded", "read"}
      PROVE  /\ \A i \in DOMAIN chunks : list # <<>> => chunks[i].ids # <<>>
             /\ FlattenSeq([i \in DOMAIN chunks |-> chunks[i].ids]) = Sorted(list)
  <2> DEFINE ids == Sorted(list)
  <2>1. /\ ids \in Seq(IDs) /\ limit \in Nat /\ Fits(ids, limit)
        /\ chunks = Encoded(Batch, ids, limit) /\ (list # <<>> => ids # <<>>)
    BY <1>1, Encoding
  <2> HIDE DEF ids
  <2>2. FlattenSeq([i \in DOMAIN chunks |-> chunks[i].ids]) = ids
    BY <2>1, EncodedFacts
  <2>3. ids # <<>> => NoneEmpty(chunks)
    BY <2>1, EncodedFacts
  <2>4. QED
    BY <2>1, <2>2, <2>3 DEF ids, NoneEmpty
<1>2. ASSUME ManifestInv, stage \in {"encoded", "read"}
      PROVE  Range(Sorted(list)) = Range(list) /\ IsAscending(Sorted(list))
  BY <1>2, Encoding
<1>3. ManifestInv => CutIntoGroups
  BY <1>1, <1>2 DEF CutIntoGroups
<1>4. QED
  BY <1>3, ManifestInvariant, PTL

\* readManifest and DecodeManifest give back the list that was encoded, in
\* whatever order the directory lists the files.
THEOREM ReadBack == Spec => []RoundTrip
<1>1. ASSUME ManifestInv, stage = "read", mounted = chunks
      PROVE  result.ok /\ IsAscending(result.ids) /\ Range(result.ids) = Range(list)
  <2>1. result.ok /\ result.ids = Sorted(list)
    BY <1>1, Reading
  <2>2. Range(Sorted(list)) = Range(list) /\ IsAscending(Sorted(list))
    BY <1>1, Encoding
  <2>3. QED
    BY <2>1, <2>2
<1>2. ManifestInv => RoundTrip
  BY <1>1 DEF RoundTrip
<1>3. QED
  BY <1>2, ManifestInvariant, PTL

\* Whatever other chunks are mounted, a worker that goes on has the list its Job
\* was created for: the digests of DecodeManifest are enough.
THEOREM OnlyItsOwnList == Spec => []WorkerReadsItsJob
<1>1. ASSUME ManifestInv, stage = "read", result.ok
      PROVE  Range(result.ids) = Range(list)
  <2>1. result.ids = Sorted(list)
    BY <1>1, Reading
  <2>2. Range(Sorted(list)) = Range(list)
    BY <1>1, Encoding
  <2>3. QED
    BY <2>1, <2>2
<1>2. ManifestInv => WorkerReadsItsJob
  BY <1>1 DEF WorkerReadsItsJob
<1>3. QED
  BY <1>2, ManifestInvariant, PTL

\* The chunks depend on which repositories there are, not on the order in which
\* the register lists them: an attempt of the controller that reads the same
\* repositories again finds the ConfigMaps it is about to create (createOrVerify).
THEOREM OrderDoesNotMatter ==
  ASSUME NEW one \in Seq(IDs), NEW other \in Seq(IDs),
         Range(one) = Range(other), ~HasDuplicates(Sorted(one)), ~HasDuplicates(Sorted(other)),
         NEW batch, NEW max
  PROVE  Encoded(batch, Sorted(one), max) = Encoded(batch, Sorted(other), max)
<1>1. /\ Sorted(one) \in Seq(IDs) /\ IsAscending(Sorted(one)) /\ Range(Sorted(one)) = Range(one)
  BY SortedList
<1>2. /\ Sorted(other) \in Seq(IDs) /\ IsAscending(Sorted(other))
      /\ Range(Sorted(other)) = Range(other)
  BY SortedList
<1>3. PICK m \in Nat : Sorted(one) \in [1..m -> Int]
  <2>1. /\ Len(Sorted(one)) \in Nat /\ Sorted(one) \in [1..Len(Sorted(one)) -> IDs]
        /\ IDs \subseteq Int
    BY <1>1, LenProperties, ManifestAssumption DEF IDs
  <2>2. Sorted(one) \in [1..Len(Sorted(one)) -> Int]
    BY <2>1
  <2>3. QED
    BY <2>1, <2>2
<1>4. PICK n \in Nat : Sorted(other) \in [1..n -> Int]
  <2>1. /\ Len(Sorted(other)) \in Nat /\ Sorted(other) \in [1..Len(Sorted(other)) -> IDs]
        /\ IDs \subseteq Int
    BY <1>2, LenProperties, ManifestAssumption DEF IDs
  <2>2. Sorted(other) \in [1..Len(Sorted(other)) -> Int]
    BY <2>1
  <2>3. QED
    BY <2>1, <2>2
<1>5. Sorted(one) = Sorted(other)
  BY <1>1, <1>2, <1>3, <1>4, AscendingUnique
<1>6. QED
  BY <1>5
=============================================================================
