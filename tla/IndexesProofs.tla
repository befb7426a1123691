--------------------------- MODULE IndexesProofs ---------------------------
(***************************************************************************)
(* Proofs about Indexes for rounds of any size, every outcome of their     *)
(* Pods and every index list.                                              *)
(*                                                                         *)
(* The idea: while ParseIndexes goes through the parts it has the indexes  *)
(* of the parts so far, each once, exactly if these parts are well-formed. *)
(* The parts Kubernetes writes for a set are well-formed and cover it.     *)
(***************************************************************************)
EXTENDS Indexes, Lemmas

-----------------------------------------------------------------------------
(* One part. *)

Parts == Seq(Int) \ {<<>>}

\* A part has one bound at least, all of them numbers.
LEMMA Bounds ==
  ASSUME NEW part \in Parts
  PROVE  /\ Len(part) \in Nat \ {0} /\ DOMAIN part = 1..Len(part)
         /\ part[1] \in Int /\ part[Len(part)] \in Int /\ Last(part) = part[Len(part)]
         /\ \A b \in DOMAIN part : part[b] \in Int
<1>1. part \in Seq(Int) /\ part # <<>>
  BY DEF Parts
<1>2. Len(part) \in Nat \ {0} /\ DOMAIN part = 1..Len(part)
  BY <1>1, EmptySeq, LenProperties
<1>3. \A b \in 1..Len(part) : part[b] \in Int
  BY <1>1, ElementOfSeq
<1>4. 1 \in 1..Len(part) /\ Len(part) \in 1..Len(part)
  BY <1>2
<1>5. QED
  BY <1>2, <1>3, <1>4 DEF Last

\* What WellFormed asks of a part.
GoodPart(part) ==
  /\ Len(part) = 1 \/ Len(part) = 2
  /\ \A b \in DOMAIN part : 0 <= part[b] /\ part[b] < total
  /\ part[1] <= part[Len(part)]

\* The checks of the code on a part are those of WellFormed.
LEMMA HoldsIfGood ==
  ASSUME total \in Nat, NEW part \in Parts
  PROVE  PartHolds(part) <=> GoodPart(part)
<1>1. /\ Len(part) \in Nat \ {0} /\ DOMAIN part = 1..Len(part)
      /\ part[1] \in Int /\ part[Len(part)] \in Int /\ Last(part) = part[Len(part)]
  BY Bounds
<1>2. ASSUME PartHolds(part) PROVE GoodPart(part)
  <2>1. ASSUME NEW b \in DOMAIN part PROVE 0 <= part[b] /\ part[b] < total
    <3>1. b = 1 \/ b = Len(part)
      BY <1>1, <1>2 DEF PartHolds
    <3>2. QED
      BY <1>1, <1>2, <3>1 DEF PartHolds, Indices
  <2>2. QED
    BY <1>1, <1>2, <2>1 DEF PartHolds, GoodPart
<1>3. ASSUME GoodPart(part) PROVE PartHolds(part)
  <2>1. 1 \in DOMAIN part /\ Len(part) \in DOMAIN part
    BY <1>1
  <2>2. QED
    BY <1>1, <1>3, <2>1 DEF PartHolds, GoodPart, Indices
<1>4. QED
  BY <1>2, <1>3

\* The loop over the indexes of a part visits its interval, each index once.
LEMMA Visited ==
  ASSUME total \in Nat, NEW part \in Parts, PartHolds(part)
  PROVE  /\ PartIndexes(part) \in Seq(Int)
         /\ Range(PartIndexes(part)) = Interval(part)
         /\ IsInjective(PartIndexes(part))
<1>1. /\ part[1] \in Int /\ part[Len(part)] \in Int /\ Last(part) = part[Len(part)]
  BY Bounds
<1>2. PICK first \in Nat, last \in Nat :
        first = part[1] /\ last = part[Len(part)] /\ first <= last /\ last < total
  BY <1>1 DEF PartHolds, Indices
<1>3. PartIndexes(part) = [n \in 1..(last - first + 1) |-> first + n - 1]
  BY <1>1, <1>2 DEF PartIndexes
<1>4. PartIndexes(part) \in Seq(Int)
  <2>1. last - first + 1 \in Nat
    BY <1>2
  <2>2. PartIndexes(part) \in [1..(last - first + 1) -> Int]
    BY <1>3
  <2>3. QED
    BY <2>1, <2>2, SeqDef
<1>5. Interval(part) = first..last
  BY <1>2 DEF Interval, Indices
<1>6. Range(PartIndexes(part)) = first..last
  <2>1. Range(PartIndexes(part)) = {first + n - 1 : n \in 1..(last - first + 1)}
    BY <1>3 DEF Range
  <2>2. ASSUME NEW i \in first..last PROVE i \in {first + n - 1 : n \in 1..(last - first + 1)}
    <3>1. i - first + 1 \in 1..(last - first + 1) /\ first + (i - first + 1) - 1 = i
      BY <1>2
    <3>2. QED
      BY <3>1
  <2>3. \A n \in 1..(last - first + 1) : first + n - 1 \in first..last
    BY <1>2
  <2>4. QED
    BY <2>1, <2>2, <2>3
<1>7. IsInjective(PartIndexes(part))
  BY <1>2, <1>3 DEF IsInjective
<1>8. QED
  BY <1>4, <1>5, <1>6, <1>7

-----------------------------------------------------------------------------
(* The loop over the parts. *)

\* Parts 1..k are well-formed.
Good(parts, k) ==
  /\ \A i \in 1..k : PartHolds(parts[i])
  /\ \A i, j \in 1..k : i # j => Interval(parts[i]) \cap Interval(parts[j]) = {}

Covered(parts, k) == UNION {Interval(parts[i]) : i \in 1..k}

Accs == [ok : BOOLEAN, indexes : Seq(Int)]

\* What the loop has got after k parts.
SoFar(acc, parts, k) ==
  /\ acc \in Accs
  /\ acc.ok <=> Good(parts, k)
  /\ acc.ok => IsInjective(acc.indexes) /\ Range(acc.indexes) = Covered(parts, k)

\* Before the first part.
LEMMA SoFarStarts ==
  ASSUME NEW parts
  PROVE  SoFar([ok |-> TRUE, indexes |-> <<>>], parts, 0)
<1>1. 1..0 = {} /\ <<>> \in Seq(Int) /\ DOMAIN <<>> = {}
  BY EmptySeq
<1>2. IsInjective(<<>>) /\ Range(<<>>) = {}
  BY <1>1, Zenon DEF IsInjective, Range
<1>3. Good(parts, 0) /\ Covered(parts, 0) = {}
  BY <1>1 DEF Good, Covered
<1>4. QED
  <2> DEFINE acc == [ok |-> TRUE, indexes |-> <<>>]
  <2>1. acc \in Accs /\ acc.ok /\ acc.indexes = <<>>
    BY <1>1 DEF Accs
  <2> HIDE DEF acc
  <2>2. SoFar(acc, parts, 0)
    BY <1>2, <1>3, <2>1 DEF SoFar
  <2>3. QED
    BY <2>2 DEF acc

\* Two sequences one after the other.
LEMMA Joining ==
  ASSUME NEW s \in Seq(Int), NEW t \in Seq(Int)
  PROVE  /\ Range(s \o t) = Range(s) \cup Range(t)
         /\ IsInjective(s) /\ IsInjective(t) /\ Range(s) \cap Range(t) = {} => IsInjective(s \o t)
<1>1. PICK m \in Nat, n \in Nat :
        m = Len(s) /\ n = Len(t) /\ DOMAIN s = 1..m /\ DOMAIN t = 1..n
  BY LenProperties
<1>2. DOMAIN (s \o t) = 1..(m + n)
  BY <1>1, ConcatProperties, LenProperties
<1>3. \A i \in 1..(m + n) : (s \o t)[i] = IF i <= m THEN s[i] ELSE t[i - m]
  BY <1>1, ConcatProperties
<1>4. \A i \in 1..(m + n) : IF i <= m THEN i \in 1..m ELSE i - m \in 1..n
  BY <1>1
<1>5. \A i \in 1..(m + n) : (s \o t)[i] \in IF i <= m THEN Range(s) ELSE Range(t)
  BY <1>1, <1>3, <1>4 DEF Range
<1>6. \A i \in 1..m : i \in 1..(m + n) /\ (s \o t)[i] = s[i]
  <2>1. ASSUME NEW i \in 1..m PROVE i \in 1..(m + n) /\ i <= m
    BY <1>1
  <2>2. QED
    BY <1>3, <2>1
<1>7. \A i \in 1..n : m + i \in 1..(m + n) /\ (s \o t)[m + i] = t[i]
  <2>1. ASSUME NEW i \in 1..n PROVE m + i \in 1..(m + n) /\ ~(m + i <= m) /\ (m + i) - m = i
    BY <1>1
  <2>2. QED
    BY <1>3, <2>1
<1> DEFINE st == s \o t
<1> HIDE DEF st
<1>8. Range(st) = Range(s) \cup Range(t)
  <2>1. \A i \in DOMAIN s : i \in DOMAIN st /\ st[i] = s[i]
    BY <1>1, <1>2, <1>6 DEF st
  <2>2. \A i \in DOMAIN t : \E j \in DOMAIN st : st[j] = t[i]
    BY <1>1, <1>2, <1>7 DEF st
  <2>3. \A i \in DOMAIN st : st[i] \in Range(s) \cup Range(t)
    BY <1>2, <1>5 DEF st
  <2>4. QED
    BY <2>1, <2>2, <2>3 DEF Range
<1>9. ASSUME IsInjective(s), IsInjective(t), Range(s) \cap Range(t) = {} PROVE IsInjective(st)
  <2>1. ASSUME NEW i \in 1..(m + n), NEW j \in 1..(m + n), st[i] = st[j] PROVE i = j
    <3>1. (i <= m) <=> (j <= m)
      BY <1>4, <1>5, <1>9, <2>1 DEF st
    <3>2. CASE i <= m
      BY <1>1, <1>3, <1>4, <1>9, <2>1, <3>1, <3>2 DEF st, IsInjective
    <3>3. CASE ~(i <= m)
      <4>1. t[i - m] = t[j - m]
        BY <1>3, <2>1, <3>1, <3>3 DEF st
      <4>2. i - m \in DOMAIN t /\ j - m \in DOMAIN t
        BY <1>1, <1>4, <3>1, <3>3
      <4>3. i - m = j - m
        BY <1>9, <4>1, <4>2 DEF IsInjective
      <4>4. QED
        BY <1>1, <4>3
    <3>4. QED
      BY <3>2, <3>3
  <2>2. QED
    BY <1>2, <2>1 DEF st, IsInjective
<1>10. QED
  BY <1>8, <1>9 DEF st

\* One more part.
LEMMA SoFarContinues ==
  ASSUME total \in Nat, NEW parts \in Seq(Parts), NEW k \in 1..Len(parts), NEW acc,
         SoFar(acc, parts, k - 1)
  PROVE  SoFar(AddPart(acc, parts[k]), parts, k)
<1> DEFINE part == parts[k]
           next == AddPart(acc, part)
           takes == acc.ok /\ PartHolds(part) /\ Fresh(acc.indexes, part)
<1>1. part \in Parts /\ Len(parts) \in Nat
  BY ElementOfSeq, LenProperties
<1>2. acc \in Accs
  BY DEF SoFar
<1>3. 1..k = 1..(k - 1) \cup {k} /\ k \notin 1..(k - 1)
  BY <1>1
<1>4. Covered(parts, k) = Covered(parts, k - 1) \cup Interval(part)
  BY <1>3 DEF Covered
<1> HIDE DEF part
<1>5. ASSUME takes
      PROVE  /\ next = [ok |-> TRUE, indexes |-> acc.indexes \o PartIndexes(part)]
             /\ Good(parts, k) /\ SoFar(next, parts, k)
  <2>1. /\ PartIndexes(part) \in Seq(Int) /\ Range(PartIndexes(part)) = Interval(part)
        /\ IsInjective(PartIndexes(part))
    BY <1>1, <1>5, Visited
  <2>2. /\ Good(parts, k - 1) /\ IsInjective(acc.indexes)
        /\ Range(acc.indexes) = Covered(parts, k - 1) /\ acc.indexes \in Seq(Int)
    BY <1>2, <1>5 DEF SoFar, Accs
  <2>3. next = [ok |-> TRUE, indexes |-> acc.indexes \o PartIndexes(part)]
    BY <1>2, <1>5 DEF AddPart, Accs
  <2>4. Covered(parts, k - 1) \cap Interval(part) = {}
    BY <1>5, <2>1, <2>2 DEF Fresh
  <2>5. Good(parts, k)
    <3>1. ASSUME NEW i \in 1..k PROVE PartHolds(parts[i])
      BY <1>3, <1>5, <2>2 DEF Good, part
    <3>2. ASSUME NEW i \in 1..(k - 1) PROVE Interval(parts[i]) \cap Interval(parts[k]) = {}
      BY <2>4 DEF Covered, part
    <3>3. ASSUME NEW i \in 1..k, NEW j \in 1..k, i # j
          PROVE  Interval(parts[i]) \cap Interval(parts[j]) = {}
      BY <1>3, <2>2, <3>2, <3>3 DEF Good
    <3>4. QED
      BY <3>1, <3>3 DEF Good
  <2>6. /\ acc.indexes \o PartIndexes(part) \in Seq(Int)
        /\ IsInjective(acc.indexes \o PartIndexes(part))
        /\ Range(acc.indexes \o PartIndexes(part)) = Covered(parts, k)
    <3>1. acc.indexes \o PartIndexes(part) \in Seq(Int)
      BY <2>1, <2>2, ConcatProperties
    <3>2. Range(acc.indexes) \cap Range(PartIndexes(part)) = {}
      BY <2>1, <2>2, <2>4
    <3>3. QED
      BY <1>4, <2>1, <2>2, <3>1, <3>2, Joining
  <2>7. next \in Accs /\ next.ok /\ next.indexes = acc.indexes \o PartIndexes(part)
    BY <2>3, <2>6 DEF Accs
  <2> HIDE DEF next
  <2>8. SoFar(next, parts, k)
    BY <2>5, <2>6, <2>7 DEF SoFar
  <2>9. QED
    BY <2>3, <2>5, <2>8
<1>6. ASSUME ~takes PROVE SoFar(next, parts, k)
  <2>1. next = [acc EXCEPT !.ok = FALSE]
    BY <1>6 DEF AddPart
  <2>2. next \in Accs /\ ~next.ok
    BY <1>2, <2>1 DEF Accs
  <2> HIDE DEF next
  <2>3. ~Good(parts, k)
    <3> SUFFICES ASSUME Good(parts, k) PROVE FALSE
      OBVIOUS
    <3>1. Good(parts, k - 1) /\ PartHolds(part)
      BY <1>3 DEF Good, part
    <3>2. acc.ok /\ Range(acc.indexes) = Covered(parts, k - 1)
      BY <3>1 DEF SoFar
    <3>3. Range(PartIndexes(part)) = Interval(part)
      BY <1>1, <3>1, Visited
    <3>4. Range(acc.indexes) \cap Range(PartIndexes(part)) # {}
      BY <1>6, <3>1, <3>2 DEF Fresh
    <3>5. PICK i \in 1..(k - 1) : Interval(parts[i]) \cap Interval(part) # {}
      BY <3>2, <3>3, <3>4 DEF Covered
    <3>6. QED
      BY <1>3, <3>5 DEF Good, part
  <2>4. QED
    BY <2>2, <2>3 DEF SoFar
<1>7. SoFar(next, parts, k)
  <2> HIDE DEF takes, next
  <2>1. QED
    BY <1>5, <1>6
<1>8. QED
  BY <1>7 DEF part

\* What ParseIndexes returns: the indexes of a well-formed list in order.
Returned(returned, parts) ==
  /\ Good(parts, Len(parts)) =>
       \E indexes \in Seq(Int) :
         /\ returned = [ok |-> TRUE, indexes |-> indexes]
         /\ IsAscending(indexes) /\ IsInjective(indexes)
         /\ Range(indexes) = Covered(parts, Len(parts))
  /\ ~Good(parts, Len(parts)) => returned = Error

\* What ParseIndexes returns: the indexes of the parts, ascending, or an error.
LEMMA Parsed ==
  ASSUME total \in Nat, NEW parts \in Seq(Parts)
  PROVE  Returned(ParseIndexes(parts), parts)
<1> DEFINE n == Len(parts)
           start == [ok |-> TRUE, indexes |-> <<>>]
           step == [k \in 1..n |-> [acc \in Accs |-> AddPart(acc, parts[k])]]
           Body(h) == [k \in 0..n |-> IF k = 0 THEN start ELSE AddPart(h[k - 1], parts[k])]
           upTo == CHOOSE h : h = Body(h)
<1>1. n \in Nat /\ \A k \in 1..n : parts[k] \in Parts
  BY ElementOfSeq, LenProperties
<1>2. start \in Accs
  <2>1. <<>> \in Seq(Int)
    BY EmptySeq
  <2>2. QED
    BY <2>1 DEF Accs
<1>3. step \in [1..n -> [Accs -> Accs]]
  <2>1. ASSUME NEW k \in 1..n, NEW acc \in Accs PROVE AddPart(acc, parts[k]) \in Accs
    <3>1. CASE acc.ok /\ PartHolds(parts[k]) /\ Fresh(acc.indexes, parts[k])
      <4>1. PartIndexes(parts[k]) \in Seq(Int)
        BY <1>1, <3>1, Visited
      <4>2. acc.indexes \o PartIndexes(parts[k]) \in Seq(Int)
        BY <4>1, ConcatProperties DEF Accs
      <4>3. QED
        BY <3>1, <4>2 DEF AddPart, Accs
    <3>2. CASE ~(acc.ok /\ PartHolds(parts[k]) /\ Fresh(acc.indexes, parts[k]))
      BY <3>2 DEF AddPart, Accs
    <3>3. QED
      BY <3>1, <3>2
  <2> HIDE DEF n
  <2>2. QED
    BY <2>1
<1>4. PICK f : IsLoop(f, n, Accs, start, step)
  <2> HIDE DEF start, step, n
  <2>1. QED
    BY <1>1, <1>2, <1>3, LoopExists
<1> HIDE DEF start
<1>5. f \in [0..n -> Accs] /\ f[0] = start
  BY <1>4 DEF IsLoop
<1>6. ASSUME NEW k \in 1..n PROVE f[k] = AddPart(f[k - 1], parts[k])
  <2>1. k - 1 \in 0..n
    BY <1>1
  <2> HIDE DEF step
  <2>2. f[k - 1] \in Accs /\ f[k] = step[k][f[k - 1]]
    BY <1>4, <2>1 DEF IsLoop
  <2>3. QED
    BY <2>2 DEF step
<1>7. f = Body(f)
  <2>1. \A k \in 0..n : k # 0 => k \in 1..n
    BY <1>1
  <2> HIDE DEF n, step
  <2>2. \A k \in 0..n : f[k] = IF k = 0 THEN start ELSE AddPart(f[k - 1], parts[k])
    BY <1>5, <1>6, <2>1
  <2>3. QED
    BY <1>5, <2>2
<1>8. upTo = Body(upTo)
  <2> HIDE DEF Body
  <2>1. QED
    BY <1>7
<1>9. upTo[0] = start /\ \A k \in 1..n : upTo[k] = AddPart(upTo[k - 1], parts[k])
  <2> HIDE DEF upTo, n
  <2>1. \A k \in 0..n : upTo[k] = IF k = 0 THEN start ELSE AddPart(upTo[k - 1], parts[k])
    BY <1>8
  <2>2. (\A k \in 1..n : k \in 0..n /\ k # 0) /\ 0 \in 0..n
    BY <1>1
  <2>3. QED
    BY <2>1, <2>2
<1>10. ParseIndexes(parts) = IF upTo[n].ok THEN [ok |-> TRUE, indexes |-> Sorted(upTo[n].indexes)]
                                           ELSE Error
  BY DEF ParseIndexes, upTo, Body, n, start
<1> HIDE DEF upTo, Body, step
<1> DEFINE T == {k \in 0..n : SoFar(upTo[k], parts, k)}
<1>11. 0 \in T
  BY <1>1, <1>9, SoFarStarts DEF start
<1>12. ASSUME NEW k \in 1..n, k - 1 \in T PROVE k \in T
  <2>1. SoFar(upTo[k - 1], parts, k - 1)
    BY <1>12
  <2>2. SoFar(AddPart(upTo[k - 1], parts[k]), parts, k)
    BY <2>1, SoFarContinues
  <2>3. upTo[k] = AddPart(upTo[k - 1], parts[k]) /\ k \in 0..n
    BY <1>1, <1>9
  <2>4. QED
    BY <2>2, <2>3
<1> HIDE DEF n
<1>13. 0..n \subseteq T
  <2> HIDE DEF T
  <2>1. QED
    BY <1>1, <1>11, <1>12, LoopInduction
<1>14. PICK acc : acc = upTo[n] /\ SoFar(acc, parts, n)
  <2>1. n \in 0..n
    BY <1>1
  <2>2. QED
    BY <1>13, <2>1
<1>15. ASSUME Good(parts, n)
       PROVE  \E indexes \in Seq(Int) :
                /\ ParseIndexes(parts) = [ok |-> TRUE, indexes |-> indexes]
                /\ IsAscending(indexes) /\ IsInjective(indexes)
                /\ Range(indexes) = Covered(parts, n)
  <2>1. /\ acc.ok /\ acc.indexes \in Seq(Int) /\ IsInjective(acc.indexes)
        /\ Range(acc.indexes) = Covered(parts, n)
    BY <1>14, <1>15 DEF SoFar, Accs
  <2>2. ParseIndexes(parts) = [ok |-> TRUE, indexes |-> Sorted(acc.indexes)]
    BY <1>10, <1>14, <2>1
  <2>3. /\ Sorted(acc.indexes) \in Seq(Int) /\ Range(Sorted(acc.indexes)) = Covered(parts, n)
        /\ IsInjective(Sorted(acc.indexes)) /\ IsAscending(Sorted(acc.indexes))
    BY <2>1, SortedFacts
  <2>4. QED
    BY <2>2, <2>3
<1>16. ASSUME ~Good(parts, n) PROVE ParseIndexes(parts) = Error
  BY <1>10, <1>14, <1>16 DEF SoFar
<1>17. QED
  BY <1>15, <1>16 DEF Returned, n

\* Good and Covered, of all parts, are what the property is stated with.
LEMMA WellFormedIsGood ==
  ASSUME total \in Nat, NEW parts \in Seq(Parts)
  PROVE  /\ WellFormed(parts) <=> Good(parts, Len(parts))
         /\ UNION {Interval(parts[k]) : k \in DOMAIN parts} = Covered(parts, Len(parts))
<1>1. DOMAIN parts = 1..Len(parts) /\ \A k \in 1..Len(parts) : parts[k] \in Parts
  BY ElementOfSeq, LenProperties
<1>2. \A k \in 1..Len(parts) : PartHolds(parts[k]) <=> GoodPart(parts[k])
  BY <1>1, HoldsIfGood
<1>3. WellFormed(parts) <=>
        /\ \A k \in 1..Len(parts) : GoodPart(parts[k])
        /\ \A i, j \in 1..Len(parts) : i # j => Interval(parts[i]) \cap Interval(parts[j]) = {}
  BY <1>1 DEF WellFormed, GoodPart
<1>4. WellFormed(parts) <=> Good(parts, Len(parts))
  BY <1>2, <1>3 DEF Good
<1>5. QED
  BY <1>1, <1>4 DEF Covered

-----------------------------------------------------------------------------
(* How Kubernetes writes a set of indexes. *)

\* The elements of a finite set in some order, each once.
LEMMA Listing ==
  ASSUME NEW S, IsFiniteSet(S)
  PROVE  /\ SetToSeq(S) \in Seq(S) /\ IsInjective(SetToSeq(S))
         /\ Range(SetToSeq(S)) = S
<1> DEFINE n == Cardinality(S)
<1>1. n \in Nat /\ ExistsBijection(1..n, S)
  BY FS_CardinalityType
<1> HIDE DEF n
<1>2. PICK f : f \in Bijection(1..n, S)
  BY <1>1 DEF ExistsBijection
<1>3. f \in [1..n -> S] /\ IsInjective(f)
  BY <1>2 DEF Bijection, Injection
<1>4. SetToSeq(S) = CHOOSE g \in [1..n -> S] : IsInjective(g)
  BY DEF SetToSeq, n
<1>5. SetToSeq(S) \in [1..n -> S] /\ IsInjective(SetToSeq(S))
  BY <1>3, <1>4
<1>6. SetToSeq(S) \in Injection(1..n, S)
  BY <1>5 DEF Injection
<1>7. IsFiniteSet(1..n) /\ Cardinality(1..n) = n
  BY <1>1, FS_Interval
<1>8. SetToSeq(S) \in Surjection(1..n, S)
  BY <1>6, <1>7, FS_Injection DEF n
<1>9. Range(SetToSeq(S)) = S
  BY <1>5, <1>8 DEF Surjection, Range
<1>10. QED
  BY <1>1, <1>5, <1>9, SeqDef

\* From every element an interval goes on to its end ...
LEMMA Ends ==
  ASSUME NEW n \in Nat, NEW set \in SUBSET (0..(n - 1)), NEW i \in set
  PROVE  /\ IntervalEnd(i, set) \in set /\ IntervalEnd(i, set) >= i
         /\ i..IntervalEnd(i, set) \subseteq set /\ IntervalEnd(i, set) + 1 \notin set
<1> DEFINE Stops == {j \in Nat : j >= i /\ j + 1 \notin set}
<1>1. n \in Stops
  OBVIOUS
<1>2. PICK j \in Stops : \A m \in Stops : j <= m
  BY <1>1, LeastNumber
<1>3. i \in Nat /\ j \in Nat /\ j >= i /\ j + 1 \notin set
  BY <1>2
<1>4. ASSUME NEW m \in i..j PROVE m \in set
  <2> SUFFICES ASSUME m \notin set PROVE FALSE
    OBVIOUS
  <2>1. m # i /\ m \in Nat /\ i <= m /\ m <= j
    BY <1>3
  <2>2. m - 1 \in Nat /\ m - 1 >= i /\ (m - 1) + 1 = m /\ ~(j <= m - 1)
    BY <1>3, <2>1
  <2>3. m - 1 \in Stops
    BY <2>2
  <2>4. QED
    BY <1>2, <2>2, <2>3
<1>5. j \in set /\ i..j \subseteq set
  BY <1>3, <1>4
<1>6. \E e \in set : e >= i /\ i..e \subseteq set /\ e + 1 \notin set
  BY <1>3, <1>5
<1>7. QED
  BY <1>6 DEF IntervalEnd

\* ... and back to its start.
LEMMA Starts ==
  ASSUME NEW n \in Nat, NEW set \in SUBSET (0..(n - 1)), NEW x \in set
  PROVE  \E i \in set : i <= x /\ i..x \subseteq set /\ i - 1 \notin set
<1> DEFINE Before == {i \in Nat : i <= x /\ i..x \subseteq set}
<1>1. x \in Before
  OBVIOUS
<1>2. PICK i \in Before : \A m \in Before : i <= m
  BY <1>1, LeastNumber
<1>3. i \in Nat /\ i <= x /\ i..x \subseteq set /\ i \in set
  BY <1>2
<1>4. ASSUME i - 1 \in set PROVE FALSE
  <2>1. i - 1 \in Nat /\ i - 1 <= x /\ (i - 1)..x = {i - 1} \cup i..x
    BY <1>3, <1>4
  <2>2. i - 1 \in Before /\ ~(i <= i - 1)
    BY <1>3, <1>4, <2>1
  <2>3. QED
    BY <1>2, <2>2
<1>5. QED
  BY <1>3, <1>4

\* The part that begins with i.
PartFrom(i, set) == IF {i + 1, i + 2} \subseteq set THEN <<i, IntervalEnd(i, set)>> ELSE <<i>>

\* The parts of what Kubernetes writes, by the index they begin with.
LEMMA PartsWritten ==
  ASSUME total \in Nat, NEW set \in SUBSET Indices, NEW i \in set, Begins(i, set)
  PROVE  /\ PartFrom(i, set) \in Parts /\ PartHolds(PartFrom(i, set))
         /\ Interval(PartFrom(i, set)) = IF {i + 1, i + 2} \subseteq set
                                         THEN i..IntervalEnd(i, set) ELSE {i}
         /\ Interval(PartFrom(i, set)) \subseteq set
<1>1. i \in 0..(total - 1)
  BY DEF Indices
<1>2. CASE {i + 1, i + 2} \subseteq set
  <2>1. PICK end \in 0..(total - 1) : end = IntervalEnd(i, set) /\ end >= i /\ i..end \subseteq set
    BY Ends DEF Indices
  <2>2. PartFrom(i, set) = <<i, end>>
    BY <1>2, <2>1 DEF PartFrom
  <2>3. /\ <<i, end>> \in Seq(Int) /\ <<i, end>> # <<>> /\ Len(<<i, end>>) = 2
        /\ <<i, end>>[1] = i /\ <<i, end>>[2] = end
    BY <1>1, <2>1
  <2>4. PartFrom(i, set) \in Parts
    BY <2>2, <2>3 DEF Parts
  <2>5. PartHolds(PartFrom(i, set))
    BY <1>1, <2>1, <2>2, <2>3 DEF PartHolds, Indices, Last
  <2>6. Interval(PartFrom(i, set)) = i..end
    BY <1>1, <2>1, <2>2, <2>3 DEF Interval, Indices
  <2>7. QED
    BY <1>2, <2>1, <2>4, <2>5, <2>6
<1>3. CASE ~({i + 1, i + 2} \subseteq set)
  <2>1. PartFrom(i, set) = <<i>>
    BY <1>3 DEF PartFrom
  <2>2. <<i>> \in Seq(Int) /\ <<i>> # <<>> /\ Len(<<i>>) = 1 /\ <<i>>[1] = i
    BY <1>1
  <2>3. PartFrom(i, set) \in Parts
    BY <2>1, <2>2 DEF Parts
  <2>4. PartHolds(PartFrom(i, set))
    BY <1>1, <2>1, <2>2 DEF PartHolds, Indices, Last
  <2>5. Interval(PartFrom(i, set)) = {i}
    BY <1>1, <2>1, <2>2 DEF Interval, Indices
  <2>6. QED
    BY <1>3, <2>3, <2>4, <2>5
<1>4. QED
  BY <1>2, <1>3

\* No two of them share an index.
LEMMA PartsApart ==
  ASSUME total \in Nat, NEW set \in SUBSET Indices, NEW i \in set, NEW j \in set,
         Begins(i, set), Begins(j, set), i < j
  PROVE  Interval(PartFrom(i, set)) \cap Interval(PartFrom(j, set)) = {}
<1>1. set \subseteq 0..(total - 1) /\ i \in Nat /\ j \in Nat
  BY DEF Indices
<1>2. \A x \in Interval(PartFrom(j, set)) : x >= j
  <2>1. CASE {j + 1, j + 2} \subseteq set
    <3>1. Interval(PartFrom(j, set)) = j..IntervalEnd(j, set) /\ IntervalEnd(j, set) \in set
      BY <2>1, PartsWritten, Ends DEF Indices
    <3>2. QED
      BY <1>1, <3>1
  <2>2. CASE ~({j + 1, j + 2} \subseteq set)
    <3>1. Interval(PartFrom(j, set)) = {j}
      BY <2>2, PartsWritten
    <3>2. QED
      BY <1>1, <3>1
  <2>3. QED
    BY <2>1, <2>2
<1>3. CASE {i + 1, i + 2} \subseteq set
  <2>1. PICK end \in set : end = IntervalEnd(i, set) /\ end >= i /\ i..end \subseteq set
    BY Ends DEF Indices
  <2>2. Interval(PartFrom(i, set)) = i..end
    BY <1>3, <2>1, PartsWritten
  <2>3. ASSUME j <= end PROVE FALSE
    <3>1. end \in Nat /\ j - 1 \in i..end
      BY <1>1, <2>3
    <3>2. j - 1 \in set
      BY <2>1, <3>1
    <3>3. j - 2 \notin set /\ j + 1 \notin set
      BY <3>2 DEF Begins
    <3>4. j - 2 \notin i..end
      BY <2>1, <3>3
    <3>5. j = i + 1
      BY <1>1, <3>1, <3>4
    <3>6. j + 1 = i + 2
      BY <1>1, <3>5
    <3>7. QED
      BY <1>3, <3>3, <3>6
  <2>4. end \in Nat
    BY <1>1
  <2>5. ASSUME NEW x \in Interval(PartFrom(i, set)), x \in Interval(PartFrom(j, set)) PROVE FALSE
    <3>1. x \in i..end /\ x >= j
      BY <1>2, <2>2, <2>5
    <3>2. QED
      BY <1>1, <2>3, <2>4, <3>1
  <2>6. QED
    BY <2>5
<1>4. CASE ~({i + 1, i + 2} \subseteq set)
  <2>1. Interval(PartFrom(i, set)) = {i}
    BY <1>4, PartsWritten
  <2>2. QED
    BY <1>1, <1>2, <2>1
<1>5. QED
  BY <1>3, <1>4

\* Every index of the set is in the part of its interval, or of itself.
LEMMA PartsCover ==
  ASSUME total \in Nat, NEW set \in SUBSET Indices, NEW x \in set
  PROVE  \E i \in set : Begins(i, set) /\ x \in Interval(PartFrom(i, set))
<1>1. set \subseteq 0..(total - 1) /\ x \in Nat
  BY DEF Indices
<1>2. PICK i \in set : i <= x /\ i..x \subseteq set /\ i - 1 \notin set
  BY Starts DEF Indices
<1>3. i \in Nat
  BY <1>1
<1>4. Begins(i, set)
  BY <1>2 DEF Begins
<1>5. CASE {i + 1, i + 2} \subseteq set
  <2>1. PICK end \in set : end = IntervalEnd(i, set) /\ end >= i /\ end + 1 \notin set
    BY Ends DEF Indices
  <2>2. end \in Nat
    BY <1>1
  <2>3. end + 1 \notin i..x
    BY <1>2, <2>1
  <2>4. x \in i..end
    BY <1>1, <1>2, <1>3, <2>1, <2>2, <2>3
  <2>5. Interval(PartFrom(i, set)) = i..end
    BY <1>4, <1>5, <2>1, PartsWritten
  <2>6. QED
    BY <1>4, <2>4, <2>5
<1>6. CASE x = i /\ ~({i + 1, i + 2} \subseteq set)
  <2>1. Interval(PartFrom(i, set)) = {i}
    BY <1>4, <1>6, PartsWritten
  <2>2. QED
    BY <1>4, <1>6, <2>1
<1>7. CASE x # i /\ ~({i + 1, i + 2} \subseteq set)
  <2>1. i + 1 \in i..x
    BY <1>1, <1>2, <1>3, <1>7
  <2>2. i + 1 \in set /\ i + 2 \notin set
    BY <1>2, <1>7, <2>1
  <2>3. i + 2 \notin i..x
    BY <1>2, <2>2
  <2>4. x = i + 1
    BY <1>1, <1>2, <1>3, <1>7, <2>3
  <2>5. x - 2 = i - 1 /\ x + 1 = i + 2
    BY <1>3, <2>4
  <2>6. Begins(x, set)
    BY <1>2, <2>2, <2>5 DEF Begins
  <2>7. Interval(PartFrom(x, set)) = {x}
    BY <2>2, <2>5, <2>6, PartsWritten
  <2>8. QED
    BY <2>6, <2>7
<1>8. QED
  BY <1>5, <1>6, <1>7

\* Written and read again, a set stays what it is.
LEMMA CompactReads ==
  ASSUME total \in Nat, NEW set \in SUBSET Indices
  PROVE  /\ Compact(set) \in Seq(Parts)
         /\ Good(Compact(set), Len(Compact(set)))
         /\ Covered(Compact(set), Len(Compact(set))) = set
<1> DEFINE Begin == {i \in set : Begins(i, set)}
           firsts == Sorted(SetToSeq(Begin))
           parts == Compact(set)
<1>1. IsFiniteSet(Begin) /\ Begin \in SUBSET Int
  <2>1. Begin \in SUBSET (0..(total - 1)) /\ Begin \in SUBSET Int
    <3>1. \A i \in set : i \in 0..(total - 1) /\ i \in Int
      BY DEF Indices
    <3>2. QED
      BY <3>1
  <2>2. IsFiniteSet(0..(total - 1))
    BY FS_Interval
  <2> HIDE DEF Begin
  <2>3. QED
    BY <2>1, <2>2, FS_Subset
<1>2. /\ SetToSeq(Begin) \in Seq(Begin) /\ IsInjective(SetToSeq(Begin))
      /\ Range(SetToSeq(Begin)) = Begin
  <2> HIDE DEF Begin
  <2>1. QED
    BY <1>1, Listing
<1>3. /\ firsts \in Seq(Begin) /\ Range(firsts) = Begin
      /\ IsInjective(firsts) /\ IsAscending(firsts)
  <2> HIDE DEF Begin
  <2>1. QED
    BY <1>1, <1>2, SortedFacts
<1>4. parts = [k \in DOMAIN firsts |-> PartFrom(firsts[k], set)]
  BY DEF Compact, PartFrom
<1> HIDE DEF firsts, parts
<1>5. PICK n \in Nat : n = Len(firsts) /\ DOMAIN firsts = 1..n
  BY <1>3, LenProperties
<1>6. \A k \in 1..n : firsts[k] \in set /\ Begins(firsts[k], set)
  <2>1. \A k \in 1..n : firsts[k] \in Begin
    <3> HIDE DEF Begin
    <3>1. QED
      BY <1>3, <1>5, ElementOfSeq
  <2>2. QED
    BY <2>1
<1>7. \A k \in 1..n : /\ parts[k] = PartFrom(firsts[k], set)
                      /\ parts[k] \in Parts /\ PartHolds(parts[k])
                      /\ Interval(parts[k]) \subseteq set
  BY <1>4, <1>5, <1>6, PartsWritten
<1>8. parts \in Seq(Parts) /\ Len(parts) = n
  <2>1. parts \in [1..n -> Parts]
    BY <1>4, <1>5, <1>7
  <2>2. parts \in Seq(Parts)
    BY <2>1, SeqDef
  <2>3. DOMAIN parts = 1..Len(parts) /\ Len(parts) \in Nat
    BY <2>2, LenProperties
  <2>4. QED
    BY <2>1, <2>2, <2>3
<1>9. ASSUME NEW k \in 1..n, NEW l \in 1..n, k < l
      PROVE  Interval(parts[k]) \cap Interval(parts[l]) = {}
  <2>1. firsts[k] < firsts[l]
    BY <1>3, <1>5, <1>9 DEF IsAscending
  <2>2. QED
    BY <1>6, <1>7, <2>1, PartsApart
<1>10. ASSUME NEW k \in 1..n, NEW l \in 1..n, k # l
       PROVE  Interval(parts[k]) \cap Interval(parts[l]) = {}
  <2>1. k < l \/ l < k
    BY <1>10
  <2>2. QED
    BY <1>9, <2>1
<1>11. Good(parts, n)
  BY <1>7, <1>10 DEF Good
<1>12. Covered(parts, n) = set
  <2>1. ASSUME NEW x \in set PROVE x \in Covered(parts, n)
    <3>1. PICK i \in Begin : x \in Interval(PartFrom(i, set))
      BY PartsCover
    <3>2. \E k \in 1..n : firsts[k] = i
      BY <1>3, <1>5, <3>1 DEF Range
    <3>3. PICK k \in 1..n : parts[k] = PartFrom(i, set)
      BY <1>7, <3>2
    <3>4. QED
      BY <3>1, <3>3 DEF Covered
  <2>2. Covered(parts, n) \subseteq set
    BY <1>7 DEF Covered
  <2>3. QED
    BY <2>1, <2>2
<1>13. QED
  BY <1>8, <1>11, <1>12 DEF parts

-----------------------------------------------------------------------------
(* The outcome of a round. *)

\* A sequence without duplicates is as long as its set is large.
LEMMA HowMany ==
  ASSUME NEW s \in Seq(Int), IsInjective(s)
  PROVE  Len(s) = Cardinality(Range(s))
<1>1. PICK n \in Nat : n = Len(s) /\ s \in [1..n -> Int] /\ DOMAIN s = 1..n
  BY LenProperties
<1>2. s \in Surjection(1..n, Range(s)) /\ s \in [1..n -> Range(s)]
  BY <1>1 DEF Surjection, Range
<1>3. s \in Injection(1..n, Range(s))
  BY <1>2 DEF Injection
<1>4. ExistsBijection(1..n, Range(s))
  BY <1>2, <1>3 DEF ExistsBijection, Bijection
<1>5. QED
  BY <1>1, <1>4, FS_CountingElements

\* What a status with completed indexes C and failed indexes F comes to.
Split(C, F) ==
  [ok |-> TRUE, completed |-> Cardinality(C), failed |-> F, unfinished |-> Indices \ (C \cup F)]

\* roundOutcome of two lists that were read.
LEMMA OutcomeIsSplit ==
  ASSUME total \in Nat, NEW c \in Seq(Parts), NEW f \in Seq(Parts), NEW C, NEW F,
         C = Covered(c, Len(c)), F = Covered(f, Len(f))
  PROVE  IF Good(c, Len(c)) /\ Good(f, Len(f)) /\ C \cap F = {}
         THEN RoundOutcome(c, f) = Split(C, F)
         ELSE RoundOutcome(c, f) = Error
<1>1. ~Error.ok
  BY DEF Error
<1>2. CASE ~Good(c, Len(c)) \/ ~Good(f, Len(f))
  <2>1. ParseIndexes(c) = Error \/ ParseIndexes(f) = Error
    BY <1>2, Parsed DEF Returned
  <2>2. QED
    BY <1>1, <1>2, <2>1 DEF RoundOutcome
<1>3. CASE Good(c, Len(c)) /\ Good(f, Len(f))
  <2>1. PICK s \in Seq(Int) :
          /\ ParseIndexes(c) = [ok |-> TRUE, indexes |-> s] /\ IsInjective(s) /\ Range(s) = C
    BY <1>3, Parsed DEF Returned
  <2>2. PICK t \in Seq(Int) :
          ParseIndexes(f) = [ok |-> TRUE, indexes |-> t] /\ Range(t) = F
    BY <1>3, Parsed DEF Returned
  <2>3. Len(s) = Cardinality(C)
    BY <2>1, HowMany
  <2>4. PICK completed, failed :
          /\ completed = ParseIndexes(c) /\ completed.ok /\ completed.indexes = s
          /\ failed = ParseIndexes(f) /\ failed.ok /\ failed.indexes = t
    BY <2>1, <2>2
  <2>5. RoundOutcome(c, f) = IF C \cap F # {} THEN Error ELSE Split(C, F)
    BY <2>1, <2>2, <2>3, <2>4 DEF RoundOutcome, Overlap, Split
  <2>6. QED
    BY <1>3, <2>5
<1>4. QED
  BY <1>2, <1>3

\* Every repository is counted once.
LEMMA SplitCounts ==
  ASSUME total \in Nat, NEW C \in SUBSET Indices, NEW F \in SUBSET Indices, C \cap F = {}
  PROVE  Cardinality(C) + Cardinality(F) + Cardinality(Indices \ (C \cup F)) = total
<1>1. IsFiniteSet(Indices) /\ Cardinality(Indices) = total
  BY FS_Interval DEF Indices
<1>2. IsFiniteSet(C) /\ IsFiniteSet(F)
  BY <1>1, FS_Subset
<1>3. Cardinality(C) \in Nat /\ Cardinality(F) \in Nat
  BY <1>2, FS_CardinalityType
<1>4. Cardinality(C \cup F) = Cardinality(C) + Cardinality(F) - Cardinality({})
  BY <1>2, FS_Union
<1>5. Cardinality({}) = 0
  BY FS_EmptySet
<1>6. Indices \cap (C \cup F) = C \cup F
  OBVIOUS
<1>7. Cardinality(Indices \ (C \cup F)) = Cardinality(Indices) - Cardinality(Indices \cap (C \cup F))
  BY <1>1, FS_Difference
<1> DEFINE U == Indices \ (C \cup F)
<1>8. Cardinality(U) = total - (Cardinality(C) + Cardinality(F) - 0)
  BY <1>1, <1>4, <1>5, <1>6, <1>7
<1>9. PICK m \in Nat, n \in Nat : m = Cardinality(C) /\ n = Cardinality(F)
  BY <1>3
<1> HIDE DEF U
<1>10. Cardinality(U) = total - (m + n)
  BY <1>8, <1>9
<1>11. Cardinality(C) + Cardinality(F) + Cardinality(U) = total
  BY <1>9, <1>10
<1>12. QED
  BY <1>11 DEF U

\* Parts only stand for indexes of the round.
LEMMA CoveredInside ==
  ASSUME NEW parts, NEW k
  PROVE  Covered(parts, k) \in SUBSET Indices
BY DEF Covered, Interval

-----------------------------------------------------------------------------
(* The properties. *)

IndexesInv ==
  /\ total \in Nat
  /\ text \in Seq(Parts)
  /\ pods \in [Indices -> {"completed", "failed", "other"}]
  /\ ParsesExactly
  /\ OutcomeExact

\* Parsing establishes ParsesExactly.
LEMMA ParseExact ==
  ASSUME total \in Nat, text \in Seq(Parts), parsed' = ParseIndexes(text),
         UNCHANGED <<total, text>>
  PROVE  ParsesExactly'
<1>1. WellFormed(text)' = WellFormed(text)
  BY DEF WellFormed, Interval, Indices
<1>2. (UNION {Interval(text[k]) : k \in DOMAIN text})' = UNION {Interval(text[k]) : k \in DOMAIN text}
  BY DEF Interval, Indices
<1>3. /\ WellFormed(text) <=> Good(text, Len(text))
      /\ UNION {Interval(text[k]) : k \in DOMAIN text} = Covered(text, Len(text))
  BY WellFormedIsGood
<1>4. CASE Good(text, Len(text))
  <2>1. PICK s \in Seq(Int) :
          parsed' = [ok |-> TRUE, indexes |-> s] /\ IsAscending(s) /\ Range(s) = Covered(text, Len(text))
    BY <1>4, Parsed DEF Returned
  <2>2. parsed'.ok /\ parsed'.indexes = s
    BY <2>1
  <2>3. QED
    BY <1>1, <1>2, <1>3, <1>4, <2>1, <2>2 DEF ParsesExactly
<1>5. CASE ~Good(text, Len(text))
  <2>1. ~parsed'.ok
    BY <1>5, Parsed DEF Returned, Error
  <2>2. QED
    BY <1>1, <1>3, <1>5, <2>1 DEF ParsesExactly
<1>6. QED
  BY <1>4, <1>5

\* The Pods are those of the round.
LEMMA InsideRound == In("completed") \in SUBSET Indices /\ In("failed") \in SUBSET Indices
BY DEF In

\* A status as Kubernetes writes it is understood.
LEMMA StatusUnderstood ==
  ASSUME total \in Nat, pods \in [Indices -> {"completed", "failed", "other"}]
  PROVE  RoundOutcome(Compact(In("completed")), Compact(In("failed"))) =
           [ok         |-> TRUE,
            completed  |-> Cardinality(In("completed")),
            failed     |-> In("failed"),
            unfinished |-> In("other")]
<1> DEFINE C == In("completed")
           F == In("failed")
           c == Compact(C)
           f == Compact(F)
<1>1. C \in SUBSET Indices /\ F \in SUBSET Indices
  BY InsideRound
<1>2. C \cap F = {} /\ Indices \ (C \cup F) = In("other")
  BY DEF In
<1> HIDE DEF C, F
<1>3. c \in Seq(Parts) /\ Good(c, Len(c)) /\ Covered(c, Len(c)) = C
  BY <1>1, CompactReads
<1>4. f \in Seq(Parts) /\ Good(f, Len(f)) /\ Covered(f, Len(f)) = F
  BY <1>1, CompactReads
<1> HIDE DEF c, f
<1>5. RoundOutcome(c, f) = Split(C, F)
  BY <1>2, <1>3, <1>4, OutcomeIsSplit
<1>6. QED
  BY <1>2, <1>5 DEF Split, c, f, C, F

\* Whatever the failed indexes are said to be, an outcome counts every repository once.
LEMMA BrokenCounted ==
  ASSUME total \in Nat, text \in Seq(Parts), NEW outcome,
         outcome = RoundOutcome(Compact(In("completed")), text), outcome.ok
  PROVE  outcome.completed + Cardinality(outcome.failed) + Cardinality(outcome.unfinished) = total
<1> DEFINE C == In("completed")
           c == Compact(C)
           F == Covered(text, Len(text))
<1>1. C \in SUBSET Indices /\ F \in SUBSET Indices
  BY InsideRound, CoveredInside
<1> HIDE DEF C, F
<1>2. c \in Seq(Parts) /\ Good(c, Len(c)) /\ Covered(c, Len(c)) = C
  BY <1>1, CompactReads
<1> HIDE DEF c
<1>3. IF Good(c, Len(c)) /\ Good(text, Len(text)) /\ C \cap F = {}
      THEN RoundOutcome(c, text) = Split(C, F)
      ELSE RoundOutcome(c, text) = Error
  BY <1>2, OutcomeIsSplit DEF F
<1>4. outcome # Error
  BY DEF Error
<1>5. C \cap F = {} /\ outcome = Split(C, F)
  BY <1>3, <1>4 DEF c, C
<1>6. Cardinality(C) + Cardinality(F) + Cardinality(Indices \ (C \cup F)) = total
  BY <1>1, <1>5, SplitCounts
<1>7. /\ outcome.completed = Cardinality(C) /\ outcome.failed = F
      /\ outcome.unfinished = Indices \ (C \cup F)
  BY <1>5 DEF Split
<1> HIDE DEF C, F
<1>8. QED
  BY <1>6, <1>7

\* The invariant holds in every reachable state.
LEMMA IndexesInvariant == Spec => []IndexesInv
<1>1. Init => IndexesInv
  <2> SUFFICES ASSUME Init PROVE IndexesInv
    OBVIOUS
  <2>1. total \in Nat /\ text \in Seq(Parts)
    BY IndexesAssumption DEF Init, Parts
  <2>2. QED
    BY <2>1 DEF Init, IndexesInv, ParsesExactly, OutcomeExact
<1>2. IndexesInv /\ [Next]_vars => IndexesInv'
  <2> SUFFICES ASSUME IndexesInv, [Next]_vars PROVE IndexesInv'
    OBVIOUS
  <2>1. total \in Nat /\ text \in Seq(Parts) /\ pods \in [Indices -> {"completed", "failed", "other"}]
    BY DEF IndexesInv
  <2>2. UNCHANGED <<total, pods, text>>
    BY DEF Next, Parse, SplitStatus, SplitBroken, vars
  <2>3. /\ (total \in Nat)' /\ (text \in Seq(Parts))'
        /\ (pods \in [Indices -> {"completed", "failed", "other"}])'
    BY <2>1, <2>2 DEF Indices
  <2>4. CASE Parse
    <3>1. ParsesExactly'
      BY <2>1, <2>2, <2>4, ParseExact DEF Parse
    <3>2. OutcomeExact'
      BY <2>4 DEF Parse, OutcomeExact
    <3>3. QED
      BY <2>3, <3>1, <3>2 DEF IndexesInv
  <2>5. CASE SplitStatus
    <3>1. ParsesExactly'
      BY <2>5 DEF SplitStatus, ParsesExactly
    <3>2. result' = [ok         |-> TRUE,
                     completed  |-> Cardinality(In("completed")),
                     failed     |-> In("failed"),
                     unfinished |-> In("other")]
      BY <2>1, <2>5, StatusUnderstood DEF SplitStatus
    <3>3. \A state : In(state)' = In(state)
      BY <2>2 DEF In, Indices
    <3>4. stage' = "split"
      BY <2>5 DEF SplitStatus
    <3>5. OutcomeExact'
      BY <3>2, <3>3, <3>4 DEF OutcomeExact
    <3>6. QED
      BY <2>3, <3>1, <3>5 DEF IndexesInv
  <2>6. CASE SplitBroken
    <3>1. ParsesExactly'
      BY <2>6 DEF SplitBroken, ParsesExactly
    <3>2. stage' = "broken" /\ total' = total
      BY <2>6 DEF SplitBroken
    <3>3. result'.ok =>
            result'.completed + Cardinality(result'.failed) + Cardinality(result'.unfinished) = total
      BY <2>1, <2>6, BrokenCounted DEF SplitBroken
    <3>4. OutcomeExact'
      BY <3>2, <3>3 DEF OutcomeExact
    <3>5. QED
      BY <2>3, <3>1, <3>4 DEF IndexesInv
  <2>7. CASE UNCHANGED vars
    <3>1. ParsesExactly' /\ OutcomeExact'
      BY <2>7 DEF IndexesInv, vars, ParsesExactly, OutcomeExact, WellFormed, Interval, Indices, In
    <3>2. QED
      BY <2>3, <3>1 DEF IndexesInv
  <2>8. QED
    BY <2>4, <2>5, <2>6, <2>7 DEF Next
<1>3. QED
  BY <1>1, <1>2, PTL DEF Spec

\* ParseIndexes accepts exactly the well-formed lists, of any length and for any
\* number of repositories, and returns their indexes in order, each once.
THEOREM ListsParsedExactly == Spec => []ParsesExactly
<1>1. IndexesInv => ParsesExactly
  BY DEF IndexesInv
<1>2. QED
  BY <1>1, IndexesInvariant, PTL

\* roundOutcome understands whatever Kubernetes writes about the Pods of a Job,
\* and counts every repository once whatever a status says.
THEOREM OutcomeUnderstood == Spec => []OutcomeExact
<1>1. IndexesInv => OutcomeExact
  BY DEF IndexesInv
<1>2. QED
  BY <1>1, IndexesInvariant, PTL
=============================================================================
