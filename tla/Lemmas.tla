------------------------------- MODULE Lemmas -------------------------------
(***************************************************************************)
(* What several proofs need: loops and sorting.                            *)
(*                                                                         *)
(* Induction over numbers, in a form the provers can use: the induction    *)
(* theorems of the library take an operator as a parameter, which is       *)
(* replaced here by a set.  They follow from the least element of a set of *)
(* numbers, which WellFoundedInduction has for any well-founded relation.  *)
(*                                                                         *)
(* A loop over a sequence is modelled as a recursive function on 0..n, the *)
(* value after i passes at i.                                              *)
(***************************************************************************)
EXTENDS Sorting, SequenceTheorems, FiniteSetTheorems, WellFoundedInduction, TLAPS

\* A set of numbers has a least one.
LEMMA LeastNumber ==
  ASSUME NEW T \in SUBSET Nat, T # {}
  PROVE  \E n \in T : \A m \in T : n <= m
<1> DEFINE R == OpToRel(<, Nat)
<1>1. IsWellFoundedOn(R, Nat)
  BY NatLessThanWellFounded
<1>2. R = {pair \in Nat \X Nat : pair[1] < pair[2]}
  BY DEF OpToRel
<1> HIDE DEF R
<1>3. PICK n \in T : \A m \in T : <<m, n>> \notin R
  BY <1>1, WFMin
<1>4. \A k, m \in Nat : k < m => <<k, m>> \in R
  BY <1>2
<1>5. ASSUME NEW m \in T PROVE n <= m
  <2>1. ~(m < n)
    BY <1>3, <1>4
  <2>2. QED
    BY <2>1
<1>6. QED
  BY <1>5

\* What holds before a loop and is kept by every pass holds throughout.
LEMMA LoopInduction ==
  ASSUME NEW n \in Nat, NEW T, 0 \in T, \A i \in 1..n : i - 1 \in T => i \in T
  PROVE  0..n \subseteq T
<1> DEFINE Out == (0..n) \ T
<1> SUFFICES ASSUME Out # {} PROVE FALSE
  OBVIOUS
<1>1. Out \in SUBSET Nat
  OBVIOUS
<1>2. PICK i \in Out : \A m \in Out : i <= m
  BY <1>1, LeastNumber
<1>3. i \in 1..n /\ i - 1 \in 0..n
  BY <1>2
<1>4. i - 1 \notin Out
  BY <1>2, <1>3
<1>5. QED
  BY <1>2, <1>3, <1>4

\* The values of a loop: f has the one after each pass.
IsLoop(f, n, S, base, step) ==
  /\ f \in [0..n -> S]
  /\ f[0] = base
  /\ \A i \in 1..n : f[i] = step[i][f[i - 1]]

\* A loop has a value after each pass: its recursive definition defines something.
LEMMA LoopExists ==
  ASSUME NEW n \in Nat, NEW S, NEW base \in S, NEW step \in [1..n -> [S -> S]]
  PROVE  \E f : IsLoop(f, n, S, base, step)
<1> DEFINE Done(m, f) == f[0] = base /\ \A i \in 1..m : f[i] = step[i][f[i - 1]]
           T == {m \in 0..n : \E f \in [0..m -> S] : Done(m, f)}
<1>1. 0 \in T
  <2>1. [i \in 0..0 |-> base] \in [0..0 -> S] /\ Done(0, [i \in 0..0 |-> base])
    OBVIOUS
  <2>2. \E f \in [0..0 -> S] : Done(0, f)
    <3> HIDE DEF Done
    <3>1. QED
      BY <2>1
  <2>3. QED
    BY <2>2
<1>2. ASSUME NEW m \in 1..n, m - 1 \in T PROVE m \in T
  <2>1. PICK f \in [0..(m - 1) -> S] : Done(m - 1, f)
    BY <1>2
  <2> DEFINE g == [i \in 0..m |-> IF i = m THEN step[m][f[m - 1]] ELSE f[i]]
  <2>2. f[m - 1] \in S /\ step[m][f[m - 1]] \in S
    OBVIOUS
  <2>3. g \in [0..m -> S]
    BY <2>2
  <2>4. Done(m, g)
    BY <2>1
  <2>5. \E h \in [0..m -> S] : Done(m, h)
    <3> HIDE DEF Done, g
    <3>1. QED
      BY <2>3, <2>4
  <2>6. QED
    <3> HIDE DEF Done, g
    <3>1. QED
      BY <2>5
<1>3. 0..n \subseteq T
  <2> HIDE DEF T
  <2>1. QED
    BY <1>1, <1>2, LoopInduction
<1>4. PICK f \in [0..n -> S] : Done(n, f)
  BY <1>3
<1>5. IsLoop(f, n, S, base, step)
  BY <1>4 DEF IsLoop
<1>6. QED
  BY <1>5

-----------------------------------------------------------------------------
(* What sorting does. *)

\* i comes before j, or is j.
Upto(keys, j) ==
  {i \in DOMAIN keys : keys[i] < keys[j] \/ (keys[i] = keys[j] /\ i <= j)}

\* Every element has a place of its own, and every place an element.
LEMMA Places ==
  ASSUME NEW n \in Nat, NEW keys \in [1..n -> Int]
  PROVE  /\ \A i \in 1..n : Place(keys, i) \in 1..n
         /\ \A i, j \in 1..n : (keys[i] < keys[j] \/ (keys[i] = keys[j] /\ i < j))
                                 => Place(keys, i) < Place(keys, j)
         /\ \A k \in 1..n : \E i \in 1..n : Place(keys, i) = k
<1>1. /\ IsFiniteSet(1..n) /\ Cardinality(1..n) = n
  BY FS_Interval
<1>2. ASSUME NEW i \in 1..n
      PROVE  /\ Upto(keys, i) \in SUBSET (1..n) /\ IsFiniteSet(Upto(keys, i))
             /\ Place(keys, i) = Cardinality(Upto(keys, i)) /\ Place(keys, i) \in 1..n
  <2>1. Upto(keys, i) \in SUBSET (1..n) /\ i \in Upto(keys, i)
    BY DEF Upto
  <2>2. Place(keys, i) = Cardinality(Upto(keys, i))
    BY DEF Place, Upto
  <2>3. IsFiniteSet(Upto(keys, i)) /\ Cardinality(Upto(keys, i)) <= n
    BY <1>1, <2>1, FS_Subset
  <2>4. Cardinality(Upto(keys, i)) \in Nat /\ Cardinality(Upto(keys, i)) # 0
    BY <2>1, <2>3, FS_CardinalityType, FS_EmptySet
  <2>5. QED
    BY <2>1, <2>2, <2>3, <2>4
<1>3. ASSUME NEW i \in 1..n, NEW j \in 1..n, keys[i] < keys[j] \/ (keys[i] = keys[j] /\ i < j)
      PROVE  Place(keys, i) < Place(keys, j)
  <2>1. keys[i] \in Int /\ keys[j] \in Int /\ \A k \in 1..n : keys[k] \in Int
    OBVIOUS
  <2>2. Upto(keys, i) \in SUBSET Upto(keys, j) /\ j \in Upto(keys, j) /\ j \notin Upto(keys, i)
    BY <1>3, <2>1 DEF Upto
  <2>3. Cardinality(Upto(keys, i)) <= Cardinality(Upto(keys, j))
    BY <1>2, <2>2, FS_Subset
  <2>4. Cardinality(Upto(keys, i)) # Cardinality(Upto(keys, j))
    BY <1>2, <2>2, FS_Subset
  <2>5. QED
    BY <1>2, <2>3, <2>4
<1> DEFINE place == [i \in 1..n |-> Place(keys, i)]
<1>4. place \in [1..n -> 1..n]
  BY <1>2
<1>5. ASSUME NEW i \in 1..n, NEW j \in 1..n, place[i] = place[j] PROVE i = j
  <2>1. Place(keys, i) = Place(keys, j) /\ Place(keys, i) \in Nat
    BY <1>2, <1>5
  <2>2. ~(Place(keys, i) < Place(keys, j)) /\ ~(Place(keys, j) < Place(keys, i))
    BY <2>1
  <2>3. keys[i] \in Int /\ keys[j] \in Int
    OBVIOUS
  <2>4. QED
    BY <1>3, <2>2, <2>3
<1>6. place \in Injection(1..n, 1..n)
  <2> HIDE DEF place
  <2>1. QED
    BY <1>4, <1>5 DEF Injection, IsInjective
<1>7. place \in Surjection(1..n, 1..n)
  <2> HIDE DEF place
  <2>1. QED
    BY <1>1, <1>6, FS_Injection
<1>8. ASSUME NEW k \in 1..n PROVE \E i \in 1..n : Place(keys, i) = k
  <2>1. \E i \in 1..n : place[i] = k
    <3> HIDE DEF place
    <3>1. QED
      BY <1>7 DEF Surjection
  <2>2. QED
    BY <2>1
<1>9. QED
  BY <1>2, <1>3, <1>8

LEMMA OrderFacts ==
  ASSUME NEW n \in Nat, NEW keys \in [1..n -> Int]
  PROVE  /\ Order(keys) \in [1..n -> 1..n]
         /\ \A k \in 1..n : Place(keys, Order(keys)[k]) = k
         /\ \A i \in 1..n : \E k \in 1..n : Order(keys)[k] = i
         /\ \A k, l \in 1..n : k < l => /\ Order(keys)[k] # Order(keys)[l]
                                        /\ keys[Order(keys)[k]] <= keys[Order(keys)[l]]
<1>1. ASSUME NEW k \in 1..n
      PROVE  Order(keys)[k] \in 1..n /\ Place(keys, Order(keys)[k]) = k
  <2>1. Order(keys)[k] = CHOOSE i \in 1..n : Place(keys, i) = k
    BY DEF Order
  <2>2. \E i \in 1..n : Place(keys, i) = k
    BY Places
  <2>3. QED
    BY <2>1, <2>2
<1>2. Order(keys) \in [1..n -> 1..n]
  BY <1>1 DEF Order
<1>3. \A i, j \in 1..n : Place(keys, i) = Place(keys, j) => i = j
  <2>1. ASSUME NEW i \in 1..n, NEW j \in 1..n, Place(keys, i) = Place(keys, j) PROVE i = j
    <3>1. Place(keys, i) \in Nat /\ keys[i] \in Int /\ keys[j] \in Int
      <4>1. Place(keys, i) \in 1..n
        BY Places
      <4>2. QED
        BY <4>1
    <3>2. keys[i] < keys[j] \/ (keys[i] = keys[j] /\ i < j) => Place(keys, i) < Place(keys, j)
      BY Places
    <3>3. keys[j] < keys[i] \/ (keys[j] = keys[i] /\ j < i) => Place(keys, j) < Place(keys, i)
      BY Places
    <3>4. QED
      BY <2>1, <3>1, <3>2, <3>3
  <2>2. QED
    BY <2>1
<1>4. ASSUME NEW i \in 1..n PROVE \E k \in 1..n : Order(keys)[k] = i
  <2>1. Place(keys, i) \in 1..n
    BY Places
  <2>2. QED
    BY <1>1, <1>3, <2>1
<1>5. ASSUME NEW k \in 1..n, NEW l \in 1..n, k < l
      PROVE  Order(keys)[k] # Order(keys)[l] /\ keys[Order(keys)[k]] <= keys[Order(keys)[l]]
  <2> DEFINE i == Order(keys)[k]
             j == Order(keys)[l]
  <2>1. i \in 1..n /\ j \in 1..n /\ Place(keys, i) = k /\ Place(keys, j) = l
    BY <1>1
  <2>2. keys[i] \in Int /\ keys[j] \in Int
    BY <2>1
  <2> HIDE DEF i, j
  <2>3. ASSUME keys[j] < keys[i] PROVE FALSE
    <3>1. Place(keys, j) < Place(keys, i)
      BY <2>1, <2>3, Places
    <3>2. QED
      BY <1>5, <2>1, <3>1
  <2>4. i # j
    BY <1>5, <2>1
  <2>5. i # j /\ keys[i] <= keys[j]
    BY <2>2, <2>3, <2>4
  <2>6. QED
    BY <2>5 DEF i, j
<1>6. QED
  BY <1>1, <1>2, <1>4, <1>5

\* A sorted list has the same elements, and ascends if none is in it twice.
LEMMA SortedFacts ==
  ASSUME NEW S \in SUBSET Int, NEW ids \in Seq(S)
  PROVE  /\ Sorted(ids) \in Seq(S)
         /\ Len(Sorted(ids)) = Len(ids)
         /\ Range(Sorted(ids)) = Range(ids)
         /\ IsInjective(Sorted(ids)) <=> IsInjective(ids)
         /\ IsInjective(ids) => IsAscending(Sorted(ids))
<1> DEFINE n == Len(ids)
<1>1. n \in Nat /\ DOMAIN ids = 1..n /\ ids \in [1..n -> S]
  BY LenProperties
<1>2. ids \in [1..n -> Int]
  BY <1>1
<1>3. /\ Order(ids) \in [1..n -> 1..n]
      /\ \A i \in 1..n : \E k \in 1..n : Order(ids)[k] = i
      /\ \A k, l \in 1..n : k < l => /\ Order(ids)[k] # Order(ids)[l]
                                     /\ ids[Order(ids)[k]] <= ids[Order(ids)[l]]
  <2> HIDE DEF n
  <2>1. QED
    BY <1>1, <1>2, OrderFacts
<1>4. Sorted(ids) = [k \in 1..n |-> ids[Order(ids)[k]]]
  BY <1>1 DEF Sorted
<1> HIDE DEF n
<1>5. Sorted(ids) \in [1..n -> S]
  BY <1>1, <1>3, <1>4
<1>6. Sorted(ids) \in Seq(S) /\ Len(Sorted(ids)) = n
  <2>1. Sorted(ids) \in Seq(S)
    BY <1>1, <1>5, SeqDef
  <2>2. DOMAIN Sorted(ids) = 1..Len(Sorted(ids)) /\ Len(Sorted(ids)) \in Nat
    BY <2>1, LenProperties
  <2>3. QED
    BY <1>1, <1>5, <2>1, <2>2
<1>7. Range(Sorted(ids)) = Range(ids)
  <2>1. ASSUME NEW k \in 1..n PROVE Sorted(ids)[k] \in Range(ids)
    BY <1>1, <1>3, <1>4 DEF Range
  <2>2. ASSUME NEW i \in 1..n PROVE ids[i] \in Range(Sorted(ids))
    <3>1. PICK k \in 1..n : Order(ids)[k] = i
      BY <1>3
    <3>2. Sorted(ids)[k] = ids[i] /\ k \in DOMAIN Sorted(ids)
      BY <1>4, <3>1
    <3>3. QED
      BY <3>2 DEF Range
  <2>3. Range(Sorted(ids)) \subseteq Range(ids)
    BY <1>5, <2>1 DEF Range
  <2>4. Range(ids) \subseteq Range(Sorted(ids))
    <3>1. Range(ids) = {ids[i] : i \in 1..n}
      BY <1>1 DEF Range
    <3>2. QED
      BY <2>2, <3>1
  <2>5. QED
    BY <2>3, <2>4
<1>8. \A k, l \in 1..n : Order(ids)[k] = Order(ids)[l] => k = l
  <2>1. ASSUME NEW k \in 1..n, NEW l \in 1..n, Order(ids)[k] = Order(ids)[l] PROVE k = l
    <3>1. ~(k < l) /\ ~(l < k)
      BY <1>3, <2>1
    <3>2. QED
      BY <3>1
  <2>2. QED
    BY <2>1
<1>9. ASSUME IsInjective(ids) PROVE IsInjective(Sorted(ids))
  <2>1. ASSUME NEW k \in 1..n, NEW l \in 1..n, Sorted(ids)[k] = Sorted(ids)[l] PROVE k = l
    <3>1. ids[Order(ids)[k]] = ids[Order(ids)[l]] /\ Order(ids)[k] \in 1..n /\ Order(ids)[l] \in 1..n
      BY <1>3, <1>4, <2>1
    <3>2. Order(ids)[k] = Order(ids)[l]
      BY <1>1, <1>9, <3>1 DEF IsInjective
    <3>3. QED
      BY <1>8, <3>2
  <2>2. QED
    BY <1>5, <2>1 DEF IsInjective
<1>10. ASSUME IsInjective(Sorted(ids)) PROVE IsInjective(ids)
  <2>1. ASSUME NEW i \in 1..n, NEW j \in 1..n, ids[i] = ids[j] PROVE i = j
    <3>1. PICK k \in 1..n : Order(ids)[k] = i
      BY <1>3
    <3>2. PICK l \in 1..n : Order(ids)[l] = j
      BY <1>3
    <3>3. Sorted(ids)[k] = Sorted(ids)[l]
      BY <1>4, <2>1, <3>1, <3>2
    <3>4. k = l
      BY <1>5, <1>10, <3>3 DEF IsInjective
    <3>5. QED
      BY <3>1, <3>2, <3>4
  <2>2. QED
    BY <1>1, <2>1 DEF IsInjective
<1>11. ASSUME IsInjective(ids) PROVE IsAscending(Sorted(ids))
  <2>1. ASSUME NEW k \in 1..n, NEW l \in 1..n, k < l PROVE Sorted(ids)[k] < Sorted(ids)[l]
    <3>1. Sorted(ids)[k] <= Sorted(ids)[l]
      BY <1>3, <1>4, <2>1
    <3>2. Sorted(ids)[k] # Sorted(ids)[l]
      BY <1>5, <1>9, <1>11, <2>1 DEF IsInjective
    <3>3. Sorted(ids)[k] \in Int /\ Sorted(ids)[l] \in Int
      BY <1>1, <1>5
    <3>4. QED
      BY <3>1, <3>2, <3>3
  <2>2. QED
    BY <1>5, <2>1 DEF IsAscending
<1>12. QED
  BY <1>6, <1>7, <1>9, <1>10, <1>11 DEF n

\* The place of an ID in an ascending list is the number of IDs up to it.
LEMMA AscendingPlaces ==
  ASSUME NEW n \in Nat, NEW ids \in [1..n -> Int], IsAscending(ids), NEW k \in 1..n
  PROVE  Cardinality({id \in Range(ids) : id <= ids[k]}) = k
<1> DEFINE Lower == {id \in Range(ids) : id <= ids[k]}
           f == [i \in 1..k |-> ids[i]]
<1>1. \A i, j \in 1..n : ids[i] \in Int /\ (i < j => ids[i] < ids[j])
  BY DEF IsAscending
<1>2. \A i \in 1..n : ids[i] \in Lower <=> i <= k
  <2>1. ASSUME NEW i \in 1..n PROVE ids[i] <= ids[k] <=> i <= k
    <3>1. i < k => ids[i] < ids[k]
      BY <1>1
    <3>2. k < i => ids[k] < ids[i]
      BY <1>1
    <3>3. ids[i] \in Int /\ ids[k] \in Int
      BY <1>1
    <3>4. QED
      BY <3>1, <3>2, <3>3
  <2>2. QED
    BY <2>1 DEF Range
<1>3. f \in [1..k -> Lower]
  BY <1>2
<1>4. \A id \in Lower : \E i \in 1..k : f[i] = id
  BY <1>2 DEF Range
<1>5. \A i, j \in 1..k : f[i] = f[j] => i = j
  <2>1. ASSUME NEW i \in 1..k, NEW j \in 1..k, ids[i] = ids[j] PROVE i = j
    <3>1. i \in 1..n /\ j \in 1..n /\ ids[i] \in Int
      BY <1>1
    <3>2. ~(i < j) /\ ~(j < i)
      BY <1>1, <2>1, <3>1
    <3>3. QED
      BY <3>2
  <2>2. QED
    BY <2>1
<1>6. f \in Bijection(1..k, Lower)
  <2> HIDE DEF f, Lower
  <2>1. QED
    BY <1>3, <1>4, <1>5 DEF Bijection, Injection, Surjection, IsInjective
<1>7. ExistsBijection(1..k, Lower)
  <2> HIDE DEF f, Lower
  <2>1. QED
    BY <1>6 DEF ExistsBijection
<1>8. IsFiniteSet(1..k) /\ Cardinality(1..k) = k
  BY FS_Interval
<1>9. Cardinality(Lower) = k
  <2> HIDE DEF Lower
  <2>1. QED
    BY <1>7, <1>8, FS_Bijection
<1>10. QED
  BY <1>9

\* Two ascending lists of the same repositories are the same list.
LEMMA AscendingUnique ==
  ASSUME NEW m \in Nat, NEW n \in Nat, NEW s \in [1..m -> Int], NEW t \in [1..n -> Int],
         IsAscending(s), IsAscending(t), Range(s) = Range(t)
  PROVE  s = t
<1>1. ASSUME NEW k \in 1..m PROVE k \in 1..n /\ s[k] = t[k]
  <2>1. s[k] \in Range(t)
    BY DEF Range
  <2>2. PICK l \in 1..n : t[l] = s[k]
    BY <2>1 DEF Range
  <2>3. Cardinality({id \in Range(s) : id <= s[k]}) = k
    BY AscendingPlaces
  <2>4. Cardinality({id \in Range(t) : id <= t[l]}) = l
    BY AscendingPlaces
  <2>5. k = l
    BY <2>2, <2>3, <2>4
  <2>6. QED
    BY <2>2, <2>5
<1>2. ASSUME NEW l \in 1..n PROVE l \in 1..m
  <2>1. t[l] \in Range(s)
    BY DEF Range
  <2>2. PICK k \in 1..m : s[k] = t[l]
    BY <2>1 DEF Range
  <2>3. Cardinality({id \in Range(s) : id <= s[k]}) = k
    BY AscendingPlaces
  <2>4. Cardinality({id \in Range(t) : id <= t[l]}) = l
    BY AscendingPlaces
  <2>5. QED
    BY <2>2, <2>3, <2>4
<1>3. 1..m = 1..n
  BY <1>1, <1>2
<1>4. QED
  BY <1>1, <1>3
=============================================================================
