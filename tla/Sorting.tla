------------------------------ MODULE Sorting ------------------------------
(***************************************************************************)
(* What sort.Slice and sort.Ints do, for the parts of the program that     *)
(* rely on an order: the list of a manifest (NewManifest), its chunks      *)
(* (DecodeManifest) and the indexes of a Job (ParseIndexes).               *)
(***************************************************************************)
EXTENDS Integers, Sequences, FiniteSets

\* The place of element i when a sequence of numbers is sorted; equal elements
\* keep their order.
Place(keys, i) ==
  Cardinality({j \in DOMAIN keys : keys[j] < keys[i] \/ (keys[j] = keys[i] /\ j <= i)})

\* What sorting puts at each place.
Order(keys) == [k \in DOMAIN keys |-> CHOOSE i \in DOMAIN keys : Place(keys, i) = k]

Sorted(ids) == [k \in DOMAIN ids |-> ids[Order(ids)[k]]]

\* Ascending without duplicates, defined without the sorting of the code.
IsAscending(ids) == \A i, j \in DOMAIN ids : i < j => ids[i] < ids[j]
=============================================================================
