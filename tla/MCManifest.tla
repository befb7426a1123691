----------------------------- MODULE MCManifest -----------------------------
(* Instances of Manifest for TLC. *)
EXTENDS Manifest

\* Up to three repositories in any order, with duplicates, and twice eleven, so
\* that the count and the last index of their chunks may have two digits.
MCLists ==
  BoundedSeq(1..3, 3) \cup {[i \in 1..11 |-> 12 - i], [i \in 1..11 |-> 14 - i]}

\* The second repository is longer than the others.
MCRecordBytes == [id \in 1..13 |-> IF id = 2 THEN 4 ELSE 2]

\* A later round of the batch, and another batch.
MCStrangers == {[batch |-> "ours", list |-> <<1, 2>>], [batch |-> "theirs", list |-> <<2, 3>>]}
=============================================================================
