------------------------------ MODULE MCIndexes ------------------------------
(* Instances of Indexes for TLC. *)
EXTENDS Indexes

\* Up to two parts of one to three bounds, numbers or not, in range or not.
MCBounds == {NaN} \cup 0..3
MCParts == {<<x>> : x \in MCBounds} \cup (MCBounds \X MCBounds) \cup {<<0, 1, 2>>}
MCTexts == BoundedSeq(MCParts, 2)
=============================================================================
