---------------------------- MODULE MCLocalBatch ----------------------------
(* Instance of LocalBatch for TLC: an empty list, one and three repositories. *)
EXTENDS LocalBatch

CONSTANTS a, b, c

MCLists == {<<>>, <<b>>, <<a, b, c>>}
=============================================================================
