--------------------------- MODULE MCController ---------------------------
(* Instances of Controller for TLC. *)
EXTENDS Controller, SequencesExt, TLC

CONSTANTS a, b, d, v1, v2, c1, c2, ChunkSize

MCRepositories == {a, b, d}
MCPair == {a, b}

\* The register returns all repositories.
MCFixed == {MCRepositories}
MCPairFixed == {{a, b}}
\* A repository is added or removed between two reads of the register.
MCPairChanging == {{a, b}, {b}}
\* The register may also be empty.
MCPairOrLess == {{a, b}, {b}, {}}

\* EncodeManifest for records of equal size: the list in its order, cut into
\* groups of at most ChunkSize repositories.
MCGroups ==
  [list \in SUBSET Repositories |->
    LET ordered == SetToSeq(list)
        n == (Len(ordered) + ChunkSize - 1) \div ChunkSize
    IN [i \in 1..n |->
          {ordered[j] : j \in {j \in 1..Len(ordered) : (j - 1) \div ChunkSize = i - 1}}]]

Symmetric == Permutations(Controllers) \cup Permutations(RuleVersions)
=============================================================================
