------------------------------ MODULE Indexes ------------------------------
(***************************************************************************)
(* From the status of a finished Job to the repositories of its round:     *)
(* ParseIndexes reads the compact index lists of Kubernetes, "0,2-4", and  *)
(* roundOutcome splits the repositories into completed, failed and         *)
(* unfinished ones.                                                        *)
(*                                                                         *)
(* A list is a sequence of parts (what strings.Split leaves between the    *)
(* commas), a part a sequence of bounds (between the dashes); a bound that *)
(* strconv.Atoi rejects is NaN.  Repositories are named by their index.    *)
(***************************************************************************)
EXTENDS Sorting, SequencesExt

CONSTANTS
  Totals,   \* numbers of repositories in a round
  Texts     \* index lists to read, well-formed or not

\* Splitting a part leaves one bound at least.
ASSUME IndexesAssumption ==
  /\ Totals \subseteq Nat
  /\ Texts \subseteq Seq(Seq(Int) \ {<<>>})

NaN == -1

VARIABLES
  total,      \* repositories in the round
  pods,       \* what became of each index: "completed", "failed", "other"
  text,       \* an index list
  parsed,     \* what ParseIndexes returned for it
  result,     \* what roundOutcome returned
  stage       \* "given", "parsed", then "split" or "broken"

vars == <<total, pods, text, parsed, result, stage>>

Indices == 0..(total - 1)
Error == [ok |-> FALSE]

-----------------------------------------------------------------------------
(* ParseIndexes. *)

\* One or two bounds, ascending, within the round.
PartHolds(part) ==
  /\ Len(part) \in {1, 2}
  /\ part[1] \in Indices
  /\ Last(part) \in part[1]..(total - 1)

PartIndexes(part) == [n \in 1..(Last(part) - part[1] + 1) |-> part[1] + n - 1]

\* Mutant of Fresh: an index may be listed twice.
Repeatable(seen, part) == TRUE

Fresh(seen, part) == Range(seen) \cap Range(PartIndexes(part)) = {}

\* The loop over the parts; the first bad one ends it.
AddPart(acc, part) ==
  IF acc.ok /\ PartHolds(part) /\ Fresh(acc.indexes, part)
  THEN [acc EXCEPT !.indexes = @ \o PartIndexes(part)]
  ELSE [acc EXCEPT !.ok = FALSE]

ParseIndexes(parts) ==
  LET upTo[k \in 0..Len(parts)] ==
        IF k = 0 THEN [ok |-> TRUE, indexes |-> <<>>] ELSE AddPart(upTo[k - 1], parts[k])
      acc == upTo[Len(parts)]
  IN IF acc.ok THEN [ok |-> TRUE, indexes |-> Sorted(acc.indexes)] ELSE Error

-----------------------------------------------------------------------------
(* How Kubernetes writes the status: the maximal intervals in ascending      *)
(* order, one of two indexes as two numbers.                                *)

\* A part begins with i: the first of an interval, or the second of two.
Begins(i, set) == i \in set /\ (i - 1 \in set => {i - 2, i + 1} \cap set = {})

IntervalEnd(i, set) == CHOOSE j \in set : j >= i /\ i..j \subseteq set /\ j + 1 \notin set

Compact(set) ==
  LET firsts == Sorted(SetToSeq({i \in set : Begins(i, set)}))
      part(i) == IF {i + 1, i + 2} \subseteq set THEN <<i, IntervalEnd(i, set)>> ELSE <<i>>
  IN [k \in DOMAIN firsts |-> part(firsts[k])]

In(state) == {i \in Indices : pods[i] = state}

-----------------------------------------------------------------------------
(* roundOutcome. *)

\* Mutant of Overlap: the status is trusted.
NoOverlap(completed, failed) == FALSE

Overlap(completed, failed) == Range(completed) \cap Range(failed) # {}

RoundOutcome(completedText, failedText) ==
  LET completed == ParseIndexes(completedText)
      failed == ParseIndexes(failedText)
  IN IF ~completed.ok \/ ~failed.ok THEN Error
     ELSE IF Overlap(completed.indexes, failed.indexes) THEN Error
     ELSE [ok         |-> TRUE,
           completed  |-> Len(completed.indexes),
           failed     |-> Range(failed.indexes),
           unfinished |-> Indices \ (Range(completed.indexes) \cup Range(failed.indexes))]

-----------------------------------------------------------------------------

Init ==
  /\ total \in Totals
  /\ pods \in [Indices -> {"completed", "failed", "other"}]
  /\ text \in Texts
  /\ parsed = Error /\ result = Error
  /\ stage = "given"

Parse ==
  /\ stage = "given"
  /\ parsed' = ParseIndexes(text)
  /\ stage' = "parsed"
  /\ UNCHANGED <<total, pods, text, result>>

\* A status as Kubernetes writes it.
SplitStatus ==
  /\ stage = "parsed"
  /\ result' = RoundOutcome(Compact(In("completed")), Compact(In("failed")))
  /\ stage' = "split"
  /\ UNCHANGED <<total, pods, text, parsed>>

\* A broken status: the failed indexes are some other list.
SplitBroken ==
  /\ stage = "parsed"
  /\ result' = RoundOutcome(Compact(In("completed")), text)
  /\ stage' = "broken"
  /\ UNCHANGED <<total, pods, text, parsed>>

Next == Parse \/ SplitStatus \/ SplitBroken

Spec == Init /\ [][Next]_vars

-----------------------------------------------------------------------------
(* Properties. *)

\* The indexes a part stands for, and when a list is well-formed, as the
\* comment on ParseIndexes and its test have it.
Interval(part) == {i \in Indices : part[1] <= i /\ i <= part[Len(part)]}
WellFormed(parts) ==
  /\ \A k \in DOMAIN parts :
       /\ Len(parts[k]) = 1 \/ Len(parts[k]) = 2
       /\ \A b \in DOMAIN parts[k] : 0 <= parts[k][b] /\ parts[k][b] < total
       /\ parts[k][1] <= parts[k][Len(parts[k])]
  /\ \A k, m \in DOMAIN parts : k # m => Interval(parts[k]) \cap Interval(parts[m]) = {}

\* A list is accepted if and only if every part is a number or an ascending
\* pair of numbers below total and no two parts share an index; the indexes
\* are then those of its parts, ascending and each once (ParseIndexes).
ParsesExactly ==
  stage = "parsed" =>
    /\ parsed.ok <=> WellFormed(text)
    /\ parsed.ok =>
         /\ Range(parsed.indexes) = UNION {Interval(text[k]) : k \in DOMAIN text}
         /\ IsAscending(parsed.indexes)

\* The status Kubernetes writes is accepted and understood: the outcome has
\* exactly the completed, the failed and the other indexes. Whatever a status
\* says, an accepted outcome counts every repository once: an index that is
\* both completed and failed is refused (roundOutcome).
OutcomeExact ==
  /\ stage = "split" =>
       result = [ok         |-> TRUE,
                 completed  |-> Cardinality(In("completed")),
                 failed     |-> In("failed"),
                 unfinished |-> In("other")]
  /\ (stage = "broken" /\ result.ok) =>
       result.completed + Cardinality(result.failed) + Cardinality(result.unfinished) = total
=============================================================================
