------------------------------ MODULE RoundPlan ------------------------------
(***************************************************************************)
(* What the controller promises about the rounds of a batch, whatever      *)
(* crashes, restarts or runs twice: the list of a round is decided once    *)
(* and never changes, the first one is a list the register returned, and   *)
(* every later round gets some, not all, of the repositories of the round  *)
(* before it, which is why there are finitely many.                        *)
(***************************************************************************)
EXTENDS Naturals

CONSTANT Lists   \* the non-empty repository lists the register may return

VARIABLE plan    \* decided rounds: round -> repositories of that round

PlanInit == plan = [n \in {} |-> {}]

\* Decide round n, which no earlier step decided.
Decide(n, repos) ==
  /\ n \notin DOMAIN plan
  /\ plan' = [m \in DOMAIN plan \cup {n} |-> IF m = n THEN repos ELSE plan[m]]

First == \E list \in Lists : Decide(0, list)

Continue ==
  \E n \in DOMAIN plan : \E rest \in (SUBSET plan[n]) \ {{}, plan[n]} : Decide(n + 1, rest)

PlanNext == First \/ Continue

PlanSpec == PlanInit /\ [][PlanNext]_plan
=============================================================================
