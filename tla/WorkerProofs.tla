---------------------------- MODULE WorkerProofs ----------------------------
(***************************************************************************)
(* Proofs about Worker for every number of pauses and of faults, with and  *)
(* without a result endpoint.                                              *)
(***************************************************************************)
EXTENDS Worker, TLAPS

\* Without an endpoint nothing is sent, and nothing is before the delivery.
NetworkOK ==
  /\ at \in {"post", "await", "sleep"} \/ flight # {} \/ accepted # {} => ResultsConfigured
  /\ at \in {"scan", "returned", "read"} => flight = {} /\ accepted = {}

\* An answer that says so is only there when the endpoint accepted a request.
AnswerOK ==
  /\ answer = "accepted" => accepted # {}
  /\ at = "await" /\ attempt \in flight => answer = "none"
  /\ at = "succeeded" /\ ResultsConfigured => accepted # {}

\* Each attempt that failed without a signal or a file error took a fault.
FaultsOK ==
  /\ at = "sleep" => attempt < Delays
  /\ ~terminated /\ ~killed /\ ~broken =>
       /\ faults >= attempt
       /\ at \in {"sleep", "failed"} => faults > attempt
       /\ at = "await" /\ (answer = "refused" \/ (answer = "none" /\ attempt \notin flight))
            => faults > attempt
       /\ at = "failed" => attempt = Delays

\* The status in the submission is the verdict at the time it was written.
SubmissionOK ==
  /\ at \in {"scan", "returned"} => submission = "none"
  /\ submission = "completed" => ~overdue

\* The inductive invariant.
WInv == TypeOK /\ NetworkOK /\ AnswerOK /\ FaultsOK /\ SubmissionOK

LEMMA InitWInv == Init => WInv
<1> SUFFICES ASSUME Init PROVE WInv
  OBVIOUS
<1>1. TypeOK
  <2>1. overdue \in BOOLEAN /\ terminated \in BOOLEAN /\ killed \in BOOLEAN
       /\ broken \in BOOLEAN
    BY DEF Init
  <2>2. at \in Locations /\ 0 \in 0..Delays /\ 0 \in 0..MaxFaults
    BY WorkerAssumption DEF Init, Locations
  <2>3. QED
    BY <2>1, <2>2 DEF Init, TypeOK
<1>2. NetworkOK /\ AnswerOK /\ SubmissionOK
  BY DEF Init, NetworkOK, AnswerOK, SubmissionOK
<1>3. FaultsOK
  BY DEF Init, FaultsOK
<1>4. QED
  BY <1>1, <1>2, <1>3 DEF WInv

LEMMA NextWInv == WInv /\ [Next]_vars => WInv'
<1> SUFFICES ASSUME WInv, [Next]_vars PROVE WInv'
  OBVIOUS
<1> USE WorkerAssumption
    DEF WInv, TypeOK, NetworkOK, AnswerOK, FaultsOK, SubmissionOK, Locations, Ended, Statuses,
        scanVars, networkVars, endVars
<1>1. CASE ScanReturns
  BY <1>1 DEF ScanReturns
<1>2. CASE WriteSubmission
  BY <1>2 DEF WriteSubmission, Verdict, Break
<1>3. CASE ReadSubmission
  BY <1>3 DEF ReadSubmission, Break
<1>4. CASE SendRequest
  BY <1>4 DEF SendRequest
<1>5. CASE Delivered
  BY <1>5 DEF Delivered, Acknowledged
<1>6. CASE AttemptFails
  BY <1>6 DEF AttemptFails, GiveUpOrSleep, LastAttempt
<1>7. CASE Wake
  BY <1>7 DEF Wake, NextAttempt
<1>8. CASE SleepInterrupted
  BY <1>8 DEF SleepInterrupted
<1>9. CASE BudgetExpires
  BY <1>9 DEF BudgetExpires
<1>10. ASSUME NEW i \in flight, Accept(i) PROVE WInv'
  BY <1>10 DEF Accept, Learns
<1>11. ASSUME NEW i \in flight, RefuseOrLose(i) PROVE WInv'
  BY <1>11 DEF RefuseOrLose, Learns
<1>12. CASE Terminate
  BY <1>12 DEF Terminate
<1>13. CASE Kill
  BY <1>13 DEF Kill
<1>14. CASE CannotScan
  BY <1>14 DEF CannotScan, Break
<1>15. CASE UNCHANGED vars
  BY <1>15 DEF vars
<1>16. QED
  BY <1>1, <1>2, <1>3, <1>4, <1>5, <1>6, <1>7, <1>8, <1>9, <1>10, <1>11, <1>12, <1>13, <1>14,
     <1>15
  DEF Next, Proceed, Network

\* The strengthened invariant holds in every reachable state.
THEOREM WorkerInvariance == Spec => []WInv
BY InitWInv, NextWInv, PTL DEF Spec

\* Every variable keeps its type: in particular no attempt after the last
\* one is made (Deliver).
THEOREM WorkerTypes == Spec => []TypeOK
<1>1. WInv => TypeOK
  BY DEF WInv
<1>2. QED
  BY <1>1, WorkerInvariance, PTL

\* The endpoint never accepts a status "completed" of a scan that exceeded its
\* budget (Scan).
THEOREM BudgetKept == Spec => []AcceptedInBudget
<1>1. WInv => AcceptedInBudget
  BY DEF WInv, SubmissionOK, AcceptedInBudget
<1>2. QED
  BY <1>1, WorkerInvariance, PTL

\* A Pod nobody stops and whose files work makes all its attempts before it
\* fails (Deliver).
THEOREM AllAttemptsMade == Spec => []GivesUpAfterAllAttempts
<1>1. WInv => GivesUpAfterAllAttempts
  BY WorkerAssumption DEF WInv, TypeOK, FaultsOK, GivesUpAfterAllAttempts
<1>2. QED
  BY <1>1, WorkerInvariance, PTL

-----------------------------------------------------------------------------
(* The worker implements Pod. *)

LEMMA WorkerInitPod == Init => Promise!PodInit
BY DEF Init, Promise!PodInit, State

LEMMA WorkerNextPod == WInv /\ WInv' /\ [Next]_vars => [Promise!PodNext]_<<State, accepted # {}>>
<1> SUFFICES ASSUME WInv, WInv', [Next]_vars
             PROVE  Promise!PodNext \/ UNCHANGED <<State, accepted # {}>>
  OBVIOUS
<1> USE DEF WInv, TypeOK, NetworkOK, AnswerOK, Locations, Ended, scanVars, networkVars, endVars, State
<1>1. CASE Delivered \/ ReadSubmission
  BY <1>1 DEF Delivered, Acknowledged, ReadSubmission, Break, Promise!PodNext,
       Promise!Succeed, Promise!Fail
<1>2. CASE ScanReturns \/ BudgetExpires \/ SendRequest \/ Wake
  BY <1>2 DEF ScanReturns, BudgetExpires, SendRequest, Wake
<1>3. CASE CannotScan \/ WriteSubmission \/ AttemptFails \/ SleepInterrupted \/ Terminate \/ Kill
  BY <1>3 DEF CannotScan, WriteSubmission, Break, AttemptFails, GiveUpOrSleep,
       LastAttempt, SleepInterrupted, Terminate, Kill, Promise!PodNext, Promise!Fail
<1>4. ASSUME NEW i \in flight, Accept(i)
      PROVE  Promise!PodNext \/ UNCHANGED <<State, accepted # {}>>
  <2>1. UNCHANGED at /\ accepted' # {} /\ ResultsConfigured
    BY <1>4 DEF Accept
  <2>2. CASE accepted # {}
    BY <2>1, <2>2
  <2>3. CASE accepted = {} /\ at = "failed"
    <3>1. State = "failed" /\ State' = State
      BY <2>1, <2>3
    <3>2. (accepted # {})' = TRUE
      BY <2>1
    <3> HIDE DEF State
    <3>3. Promise!PostLate
      BY <2>1, <3>1, <3>2 DEF Promise!PostLate
    <3>4. QED
      BY <3>3 DEF Promise!PodNext
  <2>4. CASE accepted = {} /\ at # "failed"
    <3>1. at # "succeeded"
      BY <2>1, <2>4
    <3>2. State = "waiting" /\ State' = "posted"
      BY <2>1, <2>4, <3>1
    <3>3. (accepted # {})' = TRUE
      BY <2>1
    <3> HIDE DEF State
    <3>4. Promise!Post
      BY <2>1, <3>2, <3>3 DEF Promise!Post
    <3>5. QED
      BY <3>4 DEF Promise!PodNext
  <2>5. QED
    BY <2>2, <2>3, <2>4
<1>5. CASE \E i \in flight : RefuseOrLose(i)
  BY <1>5 DEF RefuseOrLose
<1>6. CASE UNCHANGED vars
  BY <1>6 DEF vars
<1>7. QED
  BY <1>1, <1>2, <1>3, <1>4, <1>5, <1>6 DEF Next, Proceed, Network

\* The worker implements Pod: with any network, its index completes only after
\* the endpoint accepted its submission (Deliver, post).
THEOREM WorkerImplementsPod == Spec => ImplementsPod
<1>1. QED
  BY WorkerInitPod, WorkerNextPod, WorkerInvariance, PTL DEF Spec, ImplementsPod, Promise!PodSpec
=============================================================================
