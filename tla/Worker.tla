------------------------------- MODULE Worker -------------------------------
(***************************************************************************)
(* One worker Pod: the init container scans a repository (ort-runner       *)
(* worker), the container that follows delivers the submission the scan    *)
(* left in a shared volume (ort-runner deliver).  Around it: the budget of *)
(* the scan, SIGTERM, OOM kills and lost nodes, and a network that loses,  *)
(* delays and refuses requests and loses answers.                          *)
(*                                                                         *)
(* The manifest the scan reads is the stored one (Controller).  Files that *)
(* cannot be read or written are modelled; an incomplete configuration is  *)
(* left out.                                                               *)
(***************************************************************************)
EXTENDS Naturals, FiniteSets

CONSTANTS
  ResultsConfigured,  \* is ORT_RESULTS_URL set?
  Delays,             \* number of deliveryDelays: pauses between two attempts
  MaxFaults           \* bound: requests and answers that go wrong

ASSUME WorkerAssumption ==
  /\ ResultsConfigured \in BOOLEAN
  /\ Delays \in Nat
  /\ MaxFaults \in Nat

VARIABLES
  at,          \* where the Pod is
  overdue,     \* the time budget ran out while the scan was not over
  report,      \* status of the report that scan() returned
  submission,  \* status in submission.json, "none" when there is no such file
  attempt,     \* delivery attempt, counted from 0
  flight,      \* attempts whose request may still reach the endpoint
  answer,      \* what has come back for the current attempt
  accepted,    \* attempts whose request the endpoint accepted
  terminated,  \* SIGTERM: the context of the process is done
  killed,      \* history: ended by SIGKILL, the OOM killer or a lost node
  broken,      \* history: manifest or submission could not be read or written
  faults       \* requests and answers that went wrong so far

scanVars == <<overdue, report, submission>>
networkVars == <<flight, answer, accepted, faults>>
endVars == <<terminated, killed, broken>>
vars == <<at, scanVars, attempt, networkVars, endVars>>

Ended == {"succeeded", "failed"}
Locations == {"scan", "returned", "read", "post", "await", "sleep"} \cup Ended
Statuses == {"completed", "incomplete", "failed"}

Init ==
  /\ at = "scan"
  /\ overdue = FALSE /\ report = "none" /\ submission = "none"
  /\ attempt = 0
  /\ flight = {} /\ answer = "none" /\ accepted = {} /\ faults = 0
  /\ terminated = FALSE /\ killed = FALSE /\ broken = FALSE

-----------------------------------------------------------------------------
(* Scan, in the init container. *)

\* An error of a file operation is returned, and the container exits 1.
Break == broken' = TRUE /\ at' = "failed"

\* The manifest cannot be read, is of another batch or lacks the index, or the
\* output directory cannot be made: no scan is started, nor its timer.
CannotScan ==
  /\ at = "scan"
  /\ ~overdue
  /\ Break
  /\ UNCHANGED <<scanVars, attempt, networkVars, terminated, killed>>

\* The scan ends by itself or because its context is done.
ScanReturns ==
  /\ at = "scan"
  /\ report' \in Statuses
  /\ at' = "returned"
  /\ UNCHANGED <<overdue, submission, attempt, networkVars, endVars>>

\* The timer of the scan's context; a context that is done stays as it is.
BudgetExpires ==
  /\ at \in {"scan", "returned"}
  /\ ~terminated /\ ~overdue
  /\ overdue' = TRUE
  /\ UNCHANGED <<at, report, submission, attempt, networkVars, endVars>>

\* Mutant of Verdict: the report is trusted.
TrustedVerdict == report

\* A scan that exceeded its budget failed, whatever it reported.
Verdict == IF overdue THEN "failed" ELSE report

\* A failed scan is a result; only an interrupted one fails the Pod. The file
\* gets its name when it is complete, and only then the container exits 0; a
\* write or rename that fails leaves no file of that name.
WriteSubmission ==
  /\ at = "returned"
  /\ \/ terminated /\ at' = "failed" /\ UNCHANGED <<submission, broken>>
     \/ ~terminated /\ at' = "read" /\ submission' = Verdict /\ UNCHANGED broken
     \/ ~terminated /\ Break /\ UNCHANGED submission
  /\ UNCHANGED <<overdue, report, attempt, networkVars, terminated, killed>>

-----------------------------------------------------------------------------
(* Deliver, in the container that follows. *)

\* A file that cannot be read, decoded or is without repository ID fails the Pod.
ReadSubmission ==
  /\ at = "read"
  /\ \/ /\ submission # "none"
        /\ at' = IF ResultsConfigured THEN "post" ELSE "succeeded"
        /\ UNCHANGED broken
     \/ Break
  /\ UNCHANGED <<scanVars, attempt, networkVars, terminated, killed>>

\* PostResult sends the request, unless the context is done already.
SendRequest ==
  /\ at = "post"
  /\ ~terminated
  /\ flight' = flight \cup {attempt}
  /\ answer' = "none"
  /\ at' = "await"
  /\ UNCHANGED <<scanVars, attempt, accepted, faults, endVars>>

\* Mutant of Acknowledged: any answer will do, a redirect or an error too.
AnyAnswer == answer # "none"

\* Only a 2xx answer counts; redirects are not followed.
Acknowledged == answer = "accepted"

Delivered ==
  /\ at = "await"
  /\ Acknowledged
  /\ at' = "succeeded"
  /\ UNCHANGED <<scanVars, attempt, networkVars, endVars>>

\* Mutant of LastAttempt: one attempt too few.
OneTooFew == attempt + 1 = Delays

\* After the last pause there is one more attempt.
LastAttempt == attempt = Delays

GiveUpOrSleep == at' = IF LastAttempt THEN "failed" ELSE "sleep"

\* No usable answer: refused, lost, later than the timeout of the HTTP client,
\* or the context is done.
AttemptFails ==
  /\ \/ at = "post" /\ terminated /\ UNCHANGED faults
     \/ at = "await" /\ terminated /\ UNCHANGED faults
     \/ at = "await" /\ answer = "refused" /\ UNCHANGED faults
     \/ /\ at = "await" /\ answer = "none"
        /\ IF attempt \in flight
           THEN faults < MaxFaults /\ faults' = faults + 1
           ELSE UNCHANGED faults
  /\ GiveUpOrSleep
  /\ UNCHANGED <<scanVars, attempt, flight, answer, accepted, endVars>>

\* Mutant of NextAttempt: the loop does not count.
SameAttempt == attempt

NextAttempt == attempt + 1

\* The pause is over. When the context is done as well, select takes either.
Wake ==
  /\ at = "sleep"
  /\ attempt' = NextAttempt
  /\ at' = "post"
  /\ UNCHANGED <<scanVars, networkVars, endVars>>

SleepInterrupted ==
  /\ at = "sleep"
  /\ terminated
  /\ at' = "failed"
  /\ UNCHANGED <<scanVars, attempt, networkVars, endVars>>

-----------------------------------------------------------------------------
(* The network and the result endpoint. A request may arrive after the      *)
(* client stopped waiting for it, even after the Pod has ended.             *)

\* What the Pod may learn about request i.
Learns(i, result) ==
  answer' = IF at = "await" /\ i = attempt THEN result ELSE answer

Accept(i) ==
  /\ flight' = flight \ {i}
  /\ accepted' = accepted \cup {i}
  /\ \/ Learns(i, "accepted") /\ UNCHANGED faults
     \/ faults < MaxFaults /\ faults' = faults + 1 /\ UNCHANGED answer
  /\ UNCHANGED <<at, scanVars, attempt, endVars>>

RefuseOrLose(i) ==
  /\ faults < MaxFaults
  /\ faults' = faults + 1
  /\ flight' = flight \ {i}
  /\ \E result \in {"refused", "none"} : Learns(i, result)
  /\ UNCHANGED <<at, scanVars, attempt, accepted, endVars>>

Network == \E i \in flight : Accept(i) \/ RefuseOrLose(i)

-----------------------------------------------------------------------------
(* What can happen to the Pod. *)

\* The Job is stopped or the node is drained: SIGTERM. Between the containers
\* nothing runs that could notice it, and the second one is not started.
Terminate ==
  /\ at \notin Ended
  /\ terminated' = TRUE
  /\ at' = IF at = "read" THEN "failed" ELSE at
  /\ UNCHANGED <<scanVars, attempt, networkVars, killed, broken>>

\* SIGKILL, the OOM killer, an eviction without grace, a lost node.
Kill ==
  /\ at \notin Ended
  /\ killed' = TRUE
  /\ at' = "failed"
  /\ UNCHANGED <<scanVars, attempt, networkVars, terminated, broken>>

Proceed ==
  \/ CannotScan \/ ScanReturns \/ WriteSubmission
  \/ ReadSubmission \/ SendRequest \/ Delivered \/ AttemptFails
  \/ Wake \/ SleepInterrupted

Next == Proceed \/ BudgetExpires \/ Network \/ Terminate \/ Kill

Spec == Init /\ [][Next]_vars

\* The code does not wait without a limit: the scan's context has a timeout
\* and kills its commands, every request has one, and the pauses are timers.
FairSpec == Spec /\ WF_vars(Proceed) /\ WF_vars(Network)

-----------------------------------------------------------------------------
(* Properties. *)

TypeOK ==
  /\ at \in Locations
  /\ overdue \in BOOLEAN /\ terminated \in BOOLEAN /\ killed \in BOOLEAN /\ broken \in BOOLEAN
  /\ report \in Statuses \cup {"none"}
  /\ submission \in Statuses \cup {"none"}
  /\ attempt \in 0..Delays
  /\ flight \subseteq 0..attempt
  /\ answer \in {"none", "accepted", "refused"}
  /\ accepted \subseteq 0..attempt
  /\ faults \in 0..MaxFaults

\* The Pod as the controller and its Job see it.
State ==
  IF at = "succeeded" THEN "completed"
  ELSE IF at = "failed" THEN "failed"
  ELSE IF accepted = {} THEN "waiting" ELSE "posted"

\* The worker implements Pod: whatever the network loses or delays, an index
\* completes only after the endpoint accepted its submission (Deliver, post).
Promise == INSTANCE Pod WITH state <- State, accepted <- (accepted # {})
ImplementsPod == Promise!PodSpec

\* A result the endpoint accepted as completed comes from a scan that was over
\* before its budget, also when both happen at about the same time (Scan).
AcceptedInBudget ==
  (accepted # {} /\ submission = "completed") => ~overdue

\* A Pod nobody stops and whose files can be read and written gives up only when
\* the answers to all its attempts, one more than there are pauses, stayed out or
\* were refusals (Deliver).
GivesUpAfterAllAttempts ==
  (at = "failed" /\ ~terminated /\ ~killed /\ ~broken) => attempt = Delays /\ faults > Delays

\* The Pod ends: no loss, refusal or delay keeps it busy for ever.
PodEnds == <>(at \in Ended)
=============================================================================
