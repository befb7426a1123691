----------------------------- MODULE LocalBatch -----------------------------
(***************************************************************************)
(* runBatch, the batch on a developer's machine: read the list of the      *)
(* register, then scan the repositories one after the other.  Of each one, *)
(* the message for the result endpoint is saved before it is sent, once,   *)
(* and batch.json is saved before the scan and after the delivery.         *)
(* Around it: scans that fail, an endpoint that refuses or whose answer is *)
(* lost, system calls that fail, a caller who cancels, and the end of the  *)
(* runner itself.                                                          *)
(*                                                                         *)
(* The scan is the one of module Scan, which Pipeline implements: outcome  *)
(* and record belong to the current repository.                            *)
(***************************************************************************)
EXTENDS Scan, Integers, Sequences

CONSTANTS
  Repositories,
  Lists,         \* what the register may return, without repetitions
  MaxFaults      \* bound: system calls and list requests that fail

ASSUME LocalBatchAssumption ==
  /\ Lists \subseteq Seq(Repositories)
  /\ \A list \in Lists : \A i, j \in DOMAIN list : list[i] = list[j] => i = j
  /\ MaxFaults \in Nat

VARIABLES
  posting,      \* is there a URL for the results?
  at,           \* where runBatch is
  repositories, \* the list
  position,     \* repositories that have been processed
  items,        \* report.Items: [scan, delivery] by repository
  status,       \* report.Status
  failures,     \* hasFailures
  error,        \* will runBatch return an error?
  saved,        \* batch.json: [status, items], NotSaved when there is no such file
  submissions,  \* status of the scan in submission.json, by repository
  accepted,     \* messages the endpoint accepted: [repository, scan]
  runFiles,     \* history: status in run.json when the scan returned
  cancelled,    \* the caller's context is done
  faults        \* system calls and list requests that failed so far

scanVars == <<outcome, record>>
reportVars == <<items, status, failures>>
messageVars == <<submissions, accepted, runFiles>>
vars == <<posting, at, repositories, position, reportVars, error, saved, messageVars,
          scanVars, cancelled, faults>>

Ended == {"returned", "crashed"}

NotSaved == [status |-> "none", items |-> <<>>]

Init ==
  /\ posting \in BOOLEAN
  /\ at = "validate" /\ repositories = <<>> /\ position = 0
  /\ items = <<>> /\ status = "none" /\ failures = FALSE /\ error = FALSE
  /\ saved = NotSaved
  /\ submissions = <<>> /\ accepted = {} /\ runFiles = <<>>
  /\ ScanInit
  /\ cancelled = FALSE /\ faults = 0

\* A system call or a request to the register fails.
Fault == faults < MaxFaults /\ faults' = faults + 1

\* Return an error: the deferred function is next.
Abandon == at' = "finish" /\ error' = TRUE

\* saveJSON renames a complete file: batch.json is the new one, or still the old
\* one and there is an error.
Save(next) ==
  \/ saved' = [status |-> status', items |-> items'] /\ at' = next /\ UNCHANGED <<error, faults>>
  \/ Fault /\ Abandon /\ UNCHANGED saved

Current == repositories[position + 1]

-----------------------------------------------------------------------------
(* Before the first scan. *)

\* Invalid settings, or no output directory.
Refuse ==
  /\ at = "validate"
  /\ at' = "returned" /\ error' = TRUE
  /\ UNCHANGED <<posting, repositories, position, reportVars, saved, messageVars, scanVars,
                 cancelled, faults>>

FirstSave ==
  /\ at = "validate"
  /\ status' = "running" /\ UNCHANGED <<items, failures>>
  /\ Save("list")
  /\ UNCHANGED <<posting, repositories, position, messageVars, scanVars, cancelled>>

ReadList ==
  /\ at = "list" /\ ~cancelled
  /\ repositories' \in Lists
  /\ at' = "next"
  /\ UNCHANGED <<posting, position, reportVars, error, saved, messageVars, scanVars, cancelled, faults>>

ReadListFails ==
  /\ at = "list"
  /\ IF cancelled THEN UNCHANGED faults ELSE Fault
  /\ Abandon
  /\ UNCHANGED <<posting, repositories, position, reportVars, saved, messageVars, scanVars, cancelled>>

-----------------------------------------------------------------------------
(* One repository. *)

With(f, r, value) == [x \in DOMAIN f \cup {r} |-> IF x = r THEN value ELSE f[x]]

StartScan ==
  /\ at = "next" /\ position < Len(repositories)
  /\ ~cancelled
  /\ items' = With(items, Current,
                   [scan |-> "running",
                    delivery |-> IF posting THEN "pending" ELSE "not_configured"])
  /\ UNCHANGED <<status, failures>>
  /\ Save("scan")
  /\ outcome' = Pending /\ record' = "none"
  /\ UNCHANGED <<posting, repositories, position, messageVars, cancelled>>

\* The check of the context at the top of the loop, or after it; or there is no
\* directory for the repository.
StopBetweenScans ==
  /\ at = "next"
  /\ \/ cancelled /\ UNCHANGED faults
     \/ position < Len(repositories) /\ ~cancelled /\ Fault
  /\ Abandon
  /\ UNCHANGED <<posting, repositories, position, reportVars, saved, messageVars, scanVars, cancelled>>

ScanProceeds ==
  /\ at = "scan" /\ ScanNext
  /\ UNCHANGED <<posting, at, repositories, position, reportVars, error, saved, messageVars,
                 cancelled, faults>>

\* A scan that was refused has no status of its own.
ScanStatus == IF outcome.status = "none" THEN "failed" ELSE outcome.status

\* The scan is over: its status goes into the report, its message into a file.
SaveSubmission ==
  /\ at = "scan" /\ outcome # Pending
  /\ items' = [items EXCEPT ![Current].scan = ScanStatus]
  /\ runFiles' = With(runFiles, Current, record)
  /\ \/ /\ submissions' = With(submissions, Current, ScanStatus)
        /\ at' = "deliver" /\ UNCHANGED <<error, faults>>
     \/ Fault /\ Abandon /\ UNCHANGED submissions
  /\ UNCHANGED <<posting, repositories, position, status, failures, saved, accepted, scanVars, cancelled>>

\* Nothing is sent for a context that is done.
Deliver ==
  /\ at = "deliver"
  /\ IF cancelled THEN Abandon
     ELSE at' = (IF posting THEN "post" ELSE "record") /\ UNCHANGED error
  /\ UNCHANGED <<posting, repositories, position, reportVars, saved, messageVars, scanVars,
                 cancelled, faults>>

\* Mutant of Message: it is made again, and differs from what was saved.
RawMessage == [repository |-> Current, scan |-> outcome.status]

\* The bytes that were saved.
Message == [repository |-> Current, scan |-> submissions[Current]]

Post ==
  /\ at = "post" /\ ~cancelled
  /\ accepted' = accepted \cup {Message}
  /\ items' = [items EXCEPT ![Current].delivery = "posted"]
  /\ at' = "record"
  /\ UNCHANGED <<posting, repositories, position, status, failures, error, saved, submissions,
                 runFiles, scanVars, cancelled, faults>>

\* Mutant of AfterFailedPost: a failed POST stops the batch.
StopAfterFailedPost == Abandon

AfterFailedPost == at' = "record" /\ UNCHANGED error

\* Refused, not sent, or accepted without an answer that arrives.
PostFails ==
  /\ at = "post"
  /\ accepted' \in {accepted, accepted \cup {Message}}
  /\ items' = [items EXCEPT ![Current].delivery = "failed"]
  /\ AfterFailedPost
  /\ UNCHANGED <<posting, repositories, position, status, failures, saved, submissions,
                 runFiles, scanVars, cancelled, faults>>

\* Mutant of Failed: only scans count.
ScanFailed == outcome.error \/ items[Current].scan # "completed"

Failed ==
  outcome.error \/ items[Current].scan # "completed" \/ items[Current].delivery = "failed"

\* Mutant of NextPosition: the loop does not advance.
SamePosition == position

NextPosition == position + 1

\* Failures are remembered, and batch.json has how the repository ended.
SaveItem ==
  /\ at = "record"
  /\ failures' = (failures \/ Failed) /\ UNCHANGED <<items, status>>
  /\ position' = NextPosition
  /\ Save("next")
  /\ UNCHANGED <<posting, repositories, messageVars, scanVars, cancelled>>

-----------------------------------------------------------------------------
(* After the last scan. *)

AllProcessed ==
  /\ at = "next" /\ position = Len(repositories)
  /\ ~cancelled
  /\ status' = IF failures THEN "incomplete" ELSE "completed"
  /\ error' = failures
  /\ at' = "finish"
  /\ UNCHANGED <<posting, repositories, position, items, failures, saved, messageVars, scanVars,
                 cancelled, faults>>

\* Mutant of FinalItems: the file gets the items that were saved last.
SavedItems == saved.items

FinalItems == items

\* Mutant of Unsaved: a batch.json that cannot be written is no error.
Ignored == error

Unsaved == TRUE

\* The deferred function.
Finish ==
  /\ at = "finish"
  /\ status' = IF status = "running" THEN "failed" ELSE status
  /\ \/ saved' = [status |-> status', items |-> FinalItems] /\ UNCHANGED <<error, faults>>
     \/ Fault /\ error' = Unsaved /\ UNCHANGED saved
  /\ at' = "returned"
  /\ UNCHANGED <<posting, repositories, position, items, failures, messageVars, scanVars, cancelled>>

-----------------------------------------------------------------------------
(* The world. *)

Cancel ==
  /\ at \notin Ended /\ ~cancelled
  /\ cancelled' = TRUE
  /\ UNCHANGED <<posting, at, repositories, position, reportVars, error, saved, messageVars,
                 scanVars, faults>>

\* The runner is killed. The machine goes on: a file that was renamed stays
\* renamed, though saveJSON does not sync it.
Crash ==
  /\ at \notin Ended
  /\ at' = "crashed"
  /\ UNCHANGED <<posting, repositories, position, reportVars, error, saved, messageVars,
                 scanVars, cancelled, faults>>

Proceed ==
  \/ Refuse \/ FirstSave \/ ReadList \/ ReadListFails
  \/ StartScan \/ StopBetweenScans \/ ScanProceeds \/ SaveSubmission
  \/ Deliver \/ Post \/ PostFails \/ SaveItem
  \/ AllProcessed \/ Finish

Next == Proceed \/ Cancel \/ Crash

Spec == Init /\ [][Next]_vars

\* The batch goes on: scans end (Pipeline) and requests have a timeout.
FairSpec == Spec /\ WF_vars(Proceed)

-----------------------------------------------------------------------------
(* Properties. *)

Statuses == {"completed", "incomplete", "failed"}

Item ==
  [scan : {"running"} \cup Statuses,
   delivery : {"pending", "not_configured", "posted", "failed"}]

\* f is a function from some of the repositories to S.
PartialFunction(f, S) == DOMAIN f \subseteq Repositories /\ \A r \in DOMAIN f : f[r] \in S

PlaceType ==
  /\ posting \in BOOLEAN /\ cancelled \in BOOLEAN /\ failures \in BOOLEAN /\ error \in BOOLEAN
  /\ at \in {"validate", "list", "next", "scan", "deliver", "post", "record", "finish"} \cup Ended
  /\ repositories \in Lists \cup {<<>>}
  /\ position \in 0..Len(repositories)
  /\ at \in {"scan", "deliver", "post", "record"} =>
       position < Len(repositories) /\ Current \in DOMAIN items
  /\ faults \in 0..MaxFaults

FileType ==
  /\ PartialFunction(items, Item)
  /\ status \in {"none", "running"} \cup Statuses
  /\ saved.status \in {"none", "running"} \cup Statuses
  /\ PartialFunction(saved.items, Item)
  /\ PartialFunction(submissions, Statuses)
  /\ accepted \subseteq [repository : Repositories, scan : Statuses]
  /\ PartialFunction(runFiles, {"none", "running"} \cup Statuses)
  /\ outcome \in Outcomes \cup {Pending} /\ record \in {"none", "running"} \cup Statuses

TypeOK == PlaceType /\ FileType

\* What the endpoint has accepted is what submission.json says, and batch.json
\* names the repository: whenever the runner dies, nothing was delivered that
\* cannot be found in the directory of the batch (README, "Batchresultaten").
AcceptedIsOnFile ==
  \A m \in accepted :
    /\ m.repository \in DOMAIN submissions /\ submissions[m.repository] = m.scan
    /\ m.repository \in DOMAIN saved.items

\* Every repository of the list was processed, its message is on file.
AllOnFile ==
  \A i \in DOMAIN repositories :
    /\ repositories[i] \in DOMAIN saved.items /\ repositories[i] \in DOMAIN submissions
    /\ saved.items[repositories[i]].scan = submissions[repositories[i]]
    /\ saved.items[repositories[i]].delivery # "pending"

\* A repository whose scan completed, by its run.json too, and whose message was
\* accepted, if there is an endpoint.
Successful(r) ==
  /\ saved.items[r].scan = "completed" /\ runFiles[r] = "completed"
  /\ IF posting
     THEN saved.items[r].delivery = "posted" /\ [repository |-> r, scan |-> "completed"] \in accepted
     ELSE saved.items[r].delivery = "not_configured"

\* When batch.json says "completed", every repository of the list is successful;
\* "incomplete": all were processed; "posted": the endpoint accepted the message.
BatchFileTrue ==
  /\ saved.status \in {"completed", "incomplete"} => AllOnFile
  /\ saved.status = "completed" => \A i \in DOMAIN repositories : Successful(repositories[i])
  /\ \A r \in DOMAIN saved.items :
       saved.items[r].delivery = "posted" => \E m \in accepted : m.repository = r

\* The command exits with 0 only when batch.json on the disk says "completed",
\* also when saving it is what failed (runBatch, executeLocal).
ExitCodeTrue == (at = "returned" /\ ~error) => saved.status = "completed"

\* Failed scans and deliveries do not stop the batch: when nobody cancels it and
\* no system call fails, all of the list is processed (README, "Batchresultaten";
\* TestBatchPostsEachRepositoryAndContinuesAfterScanFailure).
FailuresStopNothing ==
  (at = "returned" /\ status # "none" /\ ~cancelled /\ faults = 0) =>
    saved.status \in {"completed", "incomplete"} /\ AllOnFile

\* A message that batch.json calls "pending" after the batch was not delivered,
\* even if one system call failed, the one that saves the delivery included.
PendingWasNotDelivered ==
  (at = "returned" /\ faults <= 1) =>
    \A m \in accepted : saved.items[m.repository].delivery # "pending"

\* The batch ends, whatever its scans and deliveries do.
BatchEnds == <>(at \in Ended)
=============================================================================
