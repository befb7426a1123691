-------------------------------- MODULE Scan --------------------------------
(***************************************************************************)
(* What one scan promises its caller and the reader of its run.json: a     *)
(* scan returns a status and possibly an error, in one of the combinations *)
(* of Outcomes; run.json says "running" until the scan is over, and what   *)
(* it says then never changes.  A scan without an error is complete and    *)
(* its run.json says so.  The runner may die at any moment.                *)
(***************************************************************************)

VARIABLES
  outcome,   \* Pending, or what the scan returned
  record     \* status in run.json, "none" when there is no such file

Outcome(status, error) == [status |-> status, error |-> error]

Pending == Outcome("running", FALSE)

\* "none": refused before there was a report. A completed scan has an error
\* when its final run.json could not be written.
Outcomes ==
  {Outcome("completed", FALSE)} \cup
  [status : {"none", "completed", "incomplete", "failed"}, error : {TRUE}]

Final == {"completed", "incomplete", "failed"}

ScanInit == outcome = Pending /\ record = "none"

Begin ==
  /\ outcome = Pending
  /\ record = "none" /\ record' = "running"
  /\ UNCHANGED outcome

Conclude ==
  /\ outcome = Pending
  /\ record \notin Final /\ record' \in Final
  /\ UNCHANGED outcome

Return ==
  /\ outcome = Pending
  /\ outcome' \in Outcomes
  /\ record \in Final => outcome'.status = record
  /\ ~outcome'.error => record = "completed"
  /\ UNCHANGED record

ScanNext == Begin \/ Conclude \/ Return

ScanSpec == ScanInit /\ [][ScanNext]_<<outcome, record>>
=============================================================================
