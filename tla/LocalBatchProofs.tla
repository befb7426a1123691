-------------------------- MODULE LocalBatchProofs --------------------------
(***************************************************************************)
(* Proofs about LocalBatch for every set of repositories, every list of    *)
(* the register and every number of failing system calls.                  *)
(*                                                                         *)
(* The inductive invariant says what is known of the repositories that     *)
(* have been processed, of the current one at each point of its delivery,  *)
(* of the messages that were accepted, and of batch.json.                  *)
(***************************************************************************)
EXTENDS LocalBatch, TLAPS

Delivering == {"deliver", "post", "record"}
Begun == {"scan"} \cup Delivering

\* The first repositories of the list, and those still to come.
ProcessedOnes == {repositories[i] : i \in 1..position}

\* How a repository that has been processed ended.
Processed(r) ==
  /\ r \in DOMAIN items \cap DOMAIN submissions \cap DOMAIN runFiles
  /\ items[r].scan = submissions[r]
  /\ items[r].delivery # "pending"
  /\ ~failures =>
       /\ items[r].scan = "completed" /\ runFiles[r] = "completed"
       /\ items[r].delivery = IF posting THEN "posted" ELSE "not_configured"

ProcessedOK == \A r \in ProcessedOnes : Processed(r)

\* A scan without an error is complete.
ScanOK ==
  outcome # Pending /\ ~outcome.error => outcome.status = "completed" /\ record = "completed"

\* The current repository, step by step.
CurrentOK ==
  /\ at \in Begun => Current \in DOMAIN saved.items
  /\ at = "scan" => saved.items = items
  /\ at \in {"scan", "deliver", "post"} =>
       items[Current].delivery = IF posting THEN "pending" ELSE "not_configured"
  /\ at = "post" => posting
  /\ at = "record" =>
       items[Current].delivery \in IF posting THEN {"posted", "failed"} ELSE {"not_configured"}
  /\ at \in Delivering =>
       /\ Current \in DOMAIN submissions \cap DOMAIN runFiles
       /\ items[Current].scan = submissions[Current]
       /\ ~outcome.error => submissions[Current] = "completed" /\ runFiles[Current] = "completed"

\* "posted" is only said of a message that was accepted.
Posted(f) ==
  \A r \in DOMAIN f : f[r].delivery = "posted" =>
    r \in DOMAIN submissions /\ [repository |-> r, scan |-> submissions[r]] \in accepted

PostedOK == Posted(items) /\ Posted(saved.items)

\* Of an accepted message everything is on file but the end of its delivery.
AcceptedOK ==
  /\ AcceptedIsOnFile
  /\ DOMAIN saved.items \subseteq DOMAIN items
  /\ \A m \in accepted :
       /\ items[m.repository].delivery # "pending"
       /\ at \in {"next", "scan", "deliver", "post"} => m.repository \in ProcessedOnes
       /\ at = "record" => m.repository \in ProcessedOnes \cup {Current}

\* Unless a system call failed, only of the current repository batch.json may
\* not know yet that its message was accepted.
SavedDeliveries ==
  /\ (faults = 0 /\ at \notin Ended) =>
       \A m \in accepted :
         saved.items[m.repository].delivery # "pending" \/ (at = "record" /\ m.repository = Current)
  /\ PendingWasNotDelivered

\* What is in the report and in batch.json before, while and after it is written
\* for the last time.
FileOK ==
  /\ at \in {"validate", "list"} =>
       repositories = <<>> /\ position = 0 /\ items = <<>> /\ accepted = {} /\ ~failures
  /\ at = "validate" => status = "none" /\ saved = NotSaved
  /\ at \in {"list", "next"} \cup Begun => status = "running"
  /\ at \notin Ended => saved.status \in {"none", "running"}
  /\ at = "finish" => (status = "completed" \/ error)
  /\ at = "finish" /\ ~cancelled /\ faults = 0 => status \in {"completed", "incomplete"}
  /\ status \in {"completed", "incomplete"} => position = Len(repositories)
  /\ status = "completed" => ~failures
  /\ saved.status \in {"completed", "incomplete"} =>
       position = Len(repositories) /\ saved.items = items
  /\ saved.status = "completed" => ~failures
  /\ (at = "returned" /\ status # "none" /\ ~cancelled /\ faults = 0) =>
       saved.status \in {"completed", "incomplete"}
  /\ ExitCodeTrue

IInv ==
  /\ TypeOK /\ ProcessedOK /\ ScanOK /\ CurrentOK /\ PostedOK
  /\ AcceptedOK /\ SavedDeliveries /\ FileOK

-----------------------------------------------------------------------------
(* Lists and functions. *)

LEMMA ListFacts ==
  ASSUME PlaceType
  PROVE  /\ Len(repositories) \in Nat /\ DOMAIN repositories = 1..Len(repositories)
         /\ \A i \in 1..Len(repositories) : repositories[i] \in Repositories
         /\ \A i, j \in 1..Len(repositories) : repositories[i] = repositories[j] => i = j
         /\ position \in 0..Len(repositories)
<1>1. repositories \in Seq(Repositories)
  <2>1. CASE repositories \in Lists
    BY <2>1, LocalBatchAssumption
  <2>2. CASE repositories = <<>>
    BY <2>2
  <2>3. QED
    BY <2>1, <2>2 DEF PlaceType
<1>2. \A i, j \in DOMAIN repositories : repositories[i] = repositories[j] => i = j
  <2>1. CASE repositories \in Lists
    BY <2>1, LocalBatchAssumption
  <2>2. CASE repositories = <<>>
    BY <2>2
  <2>3. QED
    BY <2>1, <2>2 DEF PlaceType
<1>3. QED
  <2>1. position \in 0..Len(repositories)
    BY DEF PlaceType
  <2>2. QED
    BY <1>1, <1>2, <2>1

\* The current repository has not been processed.
LEMMA CurrentIsNew ==
  ASSUME PlaceType, position < Len(repositories)
  PROVE  Current \in Repositories /\ Current \notin ProcessedOnes
BY ListFacts DEF Current, ProcessedOnes

LEMMA WithType ==
  ASSUME NEW f, NEW S, PartialFunction(f, S), NEW r \in Repositories, NEW value \in S
  PROVE  PartialFunction(With(f, r, value), S)
BY DEF With, PartialFunction

\* An item gets another scan status, or another delivery.
SetScan(f, r, v) == [f EXCEPT ![r].scan = v]

SetDelivery(f, r, v) == [f EXCEPT ![r].delivery = v]

LEMMA ScanSetType ==
  ASSUME NEW f, PartialFunction(f, Item), NEW r \in DOMAIN f, NEW v \in {"running"} \cup Statuses
  PROVE  PartialFunction(SetScan(f, r, v), Item)
<1>1. f[r] \in Item
  BY DEF PartialFunction
<1>2. [f[r] EXCEPT !.scan = v] \in Item
  BY <1>1 DEF Item
<1>3. DOMAIN SetScan(f, r, v) = DOMAIN f /\ SetScan(f, r, v)[r] = [f[r] EXCEPT !.scan = v]
      /\ \A x \in DOMAIN f : x # r => SetScan(f, r, v)[x] = f[x]
  BY DEF SetScan
<1>4. QED
  BY <1>2, <1>3 DEF PartialFunction

LEMMA DeliverySetType ==
  ASSUME NEW f, PartialFunction(f, Item), NEW r \in DOMAIN f,
         NEW v \in {"pending", "not_configured", "posted", "failed"}
  PROVE  PartialFunction(SetDelivery(f, r, v), Item)
<1>1. f[r] \in Item
  BY DEF PartialFunction
<1>2. [f[r] EXCEPT !.delivery = v] \in Item
  BY <1>1 DEF Item
<1>3. DOMAIN SetDelivery(f, r, v) = DOMAIN f /\ SetDelivery(f, r, v)[r] = [f[r] EXCEPT !.delivery = v]
      /\ \A x \in DOMAIN f : x # r => SetDelivery(f, r, v)[x] = f[x]
  BY DEF SetDelivery
<1>4. QED
  BY <1>2, <1>3 DEF PartialFunction

LEMMA FaultType ==
  ASSUME PlaceType, Fault
  PROVE  faults' \in 0..MaxFaults /\ faults' > 0
BY LocalBatchAssumption DEF PlaceType, Fault

\* batch.json after a save.
LEMMA SaveFacts ==
  ASSUME NEW next, Save(next)
  PROVE  \/ /\ saved'.status = status' /\ saved'.items = items' /\ at' = next
            /\ error' = error /\ faults' = faults
         \/ Fault /\ at' = "finish" /\ error' = TRUE /\ saved' = saved
BY DEF Save, Abandon

-----------------------------------------------------------------------------
(* The invariant holds at the start. *)

LEMMA InitIInv == Init => IInv
<1> SUFFICES ASSUME Init PROVE IInv
  OBVIOUS
<1>1. PlaceType
  <2>1. position \in 0..Len(repositories) /\ faults \in 0..MaxFaults
    BY LocalBatchAssumption DEF Init
  <2>2. QED
    BY <2>1 DEF Init, PlaceType
<1>2. FileType
  BY DEF Init, FileType, PartialFunction, NotSaved, ScanInit
<1>3. ProcessedOK /\ ScanOK /\ CurrentOK
  BY DEF Init, ScanInit, ProcessedOK, ProcessedOnes, ScanOK, CurrentOK, Begun, Delivering
<1>4. PostedOK /\ AcceptedOK /\ SavedDeliveries
  BY DEF Init, NotSaved, PostedOK, Posted, AcceptedOK, AcceptedIsOnFile, SavedDeliveries,
    PendingWasNotDelivered
<1>5. FileOK
  BY DEF Init, NotSaved, FileOK, ExitCodeTrue, Begun, Delivering
<1>6. QED
  BY <1>1, <1>2, <1>3, <1>4, <1>5 DEF IInv, TypeOK

-----------------------------------------------------------------------------
(* No step ends it. *)

listVars == <<posting, repositories, position, failures>>

\* Steps that leave the items, the messages and batch.json as they are.
LEMMA QuietSteps ==
  ASSUME IInv, \/ Refuse \/ ReadListFails \/ StopBetweenScans \/ Deliver \/ AllProcessed
               \/ Cancel \/ Crash
  PROVE  IInv'
<1>1. UNCHANGED <<listVars, items, saved, messageVars, scanVars>>
  BY DEF Refuse, ReadListFails, StopBetweenScans, Deliver, AllProcessed, Cancel, Crash, listVars,
    reportVars, messageVars, scanVars
<1>2. (at' \in Begun => at \in Begun) /\ at # "returned"
      /\ (at' = at \/ at' \in Ended \cup {"finish"} \/ (at = "deliver" /\ at' \in {"post", "record"}))
  BY DEF Refuse, ReadListFails, StopBetweenScans, Deliver, AllProcessed, Cancel, Crash, Abandon,
    Begun, Delivering, Ended
<1>3. PlaceType'
  <2>1. faults' \in 0..MaxFaults
    BY FaultType DEF IInv, TypeOK, PlaceType, Refuse, ReadListFails, StopBetweenScans, Deliver,
      AllProcessed, Cancel, Crash
  <2>2. error' \in BOOLEAN
    BY DEF IInv, TypeOK, PlaceType, Refuse, ReadListFails, StopBetweenScans, Deliver,
      AllProcessed, Cancel, Crash, Abandon
  <2>3. cancelled' \in BOOLEAN
    BY DEF IInv, TypeOK, PlaceType, Refuse, ReadListFails, StopBetweenScans, Deliver,
      AllProcessed, Cancel, Crash
  <2>4. QED
    BY <1>1, <1>2, <2>1, <2>2, <2>3 DEF IInv, TypeOK, PlaceType, Begun, Delivering, Ended, Current,
      listVars
<1>4. FileType'
  <2>1. status' \in {"none", "running"} \cup Statuses
    BY DEF IInv, TypeOK, FileType, Statuses, Refuse, ReadListFails, StopBetweenScans, Deliver,
      AllProcessed, Cancel, Crash, reportVars
  <2>2. QED
    BY <1>1, <2>1 DEF IInv, TypeOK, FileType, messageVars, scanVars
<1>5. ProcessedOK' /\ ScanOK' /\ PostedOK'
  BY <1>1 DEF IInv, ProcessedOK, ProcessedOnes, Processed, ScanOK, PostedOK, Posted, listVars,
    messageVars, scanVars
<1>6. CurrentOK'
  <2>1. CASE at' = at
    BY <1>1, <2>1 DEF IInv, CurrentOK, Current, Begun, Delivering, listVars, messageVars, scanVars
  <2>2. CASE at' \in Ended \cup {"finish"}
    BY <2>2 DEF CurrentOK, Begun, Delivering, Ended
  <2>3. CASE at = "deliver" /\ at' \in {"post", "record"}
    <3>1. at' = IF posting THEN "post" ELSE "record"
      BY <2>3 DEF Refuse, ReadListFails, StopBetweenScans, Deliver, AllProcessed, Cancel, Crash,
        Abandon, Ended
    <3>2. QED
      BY <1>1, <2>3, <3>1 DEF IInv, CurrentOK, Current, Begun, Delivering, listVars, messageVars,
        scanVars
  <2>4. QED
    BY <1>2, <2>1, <2>2, <2>3
<1>7. AcceptedOK'
  BY <1>1, <1>2 DEF IInv, AcceptedOK, AcceptedIsOnFile, ProcessedOnes, Current, Ended, listVars,
    messageVars
<1>8. SavedDeliveries'
  <2>1. CASE at' = "returned"
    <3>1. Refuse
      BY <2>1 DEF Refuse, ReadListFails, StopBetweenScans, Deliver, AllProcessed, Cancel, Crash,
        Abandon, Ended
    <3>2. accepted' = {}
      BY <1>1, <3>1 DEF IInv, FileOK, Refuse, messageVars
    <3>3. QED
      BY <3>2 DEF SavedDeliveries, PendingWasNotDelivered
  <2>2. CASE at' # "returned"
    <3>1. ASSUME faults' = 0, at' \notin Ended, NEW m \in accepted'
          PROVE  saved'.items[m.repository].delivery # "pending"
                 \/ (at' = "record" /\ m.repository = Current')
      <4>1. faults = 0 /\ at \notin Ended
        BY <3>1, <1>2, FaultType DEF IInv, TypeOK, PlaceType, Refuse, ReadListFails,
          StopBetweenScans, Deliver, AllProcessed, Cancel, Crash, Ended
      <4>2. CASE at = "record"
        BY <1>1, <1>2, <3>1, <4>1, <4>2 DEF IInv, SavedDeliveries, Current, listVars, messageVars,
          Refuse, ReadListFails, StopBetweenScans, Deliver, AllProcessed, Cancel, Crash, Ended
      <4>3. CASE at # "record"
        BY <1>1, <3>1, <4>1, <4>3 DEF IInv, SavedDeliveries, messageVars
      <4>4. QED
        BY <4>2, <4>3
    <3>2. QED
      BY <2>2, <3>1 DEF SavedDeliveries, PendingWasNotDelivered
  <2>3. QED
    BY <2>1, <2>2
<1>9. FileOK'
  <2>1. CASE AllProcessed
    BY <1>1, <2>1 DEF IInv, FileOK, ExitCodeTrue, AllProcessed, Begun, Delivering, Ended, listVars
  <2>2. CASE Refuse
    BY <1>1, <2>2 DEF IInv, FileOK, ExitCodeTrue, Refuse, Begun, Delivering, Ended, NotSaved,
      listVars, messageVars, reportVars
  <2>3. CASE ReadListFails \/ StopBetweenScans
    BY <1>1, <2>3, FaultType DEF IInv, TypeOK, FileOK, ExitCodeTrue, ReadListFails,
      StopBetweenScans, Abandon, Begun, Delivering, Ended, listVars, reportVars
  <2>4. CASE Deliver
    BY <1>1, <2>4 DEF IInv, FileOK, ExitCodeTrue, Deliver, Abandon, Begun, Delivering, Ended,
      listVars, reportVars
  <2>5. CASE Cancel \/ Crash
    BY <1>1, <2>5 DEF IInv, FileOK, ExitCodeTrue, Cancel, Crash, Begun, Delivering, Ended,
      listVars, messageVars, reportVars
  <2>6. QED
    BY <2>1, <2>2, <2>3, <2>4, <2>5
<1>10. QED
  BY <1>3, <1>4, <1>5, <1>6, <1>7, <1>8, <1>9 DEF IInv, TypeOK

\* The scan itself.
LEMMA ScanProceedsStep ==
  ASSUME IInv, ScanProceeds
  PROVE  IInv'
<1>1. UNCHANGED <<listVars, at, items, status, error, saved, messageVars, cancelled, faults>>
      /\ at = "scan" /\ ScanNext
  BY DEF ScanProceeds, listVars, reportVars
<1>2. outcome' \in Outcomes \cup {Pending} /\ record' \in {"none", "running"} \cup Statuses
  BY <1>1 DEF IInv, TypeOK, FileType, ScanNext, Begin, Conclude, Return, Final, Statuses
<1>3. ScanOK'
  <2>1. CASE Return
    BY <2>1 DEF ScanOK, Return, Outcomes, Outcome, Final
  <2>2. CASE Begin \/ Conclude
    BY <2>2 DEF ScanOK, Begin, Conclude
  <2>3. QED
    BY <1>1, <2>1, <2>2 DEF ScanNext
<1>4. TypeOK'
  BY <1>1, <1>2 DEF IInv, TypeOK, PlaceType, FileType, Current, listVars, messageVars
<1>5. ProcessedOK' /\ CurrentOK' /\ PostedOK' /\ AcceptedOK'
  BY <1>1 DEF IInv, ProcessedOK, Processed, ProcessedOnes, CurrentOK, Current, PostedOK, Posted,
    AcceptedOK, AcceptedIsOnFile, Begun, Delivering, listVars, messageVars
<1>6. SavedDeliveries' /\ FileOK'
  BY <1>1 DEF IInv, SavedDeliveries, PendingWasNotDelivered, FileOK, ExitCodeTrue, Current, Begun,
    Delivering, listVars, messageVars
<1>7. QED
  BY <1>3, <1>4, <1>5, <1>6 DEF IInv

LEMMA FirstSaveStep ==
  ASSUME IInv, FirstSave
  PROVE  IInv'
<1>1. /\ at = "validate" /\ status' = "running"
      /\ UNCHANGED <<listVars, items, messageVars, scanVars, cancelled>>
      /\ \/ /\ saved'.status = "running" /\ saved'.items = items /\ at' = "list"
            /\ error' = error /\ faults' = faults
         \/ Fault /\ at' = "finish" /\ error' = TRUE /\ saved' = saved
  BY SaveFacts DEF FirstSave, listVars
<1>2. items = <<>> /\ accepted = {} /\ position = 0 /\ repositories = <<>> /\ ~failures
      /\ saved.status = "none" /\ saved.items = <<>>
  BY <1>1 DEF IInv, FileOK, NotSaved
<1>3. PlaceType'
  BY <1>1, FaultType DEF IInv, TypeOK, PlaceType, Ended, listVars
<1>4. FileType'
  BY <1>1, <1>2 DEF IInv, TypeOK, FileType, messageVars, scanVars
<1>5. ProcessedOK' /\ ScanOK' /\ CurrentOK'
  BY <1>1, <1>2 DEF IInv, ProcessedOK, ProcessedOnes, ScanOK, CurrentOK, Begun, Delivering,
    listVars, scanVars
<1>6. PostedOK' /\ AcceptedOK' /\ SavedDeliveries'
  BY <1>1, <1>2 DEF PostedOK, Posted, AcceptedOK, AcceptedIsOnFile, SavedDeliveries,
    PendingWasNotDelivered, messageVars
<1>7. FileOK'
  BY <1>1, <1>2, FaultType DEF IInv, TypeOK, FileOK, ExitCodeTrue, Begun, Delivering, Ended,
    listVars, messageVars
<1>8. QED
  BY <1>3, <1>4, <1>5, <1>6, <1>7 DEF IInv, TypeOK

LEMMA ReadListStep ==
  ASSUME IInv, ReadList
  PROVE  IInv'
<1>1. /\ at = "list" /\ at' = "next" /\ repositories' \in Lists
      /\ UNCHANGED <<posting, position, items, status, failures, error, saved, messageVars,
                     scanVars, cancelled, faults>>
  BY DEF ReadList, reportVars
<1>2. items = <<>> /\ accepted = {} /\ position = 0 /\ ~failures /\ status = "running"
      /\ saved.status \in {"none", "running"}
  BY <1>1 DEF IInv, FileOK, Ended
<1>3. PlaceType'
  <2>1. position' \in 0..Len(repositories')
    <3>1. Len(repositories') \in Nat
      BY <1>1, LocalBatchAssumption
    <3>2. QED
      BY <1>1, <1>2, <3>1
  <2>2. QED
    BY <1>1, <2>1 DEF IInv, TypeOK, PlaceType
<1>4. FileType'
  BY <1>1 DEF IInv, TypeOK, FileType, messageVars, scanVars
<1>5. ProcessedOK' /\ ScanOK' /\ CurrentOK'
  BY <1>1, <1>2 DEF IInv, ProcessedOK, ProcessedOnes, ScanOK, CurrentOK, Begun, Delivering,
    scanVars
<1>6. PostedOK' /\ AcceptedOK' /\ SavedDeliveries'
  BY <1>1, <1>2 DEF IInv, PostedOK, Posted, AcceptedOK, AcceptedIsOnFile, SavedDeliveries,
    PendingWasNotDelivered, messageVars
<1>7. FileOK'
  BY <1>1, <1>2 DEF IInv, FileOK, ExitCodeTrue, Begun, Delivering, Ended
<1>8. QED
  BY <1>3, <1>4, <1>5, <1>6, <1>7 DEF IInv, TypeOK

\* Steps that save batch.json for the last time.
LEMMA FinishStep ==
  ASSUME IInv, Finish
  PROVE  IInv'
<1>1. /\ at = "finish" /\ at' = "returned"
      /\ status' = IF status = "running" THEN "failed" ELSE status
      /\ UNCHANGED <<listVars, items, messageVars, scanVars, cancelled>>
      /\ \/ /\ saved'.status = status' /\ saved'.items = items
            /\ error' = error /\ faults' = faults
         \/ Fault /\ error' = TRUE /\ saved' = saved
  BY DEF Finish, FinalItems, Unsaved, listVars
<1>2. PlaceType'
  BY <1>1, FaultType DEF IInv, TypeOK, PlaceType, Ended, listVars
<1>3. FileType'
  BY <1>1 DEF IInv, TypeOK, FileType, Statuses, messageVars, scanVars
<1>4. ProcessedOK' /\ ScanOK' /\ CurrentOK'
  BY <1>1 DEF IInv, ProcessedOK, Processed, ProcessedOnes, ScanOK, CurrentOK, Begun, Delivering,
    listVars, messageVars, scanVars
<1>5. PostedOK'
  BY <1>1 DEF IInv, PostedOK, Posted, messageVars
<1>6. AcceptedOK'
  <2>1. \A m \in accepted : m.repository \in DOMAIN items
    BY DEF IInv, AcceptedOK, AcceptedIsOnFile
  <2>2. QED
    BY <1>1, <2>1 DEF IInv, AcceptedOK, AcceptedIsOnFile, messageVars
<1>7. SavedDeliveries'
  <2>1. CASE saved'.items = items
    BY <1>1, <2>1 DEF IInv, AcceptedOK, SavedDeliveries, PendingWasNotDelivered, Ended, messageVars
  <2>2. CASE Fault /\ saved' = saved
    <3>1. faults' <= 1 => faults = 0
      BY <2>2, LocalBatchAssumption DEF IInv, TypeOK, PlaceType, Fault
    <3>2. QED
      BY <1>1, <2>2, <3>1 DEF IInv, SavedDeliveries, PendingWasNotDelivered, Ended, messageVars
  <2>3. QED
    BY <1>1, <2>1, <2>2
<1>8. FileOK'
  <2>1. status' \in {"completed", "incomplete"} => status' = status
    BY <1>1
  <2>2. CASE saved'.items = items /\ saved'.status = status' /\ error' = error /\ faults' = faults
    BY <1>1, <2>1, <2>2 DEF IInv, FileOK, ExitCodeTrue, Begun, Delivering, Ended, listVars,
      messageVars
  <2>3. CASE Fault /\ error' = TRUE /\ saved' = saved
    BY <1>1, <2>1, <2>3, FaultType DEF IInv, TypeOK, FileOK, ExitCodeTrue, Begun, Delivering,
      Ended, listVars, messageVars
  <2>4. QED
    BY <1>1, <2>2, <2>3
<1>9. QED
  BY <1>2, <1>3, <1>4, <1>5, <1>6, <1>7, <1>8 DEF IInv, TypeOK

LEMMA StartScanStep ==
  ASSUME IInv, StartScan
  PROVE  IInv'
<1> DEFINE r == Current
           item == [scan |-> "running",
                    delivery |-> IF posting THEN "pending" ELSE "not_configured"]
<1>1. /\ at = "next" /\ position < Len(repositories) /\ ~cancelled
      /\ items' = With(items, r, item)
      /\ UNCHANGED <<listVars, status, messageVars, cancelled>>
      /\ outcome' = Pending /\ record' = "none"
      /\ \/ /\ saved'.status = status' /\ saved'.items = items' /\ at' = "scan"
            /\ error' = error /\ faults' = faults
         \/ Fault /\ at' = "finish" /\ error' = TRUE /\ saved' = saved
  BY SaveFacts DEF StartScan, listVars
<1>2. r \in Repositories /\ r \notin ProcessedOnes /\ r' = r
  BY <1>1, CurrentIsNew DEF IInv, TypeOK, Current, listVars
<1>3. /\ PartialFunction(items', Item) /\ DOMAIN items' = DOMAIN items \cup {r}
      /\ items'[r] = item /\ \A x \in DOMAIN items : x # r => items'[x] = items[x]
  <2>1. item \in Item
    BY DEF Item
  <2>2. PartialFunction(items, Item)
    BY DEF IInv, TypeOK, FileType
  <2> HIDE DEF item, r
  <2>3. PartialFunction(With(items, r, item), Item)
    BY <1>2, <2>1, <2>2, WithType
  <2>4. DOMAIN items' = DOMAIN items \cup {r}
    BY <1>1 DEF With
  <2>5. items'[r] = item
    BY <1>1 DEF With
  <2>6. \A x \in DOMAIN items : x # r => items'[x] = items[x]
    BY <1>1 DEF With
  <2>7. QED
    BY <1>1, <2>3, <2>4, <2>5, <2>6
<1>4. item.delivery = (IF posting THEN "pending" ELSE "not_configured") /\ item.delivery # "posted"
  OBVIOUS
<1> HIDE DEF item, r
<1>5. PlaceType'
  BY <1>1, <1>2, <1>3, FaultType DEF IInv, TypeOK, PlaceType, Ended, listVars, r
<1>6. FileType'
  BY <1>1, <1>3 DEF IInv, TypeOK, FileType, messageVars, Outcomes
<1>7. ProcessedOK'
  BY <1>1, <1>2, <1>3 DEF IInv, ProcessedOK, ProcessedOnes, Processed, listVars, messageVars
<1>8. ScanOK'
  BY <1>1 DEF ScanOK
<1>9. CurrentOK'
  BY <1>1, <1>2, <1>3, <1>4 DEF CurrentOK, Begun, Delivering, listVars, r
<1>10. PostedOK'
  BY <1>1, <1>3, <1>4 DEF IInv, PostedOK, Posted, messageVars
<1>11. \A m \in accepted : m.repository \in DOMAIN items /\ m.repository # r
  BY <1>1, <1>2 DEF IInv, AcceptedOK, AcceptedIsOnFile
<1>12. AcceptedOK'
  BY <1>1, <1>3, <1>11 DEF IInv, AcceptedOK, AcceptedIsOnFile, ProcessedOnes, listVars, messageVars
<1>13. SavedDeliveries'
  <2>1. CASE at' = "scan" /\ saved'.items = items'
    BY <1>1, <1>3, <1>11, <2>1 DEF IInv, AcceptedOK, SavedDeliveries, PendingWasNotDelivered, Ended,
      messageVars
  <2>2. CASE Fault /\ at' = "finish"
    BY <2>2, FaultType DEF IInv, TypeOK, SavedDeliveries, PendingWasNotDelivered
  <2>3. QED
    BY <1>1, <2>1, <2>2
<1>14. FileOK'
  BY <1>1, FaultType DEF IInv, TypeOK, FileOK, ExitCodeTrue, Begun, Delivering, Ended, listVars
<1>15. QED
  BY <1>5, <1>6, <1>7, <1>8, <1>9, <1>10, <1>12, <1>13, <1>14 DEF IInv, TypeOK

LEMMA SaveSubmissionStep ==
  ASSUME IInv, SaveSubmission
  PROVE  IInv'
<1> DEFINE r == Current
<1>1. /\ at = "scan" /\ outcome # Pending
      /\ items' = SetScan(items, r, ScanStatus)
      /\ runFiles' = With(runFiles, r, record)
      /\ UNCHANGED <<listVars, status, saved, accepted, scanVars, cancelled>>
      /\ \/ /\ submissions' = With(submissions, r, ScanStatus)
            /\ at' = "deliver" /\ error' = error /\ faults' = faults
         \/ Fault /\ at' = "finish" /\ error' = TRUE /\ submissions' = submissions
  BY DEF SaveSubmission, SetScan, Abandon, listVars
<1>2. /\ r \in Repositories /\ r \notin ProcessedOnes /\ r' = r /\ r \in DOMAIN items
      /\ position < Len(repositories)
  BY <1>1, CurrentIsNew DEF IInv, TypeOK, PlaceType, Current, listVars
<1>3. /\ ScanStatus \in Statuses
      /\ ~outcome.error => ScanStatus = "completed" /\ record = "completed"
  <2>1. outcome \in Outcomes
    BY <1>1 DEF IInv, TypeOK, FileType
  <2>2. outcome.status \in {"none", "completed", "incomplete", "failed"}
    <3>1. CASE outcome = Outcome("completed", FALSE)
      BY <3>1 DEF Outcome
    <3>2. CASE outcome \in [status : {"none", "completed", "incomplete", "failed"}, error : {TRUE}]
      BY <3>2
    <3>3. QED
      BY <2>1, <3>1, <3>2 DEF Outcomes
  <2>3. QED
    BY <1>1, <2>2 DEF IInv, ScanOK, ScanStatus, Statuses
<1>4. /\ PartialFunction(items', Item) /\ DOMAIN items' = DOMAIN items
      /\ items'[r].scan = ScanStatus /\ items'[r].delivery = items[r].delivery
      /\ \A x \in DOMAIN items : x # r => items'[x] = items[x]
  <2>1. PartialFunction(items, Item)
    BY DEF IInv, TypeOK, FileType
  <2> HIDE DEF r
  <2>2. r \in DOMAIN items /\ ScanStatus \in {"running"} \cup Statuses
    BY <1>2, <1>3
  <2>3. PartialFunction(items', Item)
    BY <1>1, <2>1, <2>2, ScanSetType
  <2>4. DOMAIN items' = DOMAIN items
    BY <1>1 DEF SetScan
  <2>5. items'[r] = [items[r] EXCEPT !.scan = ScanStatus]
    BY <1>1, <2>2 DEF SetScan
  <2>6. items[r] \in Item
    BY <2>1, <2>2 DEF PartialFunction
  <2>7. \A x \in DOMAIN items : x # r => items'[x] = items[x]
    BY <1>1 DEF SetScan
  <2>8. QED
    BY <2>3, <2>4, <2>5, <2>6, <2>7 DEF Item
<1>5. /\ PartialFunction(runFiles', {"none", "running"} \cup Statuses)
      /\ DOMAIN runFiles' = DOMAIN runFiles \cup {r} /\ runFiles'[r] = record
      /\ \A x \in DOMAIN runFiles : x # r => runFiles'[x] = runFiles[x]
  <2>1. PartialFunction(runFiles, {"none", "running"} \cup Statuses)
        /\ record \in {"none", "running"} \cup Statuses
    BY DEF IInv, TypeOK, FileType
  <2> HIDE DEF r
  <2>2. PartialFunction(With(runFiles, r, record), {"none", "running"} \cup Statuses)
    BY <1>2, <2>1, WithType
  <2>3. DOMAIN runFiles' = DOMAIN runFiles \cup {r}
    BY <1>1 DEF With
  <2>4. runFiles'[r] = record
    BY <1>1 DEF With
  <2>5. \A x \in DOMAIN runFiles : x # r => runFiles'[x] = runFiles[x]
    BY <1>1 DEF With
  <2>6. QED
    BY <1>1, <2>2, <2>3, <2>4, <2>5
<1>6. /\ PartialFunction(submissions', Statuses) /\ DOMAIN submissions \subseteq DOMAIN submissions'
      /\ at' = "deliver" => r \in DOMAIN submissions' /\ submissions'[r] = ScanStatus
      /\ \A x \in DOMAIN submissions : x # r => submissions'[x] = submissions[x]
  <2>1. PartialFunction(submissions, Statuses)
    BY DEF IInv, TypeOK, FileType
  <2> HIDE DEF r
  <2>2. PartialFunction(With(submissions, r, ScanStatus), Statuses)
    BY <1>2, <1>3, <2>1, WithType
  <2>3. DOMAIN With(submissions, r, ScanStatus) = DOMAIN submissions \cup {r}
    BY DEF With
  <2>4. With(submissions, r, ScanStatus)[r] = ScanStatus
    BY DEF With
  <2>5. \A x \in DOMAIN submissions : x # r => With(submissions, r, ScanStatus)[x] = submissions[x]
    BY DEF With
  <2>6. QED
    BY <1>1, <2>1, <2>2, <2>3, <2>4, <2>5
<1>7. saved.items = items /\ items[r].delivery = IF posting THEN "pending" ELSE "not_configured"
  BY <1>1 DEF IInv, CurrentOK
<1>8. \A m \in accepted : m.repository \in DOMAIN items /\ m.repository # r
  BY <1>1, <1>2 DEF IInv, AcceptedOK, AcceptedIsOnFile
<1> HIDE DEF r
<1>9. PlaceType'
  BY <1>1, <1>2, <1>4, FaultType DEF IInv, TypeOK, PlaceType, Ended, listVars, r
<1>10. FileType'
  BY <1>1, <1>4, <1>5, <1>6 DEF IInv, TypeOK, FileType, scanVars
<1>11. ProcessedOK'
  BY <1>1, <1>2, <1>4, <1>5, <1>6 DEF IInv, ProcessedOK, ProcessedOnes, Processed, listVars
<1>12. ScanOK'
  BY <1>1 DEF IInv, ScanOK, scanVars
<1>13. CurrentOK'
  BY <1>1, <1>2, <1>3, <1>4, <1>5, <1>6, <1>7 DEF CurrentOK, Begun, Delivering, listVars,
    scanVars, r
<1>14. PostedOK'
  BY <1>1, <1>4, <1>6, <1>7 DEF IInv, PostedOK, Posted
<1>15. AcceptedOK'
  BY <1>1, <1>4, <1>6, <1>8 DEF IInv, AcceptedOK, AcceptedIsOnFile, ProcessedOnes, listVars
<1>16. SavedDeliveries'
  BY <1>1, FaultType DEF IInv, TypeOK, SavedDeliveries, PendingWasNotDelivered, Ended
<1>17. FileOK'
  BY <1>1, FaultType DEF IInv, TypeOK, FileOK, ExitCodeTrue, Begun, Delivering, Ended, listVars
<1>18. QED
  BY <1>9, <1>10, <1>11, <1>12, <1>13, <1>14, <1>15, <1>16, <1>17 DEF IInv, TypeOK

LEMMA PostSteps ==
  ASSUME IInv, Post \/ PostFails
  PROVE  IInv'
<1> DEFINE r == Current
<1>1. PICK v \in {"posted", "failed"} :
        /\ at = "post" /\ at' = "record"
        /\ items' = SetDelivery(items, r, v)
        /\ accepted' \in {accepted, accepted \cup {Message}}
        /\ v = "posted" => accepted' = accepted \cup {Message}
        /\ UNCHANGED <<listVars, status, error, saved, submissions, runFiles, scanVars, cancelled,
                       faults>>
  <2>1. CASE Post
    BY <2>1 DEF Post, SetDelivery, listVars
  <2>2. CASE PostFails
    BY <2>2 DEF PostFails, AfterFailedPost, SetDelivery, listVars
  <2>3. QED
    BY <2>1, <2>2
<1>2. /\ r \in Repositories /\ r \notin ProcessedOnes /\ r' = r /\ r \in DOMAIN items
      /\ position < Len(repositories)
  BY <1>1, CurrentIsNew DEF IInv, TypeOK, PlaceType, Current, listVars
<1>3. /\ posting /\ r \in DOMAIN saved.items
      /\ r \in DOMAIN submissions \cap DOMAIN runFiles /\ items[r].scan = submissions[r]
      /\ ~outcome.error => submissions[r] = "completed" /\ runFiles[r] = "completed"
  BY <1>1 DEF IInv, CurrentOK, Begun, Delivering
<1>4. Message = [repository |-> r, scan |-> submissions[r]] /\ submissions[r] \in Statuses
  BY <1>3 DEF Message, IInv, TypeOK, FileType, PartialFunction
<1>5. /\ PartialFunction(items', Item) /\ DOMAIN items' = DOMAIN items
      /\ items'[r].delivery = v /\ items'[r].scan = items[r].scan
      /\ \A x \in DOMAIN items : x # r => items'[x] = items[x]
  <2>1. PartialFunction(items, Item)
    BY DEF IInv, TypeOK, FileType
  <2>2. v \in {"pending", "not_configured", "posted", "failed"}
    BY <1>1
  <2> HIDE DEF r
  <2>3. r \in DOMAIN items
    BY <1>2
  <2>4. PartialFunction(items', Item)
    BY <1>1, <2>1, <2>2, <2>3, DeliverySetType
  <2>5. DOMAIN items' = DOMAIN items
    BY <1>1 DEF SetDelivery
  <2>6. items'[r] = [items[r] EXCEPT !.delivery = v]
    BY <1>1, <2>3 DEF SetDelivery
  <2>7. items[r] \in Item
    BY <2>1, <2>3 DEF PartialFunction
  <2>8. \A x \in DOMAIN items : x # r => items'[x] = items[x]
    BY <1>1 DEF SetDelivery
  <2>9. QED
    BY <2>4, <2>5, <2>6, <2>7, <2>8 DEF Item
<1> HIDE DEF r
<1>6. PlaceType'
  BY <1>1, <1>2, <1>5 DEF IInv, TypeOK, PlaceType, Ended, listVars, r
<1>7. FileType'
  <2>1. accepted' \subseteq [repository : Repositories, scan : Statuses]
    BY <1>1, <1>2, <1>4 DEF IInv, TypeOK, FileType
  <2>2. QED
    BY <1>1, <1>5, <2>1 DEF IInv, TypeOK, FileType, scanVars
<1>8. ProcessedOK'
  BY <1>1, <1>2, <1>5 DEF IInv, ProcessedOK, ProcessedOnes, Processed, listVars
<1>9. ScanOK'
  BY <1>1 DEF IInv, ScanOK, scanVars
<1>10. CurrentOK'
  BY <1>1, <1>2, <1>3, <1>5 DEF CurrentOK, Begun, Delivering, listVars, scanVars, r
<1>11. PostedOK'
  BY <1>1, <1>3, <1>4, <1>5 DEF IInv, PostedOK, Posted
<1>12. AcceptedOK'
  <2>1. \A m \in accepted : m.repository \in DOMAIN items /\ m.repository # r
        /\ m.repository \in ProcessedOnes
    BY <1>1, <1>2 DEF IInv, AcceptedOK, AcceptedIsOnFile
  <2>2. ProcessedOnes' = ProcessedOnes
    BY <1>1 DEF ProcessedOnes, listVars
  <2>3. ASSUME NEW m \in accepted'
        PROVE  /\ m.repository \in DOMAIN submissions' /\ submissions'[m.repository] = m.scan
               /\ m.repository \in DOMAIN saved'.items
               /\ items'[m.repository].delivery # "pending"
               /\ m.repository \in ProcessedOnes' \cup {r}
    <3>1. CASE m = Message
      BY <1>1, <1>3, <1>4, <1>5, <3>1
    <3>2. CASE m \in accepted
      BY <1>1, <1>5, <2>1, <2>2, <3>2 DEF IInv, AcceptedOK, AcceptedIsOnFile
    <3>3. QED
      BY <1>1, <2>3, <3>1, <3>2
  <2>4. QED
    BY <1>1, <1>2, <1>5, <2>3 DEF IInv, AcceptedOK, AcceptedIsOnFile, r
<1>13. SavedDeliveries'
  BY <1>1, <1>2, <1>4 DEF IInv, SavedDeliveries, PendingWasNotDelivered, Ended, r
<1>14. FileOK'
  BY <1>1 DEF IInv, FileOK, ExitCodeTrue, Begun, Delivering, Ended, listVars
<1>15. QED
  BY <1>6, <1>7, <1>8, <1>9, <1>10, <1>11, <1>12, <1>13, <1>14 DEF IInv, TypeOK

LEMMA SaveItemStep ==
  ASSUME IInv, SaveItem
  PROVE  IInv'
<1> DEFINE r == Current
<1>1. /\ at = "record" /\ failures' = (failures \/ Failed) /\ position' = position + 1
      /\ UNCHANGED <<posting, repositories, items, status, messageVars, scanVars, cancelled>>
      /\ \/ /\ saved'.status = status' /\ saved'.items = items' /\ at' = "next"
            /\ error' = error /\ faults' = faults
         \/ Fault /\ at' = "finish" /\ error' = TRUE /\ saved' = saved
  BY SaveFacts DEF SaveItem, NextPosition
<1>2. /\ r \in DOMAIN items /\ position < Len(repositories) /\ Len(repositories) \in Nat
      /\ position \in 0..Len(repositories)
  BY <1>1, ListFacts DEF IInv, TypeOK, PlaceType
<1>3. position' \in 0..Len(repositories')
  BY <1>1, <1>2
<1>4. ProcessedOnes' = ProcessedOnes \cup {r}
  <2>1. 1..position' = 1..position \cup {position + 1}
    BY <1>1, <1>2
  <2>2. QED
    BY <1>1, <2>1 DEF ProcessedOnes, Current
<1>5. /\ r \in DOMAIN submissions \cap DOMAIN runFiles /\ items[r].scan = submissions[r]
      /\ ~outcome.error => submissions[r] = "completed" /\ runFiles[r] = "completed"
      /\ items[r].delivery \in IF posting THEN {"posted", "failed"} ELSE {"not_configured"}
  BY <1>1 DEF IInv, CurrentOK, Delivering
<1>6. PlaceType'
  <2>1. failures' \in BOOLEAN
    BY <1>1 DEF IInv, TypeOK, PlaceType, Failed
  <2>2. QED
    BY <1>1, <1>3, <2>1, FaultType DEF IInv, TypeOK, PlaceType, Ended
<1>7. FileType'
  BY <1>1 DEF IInv, TypeOK, FileType, messageVars, scanVars
<1>8. ~failures' => ~failures /\ ~Failed
  BY <1>1
<1>9. ProcessedOK'
  <2>1. ASSUME NEW x, x = r PROVE Processed(x)'
    BY <1>1, <1>2, <1>5, <1>8, <2>1 DEF Processed, Failed, messageVars
  <2>2. ASSUME NEW x \in ProcessedOnes PROVE Processed(x)'
    BY <1>1, <1>8 DEF IInv, ProcessedOK, Processed, messageVars
  <2>3. QED
    BY <1>4, <2>1, <2>2 DEF ProcessedOK
<1>10. ScanOK' /\ CurrentOK'
  BY <1>1 DEF IInv, ScanOK, CurrentOK, Begun, Delivering, scanVars
<1>11. PostedOK'
  BY <1>1 DEF IInv, PostedOK, Posted, messageVars
<1>12. AcceptedOK'
  <2>1. \A m \in accepted : m.repository \in ProcessedOnes' /\ m.repository \in DOMAIN items
    BY <1>1, <1>4 DEF IInv, AcceptedOK, AcceptedIsOnFile
  <2>2. QED
    BY <1>1, <2>1 DEF IInv, AcceptedOK, AcceptedIsOnFile, messageVars
<1>13. SavedDeliveries'
  <2>1. CASE at' = "next" /\ saved'.items = items'
    BY <1>1, <2>1 DEF IInv, AcceptedOK, SavedDeliveries, PendingWasNotDelivered, messageVars
  <2>2. CASE Fault /\ at' = "finish"
    BY <2>2, FaultType DEF IInv, TypeOK, SavedDeliveries, PendingWasNotDelivered
  <2>3. QED
    BY <1>1, <2>1, <2>2
<1>14. FileOK'
  BY <1>1, FaultType DEF IInv, TypeOK, FileOK, ExitCodeTrue, Begun, Delivering, Ended
<1>15. QED
  BY <1>6, <1>7, <1>9, <1>10, <1>11, <1>12, <1>13, <1>14 DEF IInv, TypeOK

LEMMA NextIInv == IInv /\ [Next]_vars => IInv'
<1> SUFFICES ASSUME IInv, [Next]_vars PROVE IInv'
  OBVIOUS
<1>1. CASE \/ Refuse \/ ReadListFails \/ StopBetweenScans \/ Deliver \/ AllProcessed
           \/ Cancel \/ Crash
  BY <1>1, QuietSteps
<1>2. CASE FirstSave \/ ReadList \/ Finish
  BY <1>2, FirstSaveStep, ReadListStep, FinishStep
<1>3. CASE StartScan \/ ScanProceeds \/ SaveSubmission
  BY <1>3, StartScanStep, ScanProceedsStep, SaveSubmissionStep
<1>4. CASE Post \/ PostFails \/ SaveItem
  BY <1>4, PostSteps, SaveItemStep
<1>5. CASE UNCHANGED vars
  <2>1. UNCHANGED <<listVars, at, items, status, error, saved, submissions, accepted, runFiles,
                    outcome, record, cancelled, faults>>
    BY <1>5 DEF vars, listVars, reportVars, messageVars, scanVars
  <2>2. TypeOK'
    BY <2>1 DEF IInv, TypeOK, PlaceType, FileType, Current, listVars
  <2>3. ProcessedOK' /\ ScanOK' /\ CurrentOK' /\ PostedOK' /\ AcceptedOK'
    BY <2>1 DEF IInv, ProcessedOK, Processed, ProcessedOnes, ScanOK, CurrentOK, Current, PostedOK,
      Posted, AcceptedOK, AcceptedIsOnFile, Begun, Delivering, listVars
  <2>4. SavedDeliveries' /\ FileOK'
    BY <2>1 DEF IInv, SavedDeliveries, PendingWasNotDelivered, FileOK, ExitCodeTrue, Current,
      Begun, Delivering, listVars
  <2>5. QED
    BY <2>2, <2>3, <2>4 DEF IInv
<1>6. QED
  BY <1>1, <1>2, <1>3, <1>4, <1>5 DEF Next, Proceed

\* What is known of the repositories of a batch at each of its steps (runBatch).
THEOREM BatchInvariant == Spec => []IInv
BY InitIInv, NextIInv, PTL DEF Spec

-----------------------------------------------------------------------------
(* What follows from it. *)

\* Every variable of the batch has its type; a scan that was refused is "failed"
\* in its message, never without a status (runBatch).
THEOREM BatchTypes == Spec => []TypeOK
<1>1. IInv => TypeOK
  BY DEF IInv
<1>2. QED
  BY <1>1, BatchInvariant, PTL

\* Whenever the runner dies, what the endpoint accepted can be found in the
\* directory of the batch (runBatch: submission.json before the POST).
THEOREM AcceptedOnFile == Spec => []AcceptedIsOnFile
<1>1. IInv => AcceptedIsOnFile
  BY DEF IInv, AcceptedOK
<1>2. QED
  BY <1>1, BatchInvariant, PTL

LEMMA FinalFile ==
  ASSUME IInv, saved.status \in {"completed", "incomplete"}
  PROVE  /\ saved.items = items
         /\ \A i \in DOMAIN repositories : Processed(repositories[i])
<1>1. position = Len(repositories) /\ saved.items = items
  BY DEF IInv, FileOK
<1>2. DOMAIN repositories = 1..position
  BY <1>1, ListFacts DEF IInv, TypeOK
<1>3. QED
  BY <1>1, <1>2 DEF IInv, ProcessedOK, ProcessedOnes

\* Whenever batch.json says that the batch is completed or incomplete, that is
\* true of every repository of the list (runBatch).
THEOREM FileIsTrue == Spec => []BatchFileTrue
<1>1. ASSUME IInv PROVE BatchFileTrue
  <2>1. saved.status \in {"completed", "incomplete"} => AllOnFile
    BY <1>1, FinalFile DEF AllOnFile, Processed
  <2>2. ASSUME saved.status = "completed", NEW i \in DOMAIN repositories
        PROVE  Successful(repositories[i])
    <3>1. Processed(repositories[i]) /\ saved.items = items /\ ~failures
      BY <1>1, <2>2, FinalFile DEF IInv, FileOK
    <3>2. saved.items[repositories[i]].delivery = "posted" =>
            [repository |-> repositories[i], scan |-> submissions[repositories[i]]] \in accepted
      BY <1>1, <3>1 DEF IInv, PostedOK, Posted, Processed
    <3>3. QED
      BY <3>1, <3>2 DEF Processed, Successful
  <2>3. ASSUME NEW r \in DOMAIN saved.items, saved.items[r].delivery = "posted"
        PROVE  \E m \in accepted : m.repository = r
    <3>1. [repository |-> r, scan |-> submissions[r]] \in accepted
      BY <1>1, <2>3 DEF IInv, PostedOK, Posted
    <3>2. QED
      BY <3>1
  <2>4. QED
    BY <2>1, <2>2, <2>3 DEF BatchFileTrue
<1>2. QED
  BY <1>1, BatchInvariant, PTL

\* Exit code 0 means that batch.json says "completed" (runBatch, executeLocal).
THEOREM ExitCodeIsTrue == Spec => []ExitCodeTrue
<1>1. IInv => ExitCodeTrue
  BY DEF IInv, FileOK
<1>2. QED
  BY <1>1, BatchInvariant, PTL

\* However many scans and deliveries fail, the whole list is processed (runBatch).
THEOREM ListIsFinished == Spec => []FailuresStopNothing
<1>1. ASSUME IInv PROVE FailuresStopNothing
  <2>1. saved.status \in {"completed", "incomplete"} => AllOnFile
    BY <1>1, FinalFile DEF AllOnFile, Processed
  <2>2. QED
    BY <1>1, <2>1 DEF IInv, FileOK, FailuresStopNothing
<1>2. QED
  BY <1>1, BatchInvariant, PTL

\* One failing system call never leaves a delivered message "pending" (runBatch:
\* the deferred save has all that the failed one should have had).
THEOREM PendingIsTrue == Spec => []PendingWasNotDelivered
<1>1. IInv => PendingWasNotDelivered
  BY DEF IInv, SavedDeliveries
<1>2. QED
  BY <1>1, BatchInvariant, PTL
=============================================================================
