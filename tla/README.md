# Formal models of ort-runner

`ort-runner` scans repositories with ORT and posts one result per repository to a
result endpoint. A scan runs four stages of external commands. On a developer's
machine a *local batch* scans a list one after the other; in Kubernetes a *controller*
splits the list over one or more Indexed Jobs ("rounds"), and each *worker Pod* scans
one repository and then delivers its result. This directory holds TLA+ models of that
code, TLC configurations that check them, and TLAPS proofs of what matters most.

Paths below are relative to the repository; `controller.go` without a path is
`src/internal/orchestration/controller.go`, and so on. `PROJECT.json` maps every
definition to the lines it models.

## 1. Inventory

| Component | State it keeps | Operations | Interacts with |
|---|---|---|---|
| **Batch controller** (`controller.go`) | nothing but local variables per attempt: round, list, summary, failed repositories | `RunController`, `runRound`, `roundManifest`, `createOrVerify*`, `waitForTerminalJob`, `roundOutcome`, failure reports | API server (ConfigMaps, Jobs), register, result endpoint |
| **Cluster resources** (`resources.go`) | immutable ConfigMaps and Jobs in the API server | `BuildConfigMaps`, `BuildIndexedJob` | written by the controller, mounted by worker Pods |
| **Job status** (`ParseIndexes`, `roundOutcome`) | none | parsing of compact index lists, split into completed, failed, unfinished | read by the controller |
| **Manifest** (`manifest.go`) | none | `NewManifest`, `EncodeManifest`, `DecodeManifest` | controller encodes and decodes, worker decodes |
| **Worker Pod** (`worker.go`, `cmd/ort-runner/worker.go`) | `submission.json` in a volume shared by the two containers | `Scan`, `Deliver` with five attempts | manifest ConfigMaps, scan pipeline, result endpoint |
| **Controller command** (`cmd/ort-runner/controller.go`) | none | configuration, version check, `ReportFailedIndex` | starts `RunController` |
| **Register client** (`register/client.go`) | the pages read so far | `RepositorySets` and `Repositories` with paging, `PostResult`, `post` | register, result endpoint |
| **Scan pipeline** (`runner.go`, `process.go`, `workspace.go`) | the report, `run.json`, a temporary directory, the process of the current command | `Run`: checkout, analyze, advise, evaluate under timers; `runCommand`, `snapshotConfig`, `saveReport` | external commands in their process groups |
| **ORT results** (`result.go`) | none | `readResult` | read by the pipeline |
| **Local batch** (`batch.go`) | `batch.json`, `submission.json` per repository | `runBatch`: scan and POST one after the other | register client, pipeline, result endpoint |
| **Command line** (`main.go`, `config.go`) | none | flags and environment | all of the above |

What is hard about it:

* *Crashes and restarts.* Everything a controller knows is lost with its Pod; the
  next attempt rebuilds it from ConfigMaps and Jobs, with another clock value and
  possibly another answer of the register. Of a scan or a local batch that is killed
  only its JSON files are left.
* *Interleaving.* Kubernetes may run a replacement of a controller Pod while the
  first is still alive on an unreachable node. Reads (Get) and writes (Create) of
  the two interleave, and also interleave with Pods, the Job controller and people.
  A command of a scan leaves other processes behind; an operator edits the rules.
* *Ordering.* The chunks of a round are created last to first; a Job read, a
  ConfigMap read, a second Job read and a Job create follow one another. A message is
  saved, sent, and its delivery saved.
* *Unreliable delivery.* A POST may be lost, refused, or accepted with a lost or late
  answer; the worker retries, and the controller reports failures under the same
  idempotency key.
* *Time.* The batch has a deadline, rounds share it, a restart decides again with
  the time at which it runs. A timer of a stage may run out while its command ends.
* *Data that changes while it is read*: the register between two pages.
* *One failure of several*: every file that is saved, every directory that is made or
  removed, every request may fail on its own, also the last one.

What makes each component correct:

* controller: one batch has one list, decided once; rounds only shrink; at most one
  round runs; nothing settled is scanned again; every repository is counted once and
  reaches the endpoint as result or as failure; the batch ends;
* resources: a stored round is all there, and all that use it use the same content;
* Job status: what Kubernetes writes is read exactly, what is inconsistent is refused;
* manifest: chunks fit, hold each repository once, depend on the set only, and a
  worker reads back exactly the list of its Job;
* worker: a completed index means an accepted submission, a submission that says
  "completed" comes from a scan within budget, no attempt is skipped, the Pod ends;
* register client: a list without gaps or duplicates, or an error, and an end;
* pipeline: no later stage on an unusable result, no process of its group outlives a command,
  `run.json` never claims more than what happened, the report names what was scanned;
* local batch: `batch.json`, `submission.json`, the endpoint and the exit code agree,
  and one failing repository does not stop the others.

`PROJECT.json` lists the hazards, at their lines, with the properties that cover them.

## 2. Modules

```
RoundPlan   what the controller promises about rounds   <-- implemented by (RoundsFollowPlan)
Controller --EXTENDS--> Cluster                             Controller
                          | its Pod steps are those of
Pod         what a worker Pod promises                  <-- implemented by (ImplementsPod)
                                                            Worker
Scan        what a scan promises                        <-- implemented by (ImplementsScan)
  ^ EXTENDS                                                 Pipeline --EXTENDS--> Results
LocalBatch
Register    what the list of Controller and LocalBatch is read from
Manifest    coding of a list: discharges GroupsAssumption of Controller
Indexes     reading of a Job status: justifies Outcome of Controller
Sorting     EXTENDed by Manifest and Indexes

MCController, MCManifest, MCIndexes, MCRegister, MCPipeline, MCLocalBatch
            instances for TLC
ControllerProofs, WorkerProofs, LocalBatchProofs
Lemmas <-- ManifestProofs, IndexesProofs, RegisterProofs, PipelineProofs
```

`Controller` is composed with what `Pod` promises of a worker, and `LocalBatch` with
what `Scan` promises of a pipeline; that `Worker` and `Pipeline` keep these promises is
both model-checked and proved, so neither composition has to carry the detail.

### Cluster and Controller

`Cluster` is the world around the controller: ConfigMaps, Jobs with one Pod per
repository, the endpoint (`received`), the clock, and people who delete Jobs. It is
external to the repository except for what the code shows of it: the Pod steps are
those of `Pod`, the Failed reasons those the tests use. `Controller` adds any number
of controller Pods. `pc[c]` is the place in the code:

| `pc` | place | actions |
|---|---|---|
| `down` | no attempt runs | `Start` |
| `load` | `roundManifest` and the time left (`controller.go:107-124`) | `LoadStored`, `LoadFromRegister`, `LoadNothing`, `LoadComputed` |
| `rules` | rules ConfigMap (`runRound`, first in `BuildConfigMaps`) | `CreateRules` |
| `chunk` | the loop over chunks, last to first (`:182-186`) | `CreateChunk` |
| `guard` | first read of the Job (`:191`) | `GuardJob` |
| `later` | read of the next round's chunk 0 (`:194`) | `CheckLater` |
| `job` | `createOrVerifyJob` (`:202`) | `CreateJob` |
| `wait` | `waitForTerminalJob`, `roundOutcome`, and the decision of the loop | `FinishRound`, `JobGone` |
| `report` | failure reports (`:152-161`), one action per POST | `ReportOne`, `ReportUnacknowledged`, `FinishReport` |
| `done`, `refused` | returned; returned with a conflict or with "a later round exists" | |

`Exit` ends an attempt anywhere: a crash or any error the code returns. `FinishRound`
is one step because everything between the terminal Job and the next API call is
local. A poll that fails is logged and repeated (`:397-406`) and changes nothing, so
it is a stutter. A repository stands for its completion index: a Job is described
per repository of its manifest, which `Manifest` and `Indexes` justify.

### Worker and Pod

`Worker` is one Pod: `scan`, `returned` (between the end of the scan and the file
`submission.json`), `read`, `post`, `await`, `sleep`, `succeeded`, `failed`. Requests
that the client gave up stay in `flight` and may still be accepted, also after the
Pod has ended. SIGTERM (`Terminate`) is only noticed where the code looks at its
context; SIGKILL, OOM and lost nodes (`Kill`) end the Pod anywhere. Errors of file
operations are alternatives of their own and set `broken`: before the scan
(`CannotScan`), at the submission (`WriteSubmission`) and at its delivery
(`ReadSubmission`). `Pod` is what the controller sees of it; `Cluster` runs one such Pod per repository.

### Manifest and Indexes

Pure algorithms, explored from many inputs. `Manifest` follows a list through
sorting, cutting, mounting (with ConfigMaps replaced by hand) and decoding. `Sorting`
says where each element goes (`Place`, `Order`), the loop over the records is the
recursive function in `Cut`. The length of a record's JSON is a constant function,
that of an index the number of its digits; SHA-256 is taken to be injective.
`ChunksFit` is about chunks with repositories: the one chunk of an empty list is not
measured by the code, and no round is made of it.
`Indexes` reads index lists part by part, again a loop as a recursive function
(`AddPart`), and splits a Job status. Kubernetes writes such a list (`Compact`) from the
indexes at which a part begins (`Begins`): the first of a maximal interval, and the
second of one that has only two.

### Register

The client's loop over two queries and their pages (`query`, `page`, `pages`,
`listed`, `result`), one action per answer: `NextPage`, `FinishQuery`, `Reject` for
each check that refuses a page, `RequestFails`. `Joined` is the loop with its map of
seen IDs: within a page, with the pages before it and with the first query a
repository is listed once. Between two answers the register may
change: `EntryAdded` anywhere in its order, `EntryRemoved`, `URLChanged`,
`CodeToggled` (a repository moves from one query to the other). `showsAll` and
`pageless` are registers that ignore the filter, or the page number.

### Scan, Results and Pipeline

`Pipeline` is `Run`. `at` is the place in the code:

| `at` | place | actions |
|---|---|---|
| `validate` | checks of the configuration, output directory, first `run.json` | `Refuse`, `FirstSave` |
| `prepare` | temporary directory and snapshot of the rules | `Prepare`, `NoDirectory` |
| `launch`, `running` | `runCommand`: log, start, `Wait`, `Cancel`, and the SIGKILL for what is left of the group | `Launch`, `LaunchFails`, `KillGroup`, `Reap` |
| `judge` | exit code, `readResult`, `finishStage`; the next git command, HEAD | `NextCommand`, `WrongHead`, `FinishCheckout`, `FinishStage` |
| `store` | save after a stage, start of the next one, status at the end | `Store`, `StoreFails` |
| `cleanup`, `finish`, `saved` | the deferred functions: remove the directory, close and save the report | `Cleanup`, `LastSave`, `Leave` |

The commands (`CommandExits` with any exit code and result file, `CommandForks`), the
timer, the caller, the operator and the crash are the world. Each system call that
may fail does so as an alternative of its action (`Fault`). `quality` is history, kept
by the world from what the commands did, with a definition of issues in dependency
trees that is not that of the code (`Level` instead of `DependencyIssues`): the
properties compare what `run.json` says with it. `PipelineAssumption` says that these
trees are finite, no deeper than `Depth`: they are read from a JSON document.
`Results` is `readResult`.

`Scan` is what a caller sees: a scan returns one of `Outcomes`, `run.json` says
"running" until then, a final `run.json` never changes, and no error means completed.

### LocalBatch

`runBatch` with one `Scan` at a time. `at` is `validate`, `list` (the register), `next`
(top of the loop), `scan`, `deliver` (the check of the context after
`submission.json`), `post`, `record` (the save after the delivery), `finish` (the
deferred function). `Cancel` and `Crash` may come anywhere; `PostFails` includes an
accepted POST whose answer is lost.

## 3. Runs

Model values and sets are in the MC modules. The longest run (`restarts`) takes two to
three minutes on two workers, the others less than one or two.

| Run | What it shows | Bounds, and why they are enough |
|---|---|---|
| `hostile_cluster` | `TypeOK`, `StoredManifestIntact`, `AdoptedSnapshot`, `OneRoundRunning`, `SettledNeverRescanned`, `EveryRepositoryCountedOnce` and the refinement `RoundsFollowPlan`, for two controllers that see different lists and rules | two repositories in one or two chunks: the smallest manifest with an order of creation and with a difference in count; two register lists, two rules; one crash, a Job removed at any moment, failing Job reads; the time allows two rounds |
| `restarts` | `StoredBatchResumes`, `EveryRepositoryReported`, `SupersededRoundNotRerun`, and under fairness `StoredBatchEnds` | one controller, two early ends (a crash in round 0 and one in round 1, or one while reporting), a register that changes, a Job removed between attempts, as in the repository's tests |
| `uninterrupted` | `CompletedNotReportedFailed`, `RoundsShareTheBatchTime` for a batch of one attempt | three repositories in chunks of two, no exits; `late_restart` shows that the first property needs this |
| `worker_delivers` | `AcceptedInBudget`, `GivesUpAfterAllAttempts`, the refinement of `Pod`, and under fairness `PodEnds`; together: with at most four faults a Pod nobody stops and whose files work succeeds | the real number of pauses (4); six faults, one more than the attempts, so giving up happens |
| `manifest_chunks` | `ChunksFit`, `CutIntoGroups`, `RoundTrip`, `WorkerReadsItsJob` | every sequence of up to three IDs (with duplicates), two lists of eleven so that the digits of counts grow; limits around each border (just too small, exactly one record, exactly two, everything); two replaced ConfigMaps, so that a manifest of two chunks may be replaced whole |
| `index_lists` | `ParsesExactly`, `OutcomeExact` against definitions without the parsing | rounds of one and three; lists of up to two parts with numbers in range, out of range, not a number, and three bounds |
| `register` | `NothingHidden`, `EachIDOnce`, and under fairness `ListingEnds` | registers of none to three entries, one with the same ID twice, with pages of two: an empty list, less than a page, one page, one and a half; two changes, so that an entry can both shift and be followed by another; pages up to 4, more than two added entries can make |
| `pipeline` | `SavedVerdictTrue`, `NoStageOnBadResult`, `AllWellIsCompleted`, `EarlierStagesSaved`, `NothingLeftBehind`, `ScannedAsRecorded`, the refinement `ImplementsScan`, and under fairness `ScanEnds` | all four stages and five git commands; two commits and two rules, so that one may be wrong; the exit codes that are told apart (signal, 0, 1, 2); six result files, one for each branch of `readResult`, with an issue two levels down; two failing system calls, so that the deferred functions may fail after an error |
| `local_batch` | `AcceptedIsOnFile`, `BatchFileTrue`, `ExitCodeTrue`, `FailuresStopNothing`, `PendingWasNotDelivered`, and under fairness `BatchEnds` | lists of none, one and three (a first, a middle and a last repository), with and without an endpoint; two failing calls: `PendingWasNotDelivered` holds with one and says nothing of two |
| `late_restart`, `failed_read`, `last_round_removed` | the findings of section 6 | the smallest instances in which they happen |

The bounds `MaxTime`, `MaxRemovals`, `MaxExits`, `MaxFaults`, `MaxChanges`, `MaxPages`,
`Depth` and `MaxReplaced` only limit TLC: the proofs hold for every value. `Symmetric`
permutes controllers in `hostile_cluster`, which checks no liveness.
`CHECK_DEADLOCK FALSE` is given since every system here ends: a controller is done or
refused and has used its attempts, a Pod, a scan, a listing or a batch is over.

`OneRoundRunning`, `SettledNeverRescanned` and `EveryRepositoryCountedOnce` are
about clusters without removed Jobs: somebody who deletes the Job of a running round
makes the code scan again what that Job had settled, by design of the deletion.
`StoredBatchResumes` and `StoredBatchEnds` are about one controller, unchanged rules and no
removed Jobs; with other rules the code refuses on purpose. `NothingHidden` is about
a register that does not change, or to which entries are added or whose URLs change:
an entry that is removed, or that gets or loses its `publiccode.yml`, may shift an
unread entry past the reader without any change of `Total-Pages`, and no check of the
client can see that.

### Fairness

* `Controller!FairSpec`: a controller that can go on does (it is a running process
  and each of its calls returns), a Pod that exited is started again (the backoff of
  the controller Job; `MaxExits` keeps the exits finite), time passes, and Kubernetes
  stops a Job that reached `activeDeadlineSeconds` or whose Pods all ended. Nothing is
  assumed of worker Pods: they may hang until the deadline.
* `Worker!FairSpec`: the worker goes on and the network resolves each request. The
  code does not wait without a limit: the scan has `ORT_REPOSITORY_TIMEOUT`, a request
  the timeout of the HTTP client, and pauses are timers.
* `Register!FairSpec`: an answer is handled, or the HTTP client times out; no request
  is assumed to fail, and the register changes only `MaxChanges` times.
* `Pipeline!FairSpec`: `Run` goes on and the timer of a stage runs out. Nothing is
  assumed of commands: a command that hangs is killed, which is what `ScanEnds` shows.
* `LocalBatch!FairSpec`: the batch goes on; that a scan ends is `ScanEnds`, that a
  request ends is the timeout of the client.

## 4. Proofs

Each holds for every value of the constants: any number of repositories,
controllers, crashes, commands' results, failing calls, pages, chunks, nodes of a
dependency tree. Conditions on the constants are named with the theorem.

Every safety property that the passing runs check is proved, under the conditions named
here, and so are the three refinements.

### Controller

`ControllerProofs` assumes `ClusterAssumption`, `ControllerAssumption` and
`GroupsAssumption` (a list is cut into non-empty, disjoint chunks that cover it: the
property `CutIntoGroups` of `Manifest`).

* `Invariance`: `Spec => []IInv`, with
  `IInv == TypeOK /\ StoreOK /\ AttemptsOK /\ JobsOK`. `StoredManifestIntact` is not
  inductive: nothing in it says why the controller that creates the first chunk finds
  the others to be its own. `AttemptsOK` says it: what an attempt has verified so far
  (`Verified`) is stored as that attempt wants it, and stored content never changes
  (`StoreGrows`), so when it comes to chunk 1 the manifest is whole. `StoreOK` adds
  that the list of a later round is a proper part of the round before; it follows from
  the condition of `Retry` that a round achieved something.
* From `IInv`: `TypeCorrect`, `ManifestIntact`, `SnapshotAdopted`.
* `RefinesPlan`: `Spec => RoundsFollowPlan`. Only the step that stores the first chunk
  of a round changes `StoredPlan` (`ChunkPlan`); every other step is a stutter
  (`PlanStays`).

Its second part, about rounds, holds as long as nobody removed a Job
(`RoundInv == removals = 0 => RoundsOK`).

* The idea: a round is only stored when the one before it is over, and a Job that is
  over never changes (`JobsKept`). So whatever a controller takes for the unfinished
  repositories of the previous round, from the store or from the Job, is the same
  set (`Follows`), also for another controller or a later attempt. `PastOK` says that
  of stored rounds, `Ready` of a controller about to store one, `Counted` that its
  completed, failed and current repositories are a partition of the list. Each of the
  three needs the others: a controller may load a round it did not decide itself.
* From it: `OneRoundAtATime`, `SettledStaysSettled`, `CountedOnce`.

Six more questions about rounds, each with a strengthening of its own:

* `AllAreReported` (`ReportInv`), for `OneView`: one controller, or a register that is
  never empty. A Pod completes only after its submission was accepted
  (`PodsDelivered`), so what a controller counts as completed is known to the endpoint;
  a failed repository is either still to be reported or was (`FailuresKept`); and by
  `Counted` there is no third kind when a controller is done (`DoneOK`). `OneView` is
  needed: a controller that found the register empty is done with nothing, while
  another that saw a list may be about to store it.
* `TimeIsShared` (`TimeInv`): any number of controllers. The property compares Jobs; to
  keep it, each controller that has computed a deadline must have used the start of
  round 0 and an earlier clock (`TimeOK`), and the clock only goes up.
* `SupersededStaysSo` (`JobGuarded`), for `OneController`, Job reads that do not fail
  and Jobs that are removed only between attempts: the three are exactly what the check
  in `runRound` relies on. `SupersededWhileKept` does without them: as long as nobody
  removes a Job, no superseded round gets one again, for any number of controllers and
  failing reads, since the Job of a round before a stored one exists.
* `ReportedDespiteRemovals` (`RemovalInv`): `AllAreReported` once more, without its
  `removals = 0`, under the conditions of `SupersededStaysSo`. A deleted Job is created
  again and may end differently, so `RoundInv` is lost; what remains is that a stored
  round is what the Job before it left unfinished if that Job is still there
  (`LaterFollow`), because a round is not created again once the next one is stored.
  Repositories may then be counted twice, but none is missing: `Covered` has the one
  inclusion that `Counted` loses the other half of.
* `BatchResumes` (`ResumeInv`), for `OneController` and `OneRules`. Refusal is about
  what earlier attempts stored, also in parts: every chunk of a round that has no first
  chunk yet is the chunk the next attempt will want (`PartsOK`), because round 0 fixes
  the list and a finished Job what is left of it.
* `CompletedStaysCompleted` (`SettleInv`), for `OneController` and an attempt that never
  ended early: what is reported as failed was not completed in any round before
  (`JobsSettled`, `ReportsSettled`). After a restart the code does not keep it
  (`late_restart`).

### Worker

`WorkerProofs`, under `WorkerAssumption`, with and without an endpoint.

* `WorkerInvariance`: `WInv` adds to the types that an answer "accepted" follows an
  accepted request, that each failed attempt of a Pod without signals and file errors took a fault, and
  that the submission is the verdict at the time it was written.
* From `WInv`: `WorkerTypes`, `BudgetKept`, `AllAttemptsMade`, and
  `WorkerImplementsPod` (each step of the worker is a step of `Pod` or a stutter).

### Pipeline and local batch

`PipelineProofs`, under `PipelineAssumption` and `ResultsAssumption`.

* `ScanInvariant`: what is known of the stages before and after the current one
  (`StagesOK`), of status, error and `run.json` at each place of `Run` (`StatusOK`: the
  three are set in different places, and only together do they agree), of processes
  and the directory, of rules and revision, and of the command that has just ended
  (`ExitKnown`, `JudgeKnown`: a usable result counts only if nobody stopped its
  command, which is why the context is looked at again after `Wait`).
* From it: `TypesAreRight`, `OnlyUsableResults`, `NothingLostInACrash`, `NothingStays`,
  `RecordIsTrue`, and `RunImplementsScan`: each step of `Run` is a step of `Scan` or a
  stutter.

* `SavedVerdictIsTrue` and `WellIsCompleted` compare `run.json` with `quality`, and so
  the recursion of `readResult` over dependency trees (`DependencyIssues`) with the
  levels of `HasIssue`. `SeriousFound` says they find the same: up from a level a
  troubled node has a troubled parent, down from a root it has an issue of its own or a
  troubled child, and by finiteness that ends. Both definitions are first shown to
  define something (`IssuesDefined`, `LevelsDefined`).
* `VerdictInv` then carries that down `Run`: what a verdict says of the command that has
  exited, of the one that was reaped, of the stages before and of the status
  (`ExitTells`, `JudgeTells`, `StagesTell`, `Says`). The second is not the first: between
  exit and `Wait` the context may end.
* `WellInv` is the other direction: a command that was too late is known to be bad, and
  nothing is known of stages that have not begun (`InTime`, `NotBegun`); so a scan that
  abandons a stage was disturbed, or is not good in all stages (`EndsWell`).

`LocalBatchProofs`, under `LocalBatchAssumption`.

* `BatchInvariant`: how repositories that have been processed ended (`ProcessedOK`),
  how far the current one is (`CurrentOK`), that "posted" is only said of accepted
  messages (`PostedOK`) and everything of an accepted one is on file (`AcceptedOK`),
  which deliveries `batch.json` may not know yet (`SavedDeliveries`), and what it says
  before and after its last save (`FileOK`). `AcceptedIsOnFile` alone is not inductive:
  the POST adds a message, and only `CurrentOK` says that its file was written before.
* From it: `BatchTypes`, `AcceptedOnFile`, `FileIsTrue`, `ExitCodeIsTrue`,
  `ListIsFinished`, `PendingIsTrue`.

### Manifest

`ManifestProofs`, under `ManifestAssumption`; it discharges the `GroupsAssumption` of
`ControllerProofs`.

* `CutSoFar` is the invariant of the loop in `EncodeManifest` after `i` records: the
  groups put one after the other are the first `i` records, none is empty, and none
  exceeds the bound, which is measured with the longest numbers (`DigitsGrow`).
  `ManifestInv` says that what is stored is what was cut from the sorted list, and that
  what was read is decoded from the files.
* `NoChunkTooLong`, `GroupsAreACut`, `ReadBack`, and `OnlyItsOwnList`: whatever replaced
  the ConfigMaps, a worker that accepts them has the digests of its own chunks.
* `OrderDoesNotMatter` (no run): the same repositories in any order give the same
  chunks, so a restarted attempt finds its ConfigMaps unchanged. It rests on
  `AscendingUnique`: a set has one ascending sequence.

### Register

`RegisterProofs`, under `RegisterAssumption`.

* `ListingComplete`: the invariant is `PrefixRead`, that of the entries a query shows,
  those before the next page are listed, as far as they were there from the start.
  A page that shifts is the difficulty: an entry that is added pushes others towards
  pages that are still to be read, never back, and `Total-Pages` tells when the last
  page moved. A register that ignores page numbers needs the second half of
  `PrefixRead`: every page is the first, and the check for repeated pages ends it.
  `QueriesRead` says the same of the queries that are over.
* `NoneTwice` from `NothingTwice`.

### Indexes

`IndexesProofs`, under `IndexesAssumption`.

* `ListsParsedExactly`: `SoFar` is the invariant of the loop in `ParseIndexes` after `k`
  parts. As long as no part was refused, the first `k` parts are well-formed and
  disjoint, and the indexes are theirs, each once; once one was refused, the list is
  not well-formed, whatever follows (`WellFormedIsGood`, `Parsed`).
* `OutcomeUnderstood`: `CompactReads` says that what Kubernetes writes of a set is read
  back as that set. The parts of maximal intervals are well-formed (`PartsWritten`), do
  not share an index (`PartsApart`) and leave none out (`PartsCover`); the rest is
  `ListsParsedExactly` again. That an accepted broken status counts everything once is
  arithmetic over three disjoint sets (`SplitCounts`), and rests on the check for an
  index that is both completed and failed.

### Lemmas

The induction theorems of the library take an operator as a parameter, which the provers
cannot instantiate. `Lemmas` has what the proofs need with a set instead, from the
least element of a set of numbers: `LoopInduction`, and `LoopExists`, which says that a
recursive function over `0..n` defines something. With it the loops of the code
(`Cut`, `AddPart`, `Joined`, `Shown`) and its recursion over trees are reasoned about.
Then what sorting does: it permutes (`OrderFacts`), it is ascending for different
elements (`SortedFacts`), and a set has one ascending sequence (`AscendingUnique`).

### Not proved

* All liveness (`StoredBatchEnds`, `PodEnds`, `ListingEnds`, `ScanEnds`, `BatchEnds`):
  fairness needs ENABLED, which is out of the prover's reach.
* The conditions of the theorems about the controller are needed. TLC finds
  counterexamples to `EveryRepositoryReported` on the instance of `restarts` as soon as
  Jobs are removed during an attempt (`RemovalsAnytime`) or reads fail (`ReadsMayFail`):
  the superseded round is run again and ends differently, the next one is not decided
  again, and a repository is in neither. `StoredBatchResumes` does not hold for two
  controllers: one that started before the list was stored may be refused.

## 5. What is not modelled

* **Vulnerabilities in the report** (`result.go`): their scores, links and order are
  data without a decision; only the issues and the verdict are modelled.
* **Power loss**: `saveJSON` renames a file without syncing it (`runner.go:195`), so a
  machine that stops may lose or empty a file that was saved. `Crash` is a runner that
  is killed on a machine that goes on.
* **`WaitDelay`** of a command, and processes that leave its group with `setsid`:
  nothing in the code reaches them.
* **The command line and configuration** (`main.go`, `config.go`): parsing without state,
  once and before everything; its refusals are `Refuse`.
* **Pod templates, ownership, labels, names, quantities, service accounts,
  credentials** (`resources.go`): constant for a batch; a foreign resource with the
  same name is a conflict like any other.
* **Get and Create of one resource** are one step: of two controllers that both found
  nothing the second Create fails and ends that attempt, which `Exit` covers.
* **ConfigMaps deleted by hand** in `Controller`: they are immutable and owned by the
  controller Job. `Manifest` has them for the worker, which verifies digests.
* **Kubernetes** itself, beyond the conditions the code reads; in particular an
  exceeded backoff limit may occur whenever something is left to do.
* **A POST of the local batch that arrives after its timeout**: it is accepted at the
  time of `PostFails` or never; `Worker` has late requests, where they matter.
* **Limits on the size of responses and the form of URLs** in the register client: they
  only reject, as `Reject` and `RequestFails` do.

## 6. Disagreements found

Each of the first three is a run that TLC must find violated.

1. `late_restart` (`controller.go:143`): a controller that restarts in the last minute
   of the batch, or after it, decides for round 0 that no further round follows,
   although round 1 exists and may have completed. It reports the repositories of
   round 1 as failed, those that delivered too.
2. `failed_read` (`controller.go:191`): the check that a later round exists is only
   made after NotFound. If that read fails in another way and the Job is missing,
   `createOrVerifyJob` creates the superseded round again.
3. `last_round_removed`: the README says a finished round is never created again; the
   last round has no successor to tell that it finished, so it is.

A note without a run: the README (line 163) says a Pod fails only by an OOM kill, an
eviction or a lost node; an endpoint that fails five attempts (`worker.go:156`, as
`GivesUpAfterAllAttempts` says) or a file error fails it as well.

The model also has behaviours where the endpoint accepts a result, the Pod fails
before it exits, and the controller reports a failure for the same repository under
the same idempotency key (`PodPosts`, `PodFails`, `ReportOne`). The code cannot exclude
that; the endpoint decides which submission counts. And it has batches that never
start: an attempt that stops after some chunks of round 0 but before the first, followed
by another answer of the register, leaves ConfigMaps that every later attempt refuses.

## 7. Plan

Done, in this order: `Cluster`/`Controller` with `RoundPlan`; `Worker` with `Pod`;
`Manifest`; `Indexes`; `Register`; `Pipeline` with `Results` and `Scan`; `LocalBatch`; the
proofs of section 4.

Left:

1. Get and Create of `createOrVerify*` as two steps, with two controllers.
2. The paths between the parts of a Job spec and the limits of a Pod (`resources.go`).
