----------------------------- MODULE Controller -----------------------------
(***************************************************************************)
(* ort-runner controller: it runs one batch as one or more rounds, each an *)
(* Indexed Job over the repositories the earlier rounds left unfinished.   *)
(*                                                                         *)
(* A member of Controllers is a Pod of the controller Job.  One attempt of *)
(* a Pod keeps its progress in local variables only; all that survives it  *)
(* is what it stored in the cluster.  Kubernetes normally runs one Pod at  *)
(* a time, but after a lost node a replaced Pod may still be alive, so     *)
(* Controllers may have several members.                                   *)
(***************************************************************************)
EXTENDS Cluster

CONSTANTS
  Controllers,   \* Pods of the controller Job
  Snapshots,     \* the repository lists the register may return
  Groups,        \* EncodeManifest: how a list is split into chunks
  Deadline,      \* ORT_BATCH_DEADLINE
  MinDeadline,   \* the least time a later round gets (one second)
  RetryMargin,   \* a new round needs this much time left (one minute)
  ReadsMayFail,  \* may reading a Job fail with another error than NotFound?
  RemovalsAnytime, \* may a Job be removed while an attempt is running?
  MaxExits       \* bound: attempts that end early

ASSUME ControllerAssumption ==
  /\ Snapshots \subseteq SUBSET Repositories
  /\ Deadline \in Nat /\ MinDeadline \in Nat /\ RetryMargin \in Nat
  /\ MinDeadline > 0
  /\ ReadsMayFail \in BOOLEAN /\ RemovalsAnytime \in BOOLEAN
  /\ MaxExits \in Nat

\* Every repository of a list is in exactly one chunk, no chunk is empty.
ASSUME GroupsAssumption ==
  \A list \in (SUBSET Repositories) \ {{}} :
    /\ Groups[list] \in Seq((SUBSET Repositories) \ {{}})
    /\ Len(Groups[list]) > 0
    /\ Listed(Groups[list]) = list
    /\ \A i, j \in DOMAIN Groups[list] :
         i # j => Groups[list][i] \cap Groups[list][j] = {}

VARIABLES
  pc,          \* where each controller is in RunController and runRound
  round,       \* the round it works on
  chunks,      \* the manifest of that round as chunks
  rules,       \* the rules it read from its config directory
  todo,        \* chunks 1..todo are still to be created or verified
  left,        \* RoundDeadline: time the round's Job gets if it is created
  batchEnd,    \* end of the batch, known once round 0 finished
  completed,   \* repositories counted as completed (summary.Completed)
  failed,      \* repositories counted as failed
  unreported,  \* failed repositories whose failure is still to be posted
  exits        \* number of attempts that ended early so far

roundVars == <<round, chunks, rules, left>>
batchVars == <<batchEnd, completed, failed>>
localVars == <<pc, roundVars, todo, batchVars, unreported>>
vars == <<clusterVars, localVars, exits>>

\* Locations at which the ConfigMaps of the round have all been verified.
Adopted == {"guard", "later", "job", "wait"}
Locations == Adopted \cup
  {"down", "load", "rules", "chunk", "report", "done", "refused"}

Init ==
  /\ ClusterInit
  /\ pc = [c \in Controllers |-> "down"]
  /\ round = [c \in Controllers |-> 0]
  /\ chunks = [c \in Controllers |-> <<>>]
  /\ rules = [c \in Controllers |-> NoRules]
  /\ todo = [c \in Controllers |-> 0]
  /\ left = [c \in Controllers |-> 0]
  /\ batchEnd = [c \in Controllers |-> 0]
  /\ completed = [c \in Controllers |-> {}]
  /\ failed = [c \in Controllers |-> {}]
  /\ unreported = [c \in Controllers |-> {}]
  /\ exits = 0

Goto(c, location) == pc' = [pc EXCEPT ![c] = location]

\* A new attempt reads its Pod, its settings and its rules file. It reads the
\* rules after the list of round 0, but any version may be there at any time.
Start(c) ==
  /\ pc[c] = "down"
  /\ \E version \in RuleVersions : rules' = [rules EXCEPT ![c] = version]
  /\ Goto(c, "load")
  /\ UNCHANGED <<clusterVars, round, chunks, left, todo, batchVars, unreported, exits>>

-----------------------------------------------------------------------------
(* roundManifest: the list of a round comes from an earlier attempt if that *)
(* stored it, else from the register (round 0) or the previous round.  The *)
(* coding of a list as ConfigMaps is the subject of module Manifest.       *)

\* storedManifestChunks: chunk 0 tells how many there are.
IsStored(n) == <<n, 1>> \in DOMAIN configMaps
StoredChunks(n) ==
  [i \in 1..configMaps[<<n, 1>>].count |-> configMaps[<<n, i>>].group]

\* Mutant of TimeLeft: every round gets the full deadline.
FullTime(c) == Deadline

\* Time the Job of the round gets; an adopted Job keeps the time it had.
TimeLeft(c) ==
  IF round[c] = 0 THEN Deadline
  ELSE IF batchEnd[c] - now > MinDeadline THEN batchEnd[c] - now ELSE MinDeadline

\* Start creating the resources of the round for the given chunks.
BeginRound(c, list) ==
  /\ chunks' = [chunks EXCEPT ![c] = list]
  /\ left' = [left EXCEPT ![c] = TimeLeft(c)]
  /\ Goto(c, "rules")
  /\ UNCHANGED <<clusterVars, round, rules, todo, batchVars, unreported, exits>>

LoadStored(c) ==
  /\ pc[c] = "load"
  /\ IsStored(round[c])
  /\ BeginRound(c, StoredChunks(round[c]))

\* Mutant of LoadFromRegister: a restart reads the register again.
AlwaysFromRegister(c) ==
  /\ pc[c] = "load"
  /\ round[c] = 0
  /\ \E list \in Snapshots \ {{}} : BeginRound(c, Groups[list])

LoadFromRegister(c) ==
  /\ pc[c] = "load"
  /\ ~IsStored(round[c])
  /\ round[c] = 0
  /\ \E list \in Snapshots \ {{}} : BeginRound(c, Groups[list])

\* Without repositories there is nothing to do and nothing is stored.
LoadNothing(c) ==
  /\ pc[c] = "load"
  /\ ~IsStored(round[c])
  /\ round[c] = 0
  /\ {} \in Snapshots
  /\ Goto(c, "done")
  /\ UNCHANGED <<clusterVars, roundVars, todo, batchVars, unreported, exits>>

\* FinishRound left the unfinished repositories in chunks[c].
LoadComputed(c) ==
  /\ pc[c] = "load"
  /\ ~IsStored(round[c])
  /\ round[c] > 0
  /\ BeginRound(c, chunks[c])

-----------------------------------------------------------------------------
(* createOrVerifyConfigMap.  Its Get and Create are one step: of two        *)
(* controllers that both found nothing, the second Create fails and ends    *)
(* that attempt, which is an Exit.                                          *)

\* Existing content is never updated: it has to be what this attempt wants.
Accepts(exists, same) == exists => same

CreateRules(c) ==
  /\ pc[c] = "rules"
  /\ IF Accepts(rulesMap # NoRules, rulesMap = rules[c])
     THEN /\ rulesMap' = rules[c]
          /\ todo' = [todo EXCEPT ![c] = Len(chunks[c])]
          /\ Goto(c, "chunk")
     ELSE /\ Goto(c, "refused")
          /\ UNCHANGED <<rulesMap, todo>>
  /\ UNCHANGED <<configMaps, jobs, received, now, finished, removals>>
  /\ UNCHANGED <<roundVars, batchVars, unreported, exits>>

\* Mutants: chunks created in ascending order, the annotation holds the last
\* index instead of the count, the loop ends before chunk 1.
AscendingChunk(c) == Len(chunks[c]) + 1 - todo[c]
LastIndexMap(c, i) == [count |-> Len(chunks[c]) - 1, group |-> chunks[c][i]]
OneChunkShort(c) == IF todo[c] <= 2 THEN "guard" ELSE "chunk"

\* The ConfigMap of the next chunk: the last one first, chunk 1 at the end.
NextChunk(c) == todo[c]
ChunkMap(c, i) == [count |-> Len(chunks[c]), group |-> chunks[c][i]]
AfterChunk(c) == IF todo[c] = 1 THEN "guard" ELSE "chunk"

CreateChunk(c) ==
  /\ pc[c] = "chunk"
  /\ LET key == <<round[c], NextChunk(c)>>
         desired == ChunkMap(c, NextChunk(c))
     IN IF Accepts(key \in DOMAIN configMaps, configMaps[key] = desired)
        THEN /\ configMaps' = Put(configMaps, key, desired)
             /\ todo' = [todo EXCEPT ![c] = @ - 1]
             /\ Goto(c, AfterChunk(c))
        ELSE /\ Goto(c, "refused")
             /\ UNCHANGED <<configMaps, todo>>
  /\ UNCHANGED <<rulesMap, jobs, received, now, finished, removals>>
  /\ UNCHANGED <<roundVars, batchVars, unreported, exits>>

-----------------------------------------------------------------------------
(* The second half of runRound: guard, Job, wait. *)

\* Mutant of JobExists: a Job that finished is taken for a missing one.
ActiveJobExists(n) == n \in RunningRounds

JobExists(n) == n \in DOMAIN jobs

\* Only NotFound leads to the check for a later round; any other error of
\* this read is ignored.
GuardJob(c) ==
  /\ pc[c] = "guard"
  /\ \/ Goto(c, IF JobExists(round[c]) THEN "job" ELSE "later")
     \/ ReadsMayFail /\ Goto(c, "job")
  /\ UNCHANGED <<clusterVars, roundVars, todo, batchVars, unreported, exits>>

\* Mutant of Superseded: it looks for the next Job, not the next manifest.
NextJobExists(n) == n + 1 \in DOMAIN jobs

\* A round that was superseded must not be scanned again.
Superseded(n) == IsStored(n + 1)

CheckLater(c) ==
  /\ pc[c] = "later"
  /\ Goto(c, IF Superseded(round[c]) THEN "refused" ELSE "job")
  /\ UNCHANGED <<clusterVars, roundVars, todo, batchVars, unreported, exits>>

NewJob(c) ==
  [chunks  |-> chunks[c],
   created |-> now,
   ends    |-> now + left[c],
   pods    |-> [repo \in Listed(chunks[c]) |-> "waiting"],
   reason  |-> "running"]

\* createOrVerifyJob: the hash of the Job covers its chunks, not its deadline.
CreateJob(c) ==
  /\ pc[c] = "job"
  /\ IF Accepts(JobExists(round[c]), jobs[round[c]].chunks = chunks[c])
     THEN /\ jobs' = IF JobExists(round[c]) THEN jobs ELSE Put(jobs, round[c], NewJob(c))
          /\ Goto(c, "wait")
     ELSE /\ Goto(c, "refused")
          /\ UNCHANGED jobs
  /\ UNCHANGED <<configMaps, rulesMap, received, now, finished, removals>>
  /\ UNCHANGED <<roundVars, todo, batchVars, unreported, exits>>

\* waitForTerminalJob fails when the Job was removed.
JobGone(c) ==
  /\ pc[c] = "wait"
  /\ ~JobExists(round[c])
  /\ Goto(c, "refused")
  /\ UNCHANGED <<clusterVars, roundVars, todo, batchVars, unreported, exits>>

\* Mutants of Terminal: the Failed condition is overlooked, or a Job counts as
\* finished as soon as it exists.
OnlyComplete(n) == n \in DOMAIN jobs /\ jobs[n].reason = "Complete"
NotAwaited(n) == n \in DOMAIN jobs

\* jobTerminal: the Job has a true Complete or Failed condition.
Terminal(n) == n \in DOMAIN jobs /\ ~Running(n)

\* Mutant of Outcome: the next round gets all that did not fail.
AllButFailed(n) ==
  [completed  |-> InState(n, "completed"),
   failed     |-> InState(n, "failed"),
   unfinished |-> Unfinished(n) \cup InState(n, "completed"),
   reason     |-> jobs[n].reason]

\* roundOutcome: what the status of a terminal Job says of its repositories.
Outcome(n) ==
  [completed  |-> InState(n, "completed"),
   failed     |-> InState(n, "failed"),
   unfinished |-> Unfinished(n),
   reason     |-> jobs[n].reason]

\* Mutant of Retry: a round that achieved nothing is repeated.
RetryWithoutProgress(outcome, end) ==
  /\ outcome.unfinished # {}
  /\ outcome.reason = "BackoffLimitExceeded"
  /\ end - now >= RetryMargin

\* Another round only after the backoff limit, when this round got something
\* done and enough of the batch is left.
Retry(outcome, end) ==
  /\ outcome.unfinished # {}
  /\ outcome.reason = "BackoffLimitExceeded"
  /\ outcome.completed \cup outcome.failed # {}
  /\ end - now >= RetryMargin

\* The batch ends at Deadline after the creation of the Job of round 0.
BatchEnd(c) ==
  IF round[c] = 0 THEN jobs[0].created + Deadline ELSE batchEnd[c]

\* Mutant of NewFailures: repositories nobody will scan are forgotten.
OnlyFailedPods(outcome, retry) == outcome.failed

\* Repositories of a round that will not be tried again count as failed.
NewFailures(outcome, retry) ==
  outcome.failed \cup (IF retry THEN {} ELSE outcome.unfinished)

ToReport(repos) == IF ResultsConfigured THEN repos ELSE {}

FinishRound(c) ==
  /\ pc[c] = "wait"
  /\ Terminal(round[c])
  /\ LET outcome == Outcome(round[c])
         retry == Retry(outcome, BatchEnd(c))
         failures == failed[c] \cup NewFailures(outcome, retry)
     IN /\ batchEnd' = [batchEnd EXCEPT ![c] = BatchEnd(c)]
        /\ completed' = [completed EXCEPT ![c] = @ \cup outcome.completed]
        /\ failed' = [failed EXCEPT ![c] = failures]
        /\ IF retry
           THEN /\ round' = [round EXCEPT ![c] = @ + 1]
                /\ chunks' = [chunks EXCEPT ![c] = Groups[outcome.unfinished]]
                /\ Goto(c, "load")
                /\ UNCHANGED unreported
           ELSE /\ unreported' = [unreported EXCEPT ![c] = ToReport(failures)]
                /\ Goto(c, "report")
                /\ UNCHANGED <<round, chunks>>
  /\ UNCHANGED <<clusterVars, rules, left, todo, exits>>

-----------------------------------------------------------------------------
(* Reporting the failed repositories, and the ways an attempt ends. *)

\* The accepted failure report, as the endpoint keeps it.
Reported(repo) == received \cup {Failure(repo)}

ReportOne(c) ==
  /\ pc[c] = "report"
  /\ \E repo \in unreported[c] :
       /\ received' = Reported(repo)
       /\ unreported' = [unreported EXCEPT ![c] = @ \ {repo}]
  /\ UNCHANGED <<configMaps, rulesMap, jobs, now, finished, removals>>
  /\ UNCHANGED <<pc, roundVars, todo, batchVars, exits>>

FinishReport(c) ==
  /\ pc[c] = "report"
  /\ unreported[c] = {}
  /\ Goto(c, "done")
  /\ UNCHANGED <<clusterVars, roundVars, todo, batchVars, unreported, exits>>

\* The local variables of a Pod whose attempt is over.
Forget(c) ==
  /\ exits < MaxExits
  /\ exits' = exits + 1
  /\ Goto(c, "down")
  /\ round' = [round EXCEPT ![c] = 0]
  /\ chunks' = [chunks EXCEPT ![c] = <<>>]
  /\ rules' = [rules EXCEPT ![c] = NoRules]
  /\ todo' = [todo EXCEPT ![c] = 0]
  /\ left' = [left EXCEPT ![c] = 0]
  /\ batchEnd' = [batchEnd EXCEPT ![c] = 0]
  /\ completed' = [completed EXCEPT ![c] = {}]
  /\ failed' = [failed EXCEPT ![c] = {}]
  /\ unreported' = [unreported EXCEPT ![c] = {}]

\* A crash, or an error of the API server, the register or the endpoint that
\* RunController returns; Kubernetes then starts the next attempt.
Exit(c) ==
  /\ pc[c] \notin {"down", "done"}
  /\ Forget(c)
  /\ UNCHANGED clusterVars

\* The endpoint accepted a failure report but its answer was lost.
ReportUnacknowledged(c) ==
  /\ pc[c] = "report"
  /\ \E repo \in unreported[c] : received' = Reported(repo)
  /\ Forget(c)
  /\ UNCHANGED <<configMaps, rulesMap, jobs, now, finished, removals>>

\* A Job removed by hand, at any time or only between two attempts.
RemoveJob(n) ==
  /\ RemovalsAnytime \/ \A c \in Controllers : pc[c] \in {"down", "refused", "done"}
  /\ JobRemoved(n)

\* Everything an attempt does on its own, in the order of RunController.
Proceed(c) ==
  \/ LoadStored(c) \/ LoadFromRegister(c) \/ LoadNothing(c) \/ LoadComputed(c)
  \/ CreateRules(c) \/ CreateChunk(c)
  \/ GuardJob(c) \/ CheckLater(c) \/ CreateJob(c)
  \/ JobGone(c) \/ FinishRound(c)
  \/ ReportOne(c) \/ FinishReport(c)

Next ==
  \/ \E c \in Controllers :
       Start(c) \/ Proceed(c) \/ Exit(c) \/ ReportUnacknowledged(c)
  \/ /\ ClusterStep \/ \E n \in DOMAIN jobs : RemoveJob(n)
     /\ UNCHANGED <<localVars, exits>>

Spec == Init /\ [][Next]_vars

-----------------------------------------------------------------------------
(* Fairness.  A controller that is not waiting goes on, a Pod that ended    *)
(* early is started again, time passes while a Job runs, and Kubernetes     *)
(* stops a Job that has reached its deadline or has nothing left to do.     *)
(* Nothing is assumed of the Pods: they may hang until the deadline.        *)

MustStop(n) ==
  /\ Running(n)
  /\ Unfinished(n) = {} \/ now >= jobs[n].ends

\* Rounds a run can reach: every round loses at least one repository.
Rounds == 0..Cardinality(Repositories)

Fairness ==
  /\ \A c \in Controllers : WF_vars(Start(c)) /\ WF_vars(Proceed(c))
  /\ WF_vars(Tick /\ UNCHANGED <<localVars, exits>>)
  /\ \A n \in Rounds :
       WF_vars(n \in DOMAIN jobs /\ MustStop(n) /\ JobStops(n) /\ UNCHANGED <<localVars, exits>>)

FairSpec == Spec /\ Fairness

-----------------------------------------------------------------------------
(* Type invariant. *)

Chunks == Seq(SUBSET Repositories)
Times == Int

JobType(job) ==
  /\ job.chunks \in Chunks
  /\ job.created \in Nat /\ job.ends \in Nat
  /\ job.pods \in [Listed(job.chunks) -> PodStates]
  /\ job.reason \in Reasons

\* Type invariant: stored resources have the shape BuildConfigMaps and
\* BuildIndexedJob give them, local variables that of RunController.
TypeOK ==
  /\ DOMAIN configMaps \subseteq Nat \X (Nat \ {0})
  /\ \A key \in DOMAIN configMaps :
       configMaps[key] \in [count : Nat \ {0}, group : SUBSET Repositories]
  /\ rulesMap \in RuleVersions \cup {NoRules}
  /\ DOMAIN jobs \subseteq Nat
  /\ \A n \in DOMAIN jobs : JobType(jobs[n])
  /\ received \subseteq Submissions
  /\ now \in Nat /\ finished \subseteq Nat /\ removals \in Nat /\ exits \in Nat
  /\ pc \in [Controllers -> Locations]
  /\ round \in [Controllers -> Nat]
  /\ chunks \in [Controllers -> Chunks]
  /\ rules \in [Controllers -> RuleVersions \cup {NoRules}]
  /\ todo \in [Controllers -> Nat]
  /\ left \in [Controllers -> Nat]
  /\ batchEnd \in [Controllers -> Nat]
  /\ completed \in [Controllers -> SUBSET Repositories]
  /\ failed \in [Controllers -> SUBSET Repositories]
  /\ unreported \in [Controllers -> SUBSET Repositories]

-----------------------------------------------------------------------------
(* Properties of the stored resources. *)

\* The repositories of a stored round.
Manifest(n) == Listed(StoredChunks(n))

\* Chunk 0 of a round is only stored when every other chunk is, and together
\* they are one manifest, cut as EncodeManifest cuts it: a crash while they
\* are created, or two controllers with different register snapshots, never
\* leave a mixture that a later attempt would take for the list of the round
\* (runRound's creation order, roundManifest).
StoredManifestIntact ==
  \A key \in DOMAIN configMaps :
    key[2] = 1 =>
      /\ \A i \in 1..configMaps[key].count :
           /\ <<key[1], i>> \in DOMAIN configMaps
           /\ configMaps[<<key[1], i>>].count = configMaps[key].count
      /\ StoredChunks(key[1]) = Groups[Manifest(key[1])]

\* A controller that starts or awaits a Job works from exactly the manifest
\* and the rules that are stored, and so does every Job, whichever
\* controller created it (createOrVerifyConfigMap, createOrVerifyJob).
AdoptedSnapshot ==
  /\ \A c \in Controllers :
       pc[c] \in Adopted =>
         /\ IsStored(round[c])
         /\ chunks[c] = StoredChunks(round[c])
         /\ rules[c] = rulesMap
  /\ \A n \in DOMAIN jobs : IsStored(n) /\ jobs[n].chunks = StoredChunks(n)

\* The stored rounds, as the abstract specification sees them.
StoredRounds == {key[1] : key \in {k \in DOMAIN configMaps : k[2] = 1}}
StoredPlan == [n \in StoredRounds |-> Manifest(n)]

\* The stored rounds implement RoundPlan: decided once, never changed, each
\* later round a proper part of the one before it, whatever crashes, restarts,
\* removed Jobs or second controllers do.
Plan == INSTANCE RoundPlan WITH Lists <- Snapshots \ {{}}, plan <- StoredPlan
RoundsFollowPlan == Plan!PlanSpec

-----------------------------------------------------------------------------
(* Properties of the Jobs of a batch. *)

\* As long as nobody deletes a Job, at most one worker Job of the batch runs
\* at a time: the next round only starts when the Job before it is terminal,
\* for whoever starts it.
OneRoundRunning == removals = 0 => Cardinality(RunningRounds) <= 1

\* As long as nobody deletes a Job, a repository whose Pod completed or failed
\* is in no later round: only what is unfinished is scanned again (roundOutcome).
SettledNeverRescanned ==
  removals = 0 => \A n, m \in DOMAIN jobs :
    n < m => Listed(jobs[m].chunks) \cap (InState(n, "completed") \cup InState(n, "failed")) = {}

\* A later round gets no more time than was left of the batch when the round
\* before it started, or the minimum of a second (RoundDeadline).
RoundsShareTheBatchTime ==
  \A n \in DOMAIN jobs :
    (n > 0 /\ {0, n - 1} \subseteq DOMAIN jobs) =>
      \/ jobs[n].ends - jobs[n].created <= MinDeadline
      \/ jobs[n].ends - jobs[n].created
           <= jobs[0].created + Deadline - jobs[n - 1].created

\* A round that was superseded is not scanned again: its Job is never created
\* while the next round is stored (the check of runRound before it creates).
SupersededRoundNotRerun ==
  [][\A n \in DOMAIN jobs' \ DOMAIN jobs : ~IsStored(n + 1)]_vars

\* README, "Kubernetes-uitvoering": a restarted controller never creates a
\* finished round again; it stops with an error when the Job is gone.
FinishedRoundNeverRecreated ==
  [][\A n \in DOMAIN jobs' \ DOMAIN jobs : n \notin finished]_vars

-----------------------------------------------------------------------------
(* Properties of the outcome of a batch. *)

\* The repositories the current round of a controller is about.
Current(c) == IF pc[c] \in {"report", "done"} THEN {} ELSE Listed(chunks[c])

\* As long as nobody deletes a Job, every repository of the batch is, for a
\* controller that is past round 0's ConfigMaps, in exactly one of: completed,
\* failed, the current round. None is lost or counted twice when rounds are
\* resumed (RunController's loop).
EveryRepositoryCountedOnce ==
  \A c \in Controllers :
    (removals = 0 /\ (round[c] > 0 \/ pc[c] \in Adopted \cup {"report"})) =>
      /\ completed[c] \cup failed[c] \cup Current(c) = Manifest(0)
      /\ completed[c] \cap failed[c] = {}
      /\ (completed[c] \cup failed[c]) \cap Current(c) = {}

\* When the controller is done, the endpoint has a submission for every
\* repository of the batch: a result of its worker or a failure report.
EveryRepositoryReported ==
  \A c \in Controllers :
    (pc[c] = "done" /\ ResultsConfigured /\ IsStored(0)) =>
      \A repo \in Manifest(0) : {Result(repo), Failure(repo)} \cap received # {}

\* A repository whose Pod completed in some round is not reported as failed
\* (README: what is not finished then counts as failed and is reported).
CompletedNotReportedFailed ==
  \A n \in DOMAIN jobs :
    \A repo \in InState(n, "completed") : Failure(repo) \notin received

\* Once round 0 is stored, a restart with the same rules never runs into a
\* conflict, unless somebody deleted a Job: register changes and crashes between
\* two ConfigMaps of a later round do not stop the batch (roundManifest,
\* createOrVerifyConfigMap).
StoredBatchResumes ==
  \A c \in Controllers : (removals = 0 /\ IsStored(0)) => pc[c] # "refused"

\* Once round 0 is stored, the batch ends, however often (finitely) the
\* controller is restarted and even if no Pod ever makes progress, unless
\* somebody deleted a Job.
StoredBatchEnds ==
  \A c \in Controllers : IsStored(0) ~> (pc[c] = "done" \/ removals > 0)
=============================================================================
