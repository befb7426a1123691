------------------------------- MODULE Cluster -------------------------------
(***************************************************************************)
(* What the controller of a batch shares with the rest of the world: the   *)
(* ConfigMaps and Indexed Jobs kept by the Kubernetes API server, the Pods *)
(* that scan one repository each, the result endpoint, and the clock.      *)
(*                                                                         *)
(* Kubernetes and the endpoint are not part of the repository; they are    *)
(* modelled from the way the controller and its tests use them.  The Pod   *)
(* steps are those of module Pod, which ort-runner worker and ort-runner   *)
(* deliver implement (module Worker).                                      *)
(*                                                                         *)
(* A completion index is a position in the sorted manifest, so a Job that  *)
(* runs a manifest is described per repository rather than per index.      *)
(* Chunks are counted from 1 here, from 0 in the code: "chunk 0" of a      *)
(* round, the one that is created last, is key <<round, 1>>.               *)
(***************************************************************************)
EXTENDS Integers, Sequences, FiniteSets

CONSTANTS
  Repositories,       \* every repository the register can list
  RuleVersions,       \* the contents evaluator.rules.kts can have
  NoRules,            \* no rules ConfigMap, or no rules read yet
  ResultsConfigured,  \* is ORT_RESULTS_URL set?
  MaxTime,            \* bound: the clock stops here unless a Job still runs
  MaxRemovals         \* bound: Jobs removed by hand

ASSUME ClusterAssumption ==
  /\ NoRules \notin RuleVersions
  /\ ResultsConfigured \in BOOLEAN
  /\ MaxTime \in Nat
  /\ MaxRemovals \in Nat

VARIABLES
  configMaps,  \* stored manifest chunks: <<round, chunk>> -> [count, group]
  rulesMap,    \* content of the rules ConfigMap, NoRules when there is none
  jobs,        \* worker Jobs: round -> [chunks, created, ends, pods, reason]
  received,    \* submissions the result endpoint accepted
  now,         \* the clock of controller and cluster
  finished,    \* history: rounds whose Job was terminal at some time
  removals     \* number of Jobs removed by hand so far

clusterVars == <<configMaps, rulesMap, jobs, received, now, finished, removals>>

PodStates == {"waiting", "posted", "completed", "failed"}

\* The Failed reasons Kubernetes gives these Jobs; a Job that reached
\* JobComplete is "Complete", one that is not terminal is "running".
FailedReasons == {"FailedIndexes", "BackoffLimitExceeded", "DeadlineExceeded"}
Reasons == FailedReasons \cup {"running", "Complete"}

Put(store, key, value) ==
  [k \in DOMAIN store \cup {key} |-> IF k = key THEN value ELSE store[k]]

Empty == [k \in {} |-> 0]

\* The repositories a manifest, given as its chunks, lists.
Listed(chunks) == UNION {chunks[i] : i \in DOMAIN chunks}

Result(repo)  == [repo |-> repo, kind |-> "result"]
Failure(repo) == [repo |-> repo, kind |-> "failure"]
Submissions   == [repo : Repositories, kind : {"result", "failure"}]

InState(round, state) ==
  {repo \in DOMAIN jobs[round].pods : jobs[round].pods[repo] = state}

Running(round) == jobs[round].reason = "running"
RunningRounds  == {round \in DOMAIN jobs : Running(round)}

ClusterInit ==
  /\ configMaps = Empty
  /\ rulesMap = NoRules
  /\ jobs = Empty
  /\ received = {}
  /\ now = 0
  /\ finished = {}
  /\ removals = 0

-----------------------------------------------------------------------------
(* One Pod of a running Job: scan, POST the submission, exit. *)

SetPod(round, repo, state) == jobs' = [jobs EXCEPT ![round].pods[repo] = state]

\* The endpoint accepts the submission; the answer may still get lost.
PodPosts(round, repo) ==
  /\ ResultsConfigured
  /\ Running(round)
  /\ jobs[round].pods[repo] = "waiting"
  /\ SetPod(round, repo, "posted")
  /\ received' = received \cup {Result(repo)}
  /\ UNCHANGED <<configMaps, rulesMap, now, finished, removals>>

\* A request of a Pod that has ended, itself or with its Job, is accepted late.
PodPostsLate(round, repo) ==
  /\ ResultsConfigured
  /\ \/ jobs[round].pods[repo] = "failed"
     \/ jobs[round].pods[repo] = "waiting" /\ ~Running(round)
  /\ received' = received \cup {Result(repo)}
  /\ UNCHANGED <<configMaps, rulesMap, jobs, now, finished, removals>>

\* deliver exits 0 only after an acknowledged POST, or without an endpoint.
PodSucceeds(round, repo) ==
  /\ Running(round)
  /\ jobs[round].pods[repo] = IF ResultsConfigured THEN "posted" ELSE "waiting"
  /\ SetPod(round, repo, "completed")
  /\ UNCHANGED <<configMaps, rulesMap, received, now, finished, removals>>

\* OOM kill, eviction, lost node, or deliver gave up after its last attempt.
\* With backoffLimitPerIndex 0 a failed Pod is a failed index.
PodFails(round, repo) ==
  /\ Running(round)
  /\ jobs[round].pods[repo] \in {"waiting", "posted"}
  /\ SetPod(round, repo, "failed")
  /\ UNCHANGED <<configMaps, rulesMap, received, now, finished, removals>>

-----------------------------------------------------------------------------
(* The Job controller of Kubernetes. *)

Unfinished(round) == InState(round, "waiting") \cup InState(round, "posted")

\* Failed Pods are not attributed to the backoff limit: it may be exceeded
\* whenever something is left to do, as in the tests of the controller.
StopReason(round) ==
  IF Unfinished(round) = {}
  THEN IF InState(round, "failed") = {} THEN {"Complete"} ELSE {"FailedIndexes"}
  ELSE {"BackoffLimitExceeded"}
       \cup (IF now >= jobs[round].ends THEN {"DeadlineExceeded"} ELSE {})

\* Pods that still run when a Job fails are ended; their indexes are neither
\* completed nor failed.
JobStops(round) ==
  /\ Running(round)
  /\ \E reason \in StopReason(round) : jobs' = [jobs EXCEPT ![round].reason = reason]
  /\ finished' = finished \cup {round}
  /\ UNCHANGED <<configMaps, rulesMap, received, now, removals>>

\* Somebody deletes a Job by hand.
JobRemoved(round) ==
  /\ removals < MaxRemovals
  /\ removals' = removals + 1
  /\ jobs' = [r \in DOMAIN jobs \ {round} |-> jobs[r]]
  /\ UNCHANGED <<configMaps, rulesMap, received, now, finished>>

\* Before the first Job exists the time does not matter.
Tick ==
  /\ DOMAIN jobs # {}
  /\ \/ now < MaxTime
     \/ \E round \in RunningRounds : now < jobs[round].ends
  /\ now' = now + 1
  /\ UNCHANGED <<configMaps, rulesMap, jobs, received, finished, removals>>

\* What happens by itself; removals are left to the module that uses this one.
ClusterStep ==
  \/ \E round \in DOMAIN jobs :
       \/ \E repo \in DOMAIN jobs[round].pods :
            \/ PodPosts(round, repo)
            \/ PodPostsLate(round, repo)
            \/ PodSucceeds(round, repo)
            \/ PodFails(round, repo)
       \/ JobStops(round)
  \/ Tick
=============================================================================
