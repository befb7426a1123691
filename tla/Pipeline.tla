------------------------------ MODULE Pipeline ------------------------------
(***************************************************************************)
(* Run: one scan.  Four stages follow each other, checkout (five git       *)
(* commands), analyze, advise and evaluate; each has a timer, runs its     *)
(* commands in a process group of their own, and is judged by its exit     *)
(* code and result file.  run.json is written at the start, after each     *)
(* stage and at the end.  Around it: the context of the caller, commands   *)
(* that fail, hang or leave processes behind, system calls that fail, an   *)
(* operator who edits the rules, and the end of the runner itself.         *)
(***************************************************************************)
EXTENDS Results

CONSTANTS
  Commits,    \* commits of the repository
  NoCommit,   \* no commit requested, none checked out
  Rules,      \* contents of evaluator.rules.kts
  NoRules,    \* no rules recorded or evaluated yet
  Codes,      \* exit codes of commands, -1 for one that a signal ended
  Depth,      \* bound: levels of a dependency tree below its roots
  MaxFaults   \* bound: system calls that fail

ASSUME PipelineAssumption ==
  /\ NoCommit \notin Commits /\ NoRules \notin Rules
  /\ 0 \in Codes
  /\ Depth \in Nat /\ MaxFaults \in Nat
  \* A dependency tree is finite, as it is read from a JSON document.
  /\ \E below \in [Dependencies -> 0..Depth] :
       \A node \in Dependencies : \A d \in node.dependencies : below[d] < below[node]

VARIABLES
  at,         \* where Run is
  requested,  \* cfg.Revision
  report,     \* [status, stages, revision, digest] of the report in memory
  error,      \* will Run return an error?
  saved,      \* the same of run.json, NotSaved when there is no such file
  work,       \* is the temporary directory there?
  stage,      \* number of the current stage
  command,    \* number of its current command
  process,    \* the process of that command
  group,      \* are there other processes in its group?
  code,       \* exit code of the process, then what runCommand returned
  artifact,   \* result file of the current stage
  expired,    \* the timer of the stage ran out
  cancelled,  \* the caller's context is done
  commit,     \* what is checked out
  rules,      \* evaluator.rules.kts in the configuration directory now
  used,       \* the rules the evaluator was started with
  quality,    \* history: what the commands of each stage really did
  faults      \* system calls that failed so far

runVars == <<requested, report, error, saved, work>>
stageVars == <<stage, command, expired>>
processVars == <<process, group, code, artifact>>
worldVars == <<cancelled, commit, rules, used, quality>>
vars == <<at, runVars, stageVars, processVars, worldVars, faults>>

Stages == 1..4
StageName == <<"checkout", "analyze", "advise", "evaluate">>
Ended == {"returned", "crashed"}
GitCommands == 5
Checkout == 4   \* the git command after which HEAD is read

NotSaved == [status |-> "none"]

NewReport(status) ==
  [status |-> status, stages |-> [s \in Stages |-> "pending"],
   revision |-> requested, digest |-> NoRules]

Init ==
  /\ at = "validate" /\ requested \in Commits \cup {NoCommit}
  /\ report = NewReport("none") /\ error = FALSE /\ saved = NotSaved /\ work = FALSE
  /\ stage = 1 /\ command = 1 /\ expired = FALSE
  /\ process = "none" /\ group = FALSE /\ code = 0 /\ artifact = NoArtifact
  /\ cancelled = FALSE /\ commit = NoCommit /\ rules \in Rules /\ used = NoRules
  /\ quality = [s \in Stages |-> "none"] /\ faults = 0

\* A system call fails.
Fault == faults < MaxFaults /\ faults' = faults + 1

\* Return an error: the deferred calls are next.
Abandon(location) == at' = location /\ error' = TRUE

-----------------------------------------------------------------------------
(* Before the first stage. *)

\* Invalid settings, or an output directory that cannot be made.
Refuse ==
  /\ at = "validate"
  /\ Abandon("returned")
  /\ UNCHANGED <<requested, report, saved, work, stageVars, processVars, worldVars, faults>>

\* saveReport renames run.json.tmp when it is complete, so run.json has the
\* new report or still the old one.
FirstSave ==
  /\ at = "validate"
  /\ report' = NewReport("running")
  /\ \/ saved' = report' /\ at' = "prepare" /\ UNCHANGED <<error, faults>>
     \/ Fault /\ Abandon("finish") /\ UNCHANGED saved
  /\ UNCHANGED <<requested, work, stageVars, processVars, worldVars>>

\* Start a stage with its own timer.
Enter(s, r) ==
  /\ report' = [r EXCEPT !.stages[s] = "running"]
  /\ stage' = s /\ command' = 1 /\ expired' = FALSE
  /\ at' = "launch"

\* The temporary directory and the snapshot of the rules.
Prepare ==
  /\ at = "prepare"
  /\ work' = TRUE
  /\ \/ Enter(1, [report EXCEPT !.digest = rules]) /\ UNCHANGED <<error, faults>>
     \/ /\ Fault /\ Abandon("cleanup") /\ UNCHANGED stageVars
        /\ \E digest \in {NoRules, rules} : report' = [report EXCEPT !.digest = digest]
  /\ UNCHANGED <<requested, saved, processVars, worldVars>>

NoDirectory ==
  /\ at = "prepare"
  /\ Fault /\ Abandon("finish")
  /\ UNCHANGED <<requested, report, saved, work, stageVars, processVars, worldVars>>

-----------------------------------------------------------------------------
(* runCommand. *)

\* Mutant of ContextDone: only the caller can stop a command.
CallerOnly == cancelled

ContextDone == cancelled \/ expired

\* Mutant of RulesFile: the evaluator reads the configuration directory.
LiveRules == rules

\* The evaluator reads the snapshot.
RulesFile == report.digest

Launch ==
  /\ at = "launch" /\ ~ContextDone
  /\ process' = "running" /\ artifact' = NoArtifact
  /\ used' = IF StageName[stage] = "evaluate" THEN RulesFile ELSE used
  /\ at' = "running"
  /\ UNCHANGED <<runVars, stageVars, group, code, cancelled, commit, rules, quality, faults>>

\* The log cannot be opened, the program is not there, or the context is done.
LaunchFails ==
  /\ at = "launch"
  /\ IF ContextDone THEN UNCHANGED faults ELSE Fault
  /\ code' = -1 /\ at' = "judge"
  /\ UNCHANGED <<runVars, stageVars, process, group, artifact, worldVars>>

\* Cancel, called when the context is done: SIGKILL to the whole group.
KillGroup ==
  /\ at = "running" /\ process = "running" /\ ContextDone
  /\ process' = "exited" /\ group' = FALSE /\ code' = -1
  /\ quality' = [quality EXCEPT ![stage] = "bad"]
  /\ UNCHANGED <<at, runVars, stageVars, artifact, cancelled, commit, rules, used, faults>>

\* Mutant of LeftBehind: nothing is done about background processes.
Ignored == group

\* What is left of the group when the command has exited gets SIGKILL.
LeftBehind == FALSE

\* A context that is done makes the command fail, also if it exited before.
Returned == IF ContextDone THEN -1 ELSE code

Reap ==
  /\ at = "running" /\ process = "exited"
  /\ process' = "none" /\ group' = LeftBehind /\ code' = Returned
  /\ at' = "judge"
  /\ UNCHANGED <<runVars, stageVars, artifact, worldVars, faults>>

-----------------------------------------------------------------------------
(* Judging a stage. *)

\* finishStage, and what Run does with an error.
Finish(r, verdict) ==
  /\ report' = [r EXCEPT !.stages[stage] = verdict]
  /\ IF verdict = "failed" THEN Abandon("cleanup") ELSE at' = "store" /\ UNCHANGED error
  /\ UNCHANGED <<requested, saved, work, stageVars, processVars, worldVars>>

Matches == requested = NoCommit \/ commit = requested

\* The next git command; after the one that checks out, HEAD is read.
NextCommand ==
  /\ at = "judge" /\ stage = 1
  /\ code = 0 /\ command < GitCommands
  /\ command = Checkout => Matches
  /\ command' = command + 1 /\ at' = "launch"
  /\ UNCHANGED <<runVars, stage, expired, processVars, worldVars, faults>>

\* HEAD cannot be read, or is not the requested commit.
WrongHead ==
  /\ at = "judge" /\ stage = 1
  /\ code = 0 /\ command = Checkout
  /\ \/ Fault /\ Finish(report, "failed")
     \/ ~Matches /\ Finish([report EXCEPT !.revision = commit], "failed") /\ UNCHANGED faults

\* A git command failed, or the last one, for submodules, is over; then the
\* report gets the commit that was checked out.
FinishCheckout ==
  /\ at = "judge" /\ stage = 1
  /\ code # 0 \/ command = GitCommands
  /\ Finish([report EXCEPT !.revision = IF command = GitCommands THEN commit ELSE @],
            IF code = 0 THEN "completed" ELSE "failed")
  /\ UNCHANGED faults

\* Mutant of Verdict: a command that failed is judged by the file it left.
ByArtifact ==
  IF Usable(artifact) THEN ReadResult(artifact, StageName[stage], 0) ELSE "failed"

\* The result is read after exit code 0, and after 2, which may be usable.
Verdict ==
  IF code \in {0, 2} THEN ReadResult(artifact, StageName[stage], code) ELSE "failed"

FinishStage ==
  /\ at = "judge" /\ stage > 1
  /\ Finish(report, Verdict)
  /\ UNCHANGED faults

\* The status after the last stage.
Conclusion ==
  IF \E s \in Stages : report.stages[s] = "incomplete" THEN "incomplete" ELSE "completed"

\* Mutant of Stored: run.json is only written at the end.
NothingStored == saved

Stored == report

\* Save, then the next stage or the end; incomplete stages are an error.
Store ==
  /\ at = "store"
  /\ saved' = Stored
  /\ IF stage < 4
     THEN Enter(stage + 1, report) /\ UNCHANGED error
     ELSE /\ report' = [report EXCEPT !.status = Conclusion]
          /\ error' = (Conclusion = "incomplete")
          /\ at' = "cleanup" /\ UNCHANGED stageVars
  /\ UNCHANGED <<requested, work, processVars, worldVars, faults>>

StoreFails ==
  /\ at = "store"
  /\ Fault /\ Abandon("cleanup")
  /\ UNCHANGED <<requested, report, saved, work, stageVars, processVars, worldVars>>

-----------------------------------------------------------------------------
(* The deferred calls. *)

\* A temporary directory that cannot be removed is only logged.
Cleanup ==
  /\ at = "cleanup"
  /\ \/ work' = FALSE /\ UNCHANGED faults
     \/ Fault /\ UNCHANGED work
  /\ at' = "finish"
  /\ UNCHANGED <<requested, report, error, saved, stageVars, processVars, worldVars>>

\* Mutant of Closed: an early return leaves the report as it is.
Unclosed(r) == r

\* What is still running has failed, what is still pending was skipped.
Closed(r) ==
  [r EXCEPT !.status = IF @ = "running" THEN "failed" ELSE @,
            !.stages = [s \in Stages |-> IF @[s] = "pending" THEN "skipped" ELSE @[s]]]

LastSave ==
  /\ at = "finish"
  /\ report' = Closed(report)
  /\ \/ saved' = report' /\ UNCHANGED <<error, faults>>
     \/ Fault /\ error' = TRUE /\ UNCHANGED saved
  /\ at' = "saved"
  /\ UNCHANGED <<requested, work, stageVars, processVars, worldVars>>

Leave ==
  /\ at = "saved" /\ at' = "returned"
  /\ UNCHANGED <<runVars, stageVars, processVars, worldVars, faults>>

-----------------------------------------------------------------------------
(* The world: commands, timers, the caller, the operator. *)

\* The dependencies of a result file that are n levels below the roots.
Level[n \in 0..Depth] ==
  [file \in Artifacts |->
     IF n = 0 THEN file.dependencies ELSE UNION {d.dependencies : d \in Level[n - 1][file]}]

HasIssue(file) ==
  \/ file.issues \cap Serious # {}
  \/ \E n \in 0..Depth : \E d \in Level[n][file] : d.issues \cap Serious # {}

\* What a command that ended by itself did: nothing to build on, something
\* with gaps, or all it should.
Quality(s, exit, file) ==
  IF \/ ContextDone
     \/ exit \notin (IF s = 1 THEN {0} ELSE {0, 2})
     \/ s > 1 /\ ~Usable(file)
     \/ s = 4 /\ exit = 2 /\ ~file.violations
  THEN "bad"
  ELSE IF s \in {2, 3} /\ (exit = 2 \/ HasIssue(file)) THEN "weak" ELSE "good"

CommandExits ==
  /\ at = "running" /\ process = "running"
  /\ \E exit \in Codes, file \in (IF stage = 1 THEN {} ELSE Artifacts) \cup {NoArtifact} :
       /\ process' = "exited" /\ code' = exit /\ artifact' = file
       /\ quality' = [quality EXCEPT ![stage] = Quality(stage, exit, file)]
       /\ IF stage = 1 /\ command = Checkout /\ exit = 0
          THEN commit' \in Commits ELSE UNCHANGED commit
  /\ UNCHANGED <<at, runVars, stageVars, group, cancelled, rules, used, faults>>

\* A daemon in the background, in the same process group.
CommandForks ==
  /\ at = "running" /\ process = "running"
  /\ group' = TRUE
  /\ UNCHANGED <<at, runVars, stageVars, process, code, artifact, worldVars, faults>>

TimerExpires ==
  /\ at \in {"launch", "running"} /\ ~expired
  /\ expired' = TRUE
  /\ quality' = [quality EXCEPT ![stage] = IF at = "running" THEN "bad" ELSE @]
  /\ UNCHANGED <<at, runVars, stage, command, processVars, cancelled, commit, rules, used, faults>>

CallerCancels ==
  /\ at \notin Ended /\ ~cancelled
  /\ cancelled' = TRUE
  /\ UNCHANGED <<at, runVars, stageVars, processVars, commit, rules, used, quality, faults>>

RulesEdited ==
  /\ at \notin Ended
  /\ rules' \in Rules
  /\ UNCHANGED <<at, runVars, stageVars, processVars, cancelled, commit, used, quality, faults>>

\* The runner is killed; its children are not. The machine goes on: a run.json
\* that was renamed stays renamed, though saveJSON does not sync it.
Crash ==
  /\ at \notin Ended
  /\ at' = "crashed"
  /\ UNCHANGED <<runVars, stageVars, processVars, worldVars, faults>>

Proceed ==
  \/ Refuse \/ FirstSave \/ Prepare \/ NoDirectory
  \/ Launch \/ LaunchFails \/ KillGroup \/ Reap
  \/ NextCommand \/ WrongHead \/ FinishCheckout
  \/ FinishStage \/ Store \/ StoreFails
  \/ Cleanup \/ LastSave \/ Leave

World ==
  CommandExits \/ CommandForks \/ TimerExpires \/ CallerCancels \/ RulesEdited \/ Crash

Next == Proceed \/ World

Spec == Init /\ [][Next]_vars

\* Run goes on, and timers run out. Nothing is assumed of the commands.
FairSpec == Spec /\ WF_vars(Proceed) /\ WF_vars(TimerExpires)

-----------------------------------------------------------------------------
(* Properties. *)

Report ==
  [status : {"none", "running", "completed", "incomplete", "failed"},
   stages : [Stages -> {"pending", "running", "completed", "incomplete", "failed", "skipped"}],
   revision : Commits \cup {NoCommit}, digest : Rules \cup {NoRules}]

ReportType ==
  /\ at \in {"validate", "prepare", "launch", "running", "judge", "store",
             "cleanup", "finish", "saved", "returned", "crashed"}
  /\ requested \in Commits \cup {NoCommit}
  /\ report \in Report
  /\ saved \in Report \cup {NotSaved}
  /\ at = "saved" => \A s \in Stages : report.stages[s] \notin {"pending", "running"}
  /\ error \in BOOLEAN /\ work \in BOOLEAN

CommandType ==
  /\ stage \in Stages /\ command \in 1..GitCommands /\ expired \in BOOLEAN
  /\ process \in {"none", "running", "exited"} /\ group \in BOOLEAN
  /\ code \in Codes \cup {-1}
  /\ artifact \in Artifacts \cup {NoArtifact}

WorldType ==
  /\ cancelled \in BOOLEAN
  /\ commit \in Commits \cup {NoCommit}
  /\ rules \in Rules /\ used \in Rules \cup {NoRules}
  /\ quality \in [Stages -> {"none", "good", "weak", "bad"}]
  /\ faults \in 0..MaxFaults

\* Type invariant: a report that is over has no stage that is not.
TypeOK == ReportType /\ CommandType /\ WorldType

\* Whenever run.json says "completed", after a crash too, every command did all
\* it should, in time; when it says "incomplete", every stage left a result to
\* build on and one of them has gaps (Run, readResult, finishStage).
SavedVerdictTrue ==
  /\ saved.status = "completed" => \A s \in Stages : quality[s] = "good"
  /\ saved.status = "incomplete" =>
       /\ \A s \in Stages : quality[s] \in {"good", "weak"}
       /\ \E s \in Stages : quality[s] = "weak"

\* No stage runs on the result of one that is missing, unreadable, late or of a
\* command that failed (README, "Resultaten en exitcodes"; TestMissingAnalyzer-
\* ArtifactStopsDependentStages).
NoStageOnBadResult ==
  at = "running" => \A s \in Stages : s < stage => quality[s] \in {"good", "weak"}

\* A scan in which nothing failed and nobody interfered is completed, although
\* the evaluator exits with 2 for rule violations (readResult).
AllWellIsCompleted ==
  (/\ at = "returned" /\ faults = 0 /\ ~cancelled
   /\ \A s \in Stages : quality[s] = "good") =>
    saved.status = "completed" /\ ~error

\* The stages before the current one are in run.json as they ended, so that a
\* crash in a stage loses nothing of the earlier ones (Run's saves).
EarlierStagesSaved ==
  at \in {"launch", "running", "judge"} =>
    \A s \in Stages : s < stage => saved.stages[s] = report.stages[s]

\* When no command is being run, no process is left in the group of a command,
\* whether the command ended, was killed, or left daemons behind (one that left
\* the group is out of the code's reach); and when Run has returned, the
\* temporary directory is gone unless removing it failed (runCommand, Run).
NothingLeftBehind ==
  /\ at \notin {"running", "crashed"} => process = "none" /\ ~group
  /\ at = "returned" /\ work => faults > 0

\* The report names what was scanned and with what: the evaluator runs with the
\* rules whose digest is recorded, whoever edits the configuration during the
\* scan (snapshotConfig), and the revision is the commit that was checked out,
\* which is the requested one if there was a request (checkout).
ScannedAsRecorded ==
  /\ used \in {NoRules, report.digest}
  /\ report.stages[1] = "completed" =>
       report.revision = commit /\ requested \in {NoCommit, commit}

\* Run implements Scan: run.json and the returned status never disagree.
Promise == INSTANCE Scan WITH
  outcome <- IF at = "returned" THEN [status |-> report.status, error |-> error]
             ELSE [status |-> "running", error |-> FALSE],
  record <- saved.status
ImplementsScan == Promise!ScanSpec

\* A scan ends, whatever its commands do: a command that hangs is killed when
\* its timer runs out (CommandContext, Cancel).
ScanEnds == <>(at \in Ended)
=============================================================================
