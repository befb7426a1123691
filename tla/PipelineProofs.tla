--------------------------- MODULE PipelineProofs ---------------------------
(***************************************************************************)
(* Proofs about Pipeline for every set of commits, rules, exit codes and   *)
(* result files, and every number of failing system calls.                 *)
(*                                                                         *)
(* The inductive invariant has one part per question: which stage may be   *)
(* called running, what run.json and the report say at each point, which   *)
(* processes there are, and what is known of the stages that are over.     *)
(*                                                                         *)
(* For the verdicts it is strengthened twice: by what a verdict says of    *)
(* the command (VerdictInv), and by what is known of a scan that nothing   *)
(* disturbed (WellInv).                                                    *)
(***************************************************************************)
EXTENDS Pipeline, Lemmas

Busy == {"launch", "running", "judge"}

\* Only the current stage is running, and only while it is worked on.
StagesOK ==
  /\ at \in Busy => report.stages[stage] = "running"
  /\ at \notin Busy \cup {"crashed"} => \A s \in Stages : report.stages[s] # "running"
  /\ at \in Busy => \A s \in Stages : s # stage => report.stages[s] # "running"

\* What run.json and the error say of the status in memory.
StatusOK ==
  /\ at = "validate" => report.status = "none" /\ saved = NotSaved
  /\ at \in {"prepare", "store"} \cup Busy =>
       report.status = "running" /\ saved.status = "running"
  /\ at = "cleanup" => saved.status = "running"
  /\ at = "finish" => saved.status \in {"none", "running"}
  /\ at \in {"cleanup", "finish"} =>
       /\ report.status \in {"running", "completed", "incomplete"}
       /\ report.status # "completed" => error
  /\ at \in {"saved", "returned"} =>
       /\ report.status # "completed" => error
       /\ saved.status \in {"none", "running"} => error
       /\ saved.status \notin {"none", "running"} => saved.status = report.status
  /\ at = "saved" => report.status \in {"completed", "incomplete", "failed"}

\* The processes of a command, and the temporary directory.
ProcessOK ==
  /\ at \notin {"running", "crashed"} => process = "none" /\ ~group
  /\ at \in {"validate", "prepare"} => ~work
  /\ at \in {"finish", "saved", "returned"} /\ work => faults > 0

\* No rules are used before they are recorded.
RulesOK ==
  /\ at \in {"validate", "prepare"} => used = NoRules
  /\ used \in {NoRules, report.digest}

\* After the checkout, HEAD has been compared with the request; what the report
\* names then is the commit.
RevisionAsScanned ==
  report.stages[1] = "completed" =>
    report.revision = commit /\ requested \in {NoCommit, commit}
RevisionOK ==
  /\ (at \in Busy /\ stage = 1 /\ command > Checkout) => Matches
  /\ RevisionAsScanned

\* What is known of a command that has exited: a usable result of a command that
\* nobody stopped is not bad.
ExitKnown ==
  (at = "running" /\ process = "exited" /\ ~ContextDone) =>
    /\ stage = 1 /\ code = 0 => quality[stage] \in {"good", "weak"}
    /\ stage > 1 /\ Verdict # "failed" => quality[stage] \in {"good", "weak"}

\* The same once the command has been reaped: then only its code counts.
JudgeKnown ==
  at = "judge" =>
    /\ stage = 1 /\ code = 0 => quality[stage] \in {"good", "weak"}
    /\ stage > 1 /\ Verdict # "failed" => quality[stage] \in {"good", "weak"}

\* The stages before the current one are usable, and saved as they ended.
EarlierOK ==
  /\ at \in Busy \cup {"store"} => \A s \in Stages : s < stage => quality[s] \in {"good", "weak"}
  /\ at = "store" => quality[stage] \in {"good", "weak"}
  /\ EarlierStagesSaved

IInv ==
  /\ TypeOK /\ StagesOK /\ StatusOK /\ ProcessOK /\ RulesOK /\ RevisionOK
  /\ ExitKnown /\ JudgeKnown /\ EarlierOK

-----------------------------------------------------------------------------
(* Reports. *)

StageStates == {"pending", "running", "completed", "incomplete", "failed", "skipped"}

LEMMA NewReportType ==
  ASSUME requested \in Commits \cup {NoCommit}, NEW status \in {"none", "running"}
  PROVE  /\ NewReport(status) \in Report
         /\ NewReport(status).status = status
         /\ NewReport(status).digest = NoRules
         /\ \A s \in Stages : NewReport(status).stages[s] = "pending"
BY DEF NewReport, Report

\* A report in which one stage gets another state.
LEMMA StageSet ==
  ASSUME NEW r \in Report, NEW s \in Stages, NEW v \in StageStates,
         NEW next, next = [r EXCEPT !.stages[s] = v]
  PROVE  /\ next \in Report
         /\ next.stages[s] = v
         /\ \A t \in Stages : t # s => next.stages[t] = r.stages[t]
         /\ next.status = r.status /\ next.revision = r.revision /\ next.digest = r.digest
<1>1. r.stages \in [Stages -> StageStates]
  BY DEF Report, StageStates
<1>2. next = [r EXCEPT !.stages = [r.stages EXCEPT ![s] = v]]
  BY DEF Report
<1>3. QED
  BY <1>1, <1>2 DEF Report, StageStates

LEMMA StatusSet ==
  ASSUME NEW r \in Report, NEW v \in {"none", "running", "completed", "incomplete", "failed"},
         NEW next, next = [r EXCEPT !.status = v]
  PROVE  /\ next \in Report /\ next.status = v
         /\ next.stages = r.stages /\ next.revision = r.revision /\ next.digest = r.digest
BY DEF Report

LEMMA RevisionSet ==
  ASSUME NEW r \in Report, NEW v \in Commits \cup {NoCommit},
         NEW next, next = [r EXCEPT !.revision = v]
  PROVE  /\ next \in Report /\ next.revision = v
         /\ next.status = r.status /\ next.stages = r.stages /\ next.digest = r.digest
BY DEF Report

LEMMA DigestSet ==
  ASSUME NEW r \in Report, NEW v \in Rules \cup {NoRules},
         NEW next, next = [r EXCEPT !.digest = v]
  PROVE  /\ next \in Report /\ next.digest = v
         /\ next.status = r.status /\ next.stages = r.stages /\ next.revision = r.revision
BY DEF Report

\* The report after the deferred function.
LEMMA ClosedReport ==
  ASSUME NEW r \in Report
  PROVE  /\ Closed(r) \in Report
         /\ Closed(r).status = IF r.status = "running" THEN "failed" ELSE r.status
         /\ Closed(r).revision = r.revision /\ Closed(r).digest = r.digest
         /\ \A s \in Stages :
              Closed(r).stages[s] = IF r.stages[s] = "pending" THEN "skipped" ELSE r.stages[s]
<1> DEFINE stages == [s \in Stages |-> IF r.stages[s] = "pending" THEN "skipped" ELSE r.stages[s]]
           status == IF r.status = "running" THEN "failed" ELSE r.status
           Fields == {"status", "stages", "revision", "digest"}
<1>1. stages \in [Stages -> StageStates]
      /\ status \in {"none", "running", "completed", "incomplete", "failed"}
  BY DEF Report, StageStates
<1>2. /\ Closed(r) \in [Fields -> {Closed(r)[f] : f \in Fields}]
      /\ Closed(r).status = status /\ Closed(r).stages = stages
      /\ Closed(r).revision = r.revision /\ Closed(r).digest = r.digest
  BY DEF Closed, Report
<1>3. QED
  BY <1>1, <1>2 DEF Report, StageStates
-----------------------------------------------------------------------------
(* What the steps that change the report do to it. *)

\* Enter is a step to the first or the next stage.
LEMMA EnterFacts ==
  ASSUME NEW s \in Stages, NEW r \in Report, Enter(s, r)
  PROVE  /\ report' \in Report /\ report'.stages[s] = "running"
         /\ \A t \in Stages : t # s => report'.stages[t] = r.stages[t]
         /\ report'.status = r.status /\ report'.revision = r.revision
         /\ report'.digest = r.digest
         /\ stage' = s /\ command' = 1 /\ expired' = FALSE /\ at' = "launch"
<1>1. report' = [r EXCEPT !.stages[s] = "running"]
  BY DEF Enter
<1>2. QED
  BY <1>1, StageSet DEF Enter, StageStates

LEMMA FinishFacts ==
  ASSUME stage \in Stages, NEW r \in Report, NEW verdict \in {"completed", "incomplete", "failed"},
         Finish(r, verdict)
  PROVE  /\ report' \in Report /\ report'.stages[stage] = verdict
         /\ \A t \in Stages : t # stage => report'.stages[t] = r.stages[t]
         /\ report'.status = r.status /\ report'.revision = r.revision
         /\ report'.digest = r.digest
         /\ IF verdict = "failed" THEN at' = "cleanup" /\ error' = TRUE
            ELSE at' = "store" /\ UNCHANGED error
         /\ UNCHANGED <<requested, saved, work, stageVars, processVars, worldVars>>
<1>1. r.stages \in [Stages -> StageStates] /\ verdict \in StageStates
  BY DEF Report, StageStates
<1>2. report' = [r EXCEPT !.stages = [r.stages EXCEPT ![stage] = verdict]]
  BY DEF Finish, Report
<1>3. /\ report' \in Report /\ report'.stages[stage] = verdict
      /\ \A t \in Stages : t # stage => report'.stages[t] = r.stages[t]
      /\ report'.status = r.status /\ report'.revision = r.revision
      /\ report'.digest = r.digest
  BY <1>1, <1>2 DEF Report, StageStates
<1>4. /\ IF verdict = "failed" THEN at' = "cleanup" /\ error' = TRUE
         ELSE at' = "store" /\ UNCHANGED error
      /\ UNCHANGED <<requested, saved, work, stageVars, processVars, worldVars>>
  BY DEF Finish, Abandon
<1>5. QED
  BY <1>3, <1>4

LEMMA VerdictType == Verdict \in {"completed", "incomplete", "failed"}
BY DEF Verdict, ReadResult

LEMMA ConclusionType ==
  /\ Conclusion \in {"completed", "incomplete"}
  /\ Conclusion # "completed" <=> Conclusion = "incomplete"
BY DEF Conclusion

\* The commit of a report stays one, whichever step finishes the checkout.
LEMMA JudgeFacts ==
  ASSUME TypeOK, WrongHead \/ FinishCheckout \/ FinishStage
  PROVE  \E r \in Report, verdict \in {"completed", "incomplete", "failed"} :
           /\ Finish(r, verdict)
           /\ r.status = report.status /\ r.stages = report.stages /\ r.digest = report.digest
           /\ at = "judge" /\ (stage > 1 => FinishStage /\ verdict = Verdict)
           /\ stage = 1 /\ verdict # "failed" =>
                code = 0 /\ command = GitCommands /\ r.revision = commit
<1>1. CASE WrongHead
  <2> DEFINE r == [report EXCEPT !.revision = commit]
  <2>1. /\ r \in Report
        /\ r.status = report.status /\ r.stages = report.stages /\ r.digest = report.digest
    BY RevisionSet DEF TypeOK, ReportType, CommandType, WorldType
  <2>2. at = "judge" /\ stage = 1 /\ (Finish(report, "failed") \/ Finish(r, "failed"))
    BY <1>1 DEF WrongHead
  <2>3. report \in Report
    BY DEF TypeOK, ReportType, CommandType, WorldType
  <2> HIDE DEF r
  <2>4. CASE Finish(report, "failed")
    BY <2>2, <2>3, <2>4
  <2>6. CASE Finish(r, "failed")
    BY <2>1, <2>2, <2>6
  <2>5. QED
    BY <2>2, <2>4, <2>6
<1>2. CASE FinishCheckout
  <2> DEFINE revision == IF command = GitCommands THEN commit ELSE report.revision
             r == [report EXCEPT !.revision = revision]
             verdict == IF code = 0 THEN "completed" ELSE "failed"
  <2>1. revision \in Commits \cup {NoCommit}
    BY DEF TypeOK, ReportType, CommandType, WorldType, Report
  <2>2. /\ r \in Report /\ r.revision = revision
        /\ r.status = report.status /\ r.stages = report.stages /\ r.digest = report.digest
    <3> HIDE DEF revision
    <3>1. QED
      BY <2>1, RevisionSet DEF TypeOK, ReportType, CommandType, WorldType
  <2>3. Finish(r, verdict) /\ at = "judge" /\ stage = 1
    BY <1>2 DEF FinishCheckout
  <2>4. verdict # "failed" => code = 0 /\ command = GitCommands
    BY <1>2 DEF FinishCheckout
  <2>5. verdict \in {"completed", "incomplete", "failed"}
    OBVIOUS
  <2> HIDE DEF r, verdict
  <2>6. QED
    BY <2>2, <2>3, <2>4, <2>5
<1>3. CASE FinishStage
  BY <1>3, VerdictType DEF FinishStage, TypeOK, ReportType, CommandType, WorldType
<1>4. QED
  BY <1>1, <1>2, <1>3

-----------------------------------------------------------------------------
(* The invariant holds at the start, and no step ends it. *)

LEMMA FirstOnes == 1 \in Stages /\ 1 \in 1..GitCommands
BY DEF Stages, GitCommands

LEMMA InitIInv == Init => IInv
<1> SUFFICES ASSUME Init PROVE IInv
  OBVIOUS
<1>1. /\ report \in Report /\ report.status = "none" /\ report.digest = NoRules
      /\ \A s \in Stages : report.stages[s] = "pending"
  BY NewReportType DEF Init
<1>2. TypeOK
  <2>1. ReportType
    BY <1>1 DEF Init, ReportType
  <2>2. CommandType
    <3>1. stage \in Stages /\ command \in 1..GitCommands /\ code \in Codes \cup {-1}
      BY PipelineAssumption, FirstOnes DEF Init
    <3>2. QED
      BY <3>1 DEF Init, CommandType
  <2>3. WorldType
    <3>1. faults \in 0..MaxFaults
      BY PipelineAssumption DEF Init
    <3>2. QED
      BY <3>1 DEF Init, WorldType
  <2>4. QED
    BY <2>1, <2>2, <2>3 DEF TypeOK
<1>3. StagesOK /\ StatusOK /\ ProcessOK /\ RulesOK /\ RevisionOK
  BY <1>1 DEF Init, StagesOK, StatusOK, ProcessOK, RulesOK, RevisionOK, RevisionAsScanned,
    Busy, NotSaved, Stages
<1>4. ExitKnown /\ JudgeKnown /\ EarlierOK
  BY DEF Init, ExitKnown, JudgeKnown, EarlierOK, EarlierStagesSaved, Busy
<1>5. QED
  BY <1>2, <1>3, <1>4 DEF IInv

\* Steps that leave the report, the stage and the processes alone.
LEMMA QuietSteps ==
  ASSUME IInv, Refuse \/ NoDirectory \/ StoreFails \/ Cleanup \/ Leave \/ Crash \/ RulesEdited
  PROVE  IInv'
<1>1. TypeOK'
  <2>1. ReportType'
    <3>1. CASE Cleanup
      BY <3>1 DEF IInv, TypeOK, ReportType, Cleanup, Fault
    <3>2. CASE ~Cleanup
      BY <3>2 DEF IInv, TypeOK, ReportType, Refuse, NoDirectory, StoreFails, Leave, Crash,
        RulesEdited, Abandon, runVars
    <3>3. QED
      BY <3>1, <3>2
  <2>2. CommandType'
    BY DEF IInv, TypeOK, CommandType, Refuse, NoDirectory, StoreFails, Cleanup, Leave, Crash,
      RulesEdited, stageVars, processVars
  <2>3. WorldType'
    BY PipelineAssumption DEF IInv, TypeOK, WorldType, Refuse, NoDirectory, StoreFails, Cleanup,
      Leave, Crash, RulesEdited, Fault, worldVars
  <2>4. QED
    BY <2>1, <2>2, <2>3 DEF TypeOK
<1>2. StagesOK' /\ ProcessOK'
  BY DEF IInv, TypeOK, ReportType, CommandType, WorldType, StagesOK, ProcessOK, Busy, Refuse,
    NoDirectory, StoreFails, Cleanup, Leave, Crash, RulesEdited, Abandon, Fault, runVars,
    stageVars, processVars, worldVars
<1>3. StatusOK'
  BY DEF IInv, TypeOK, ReportType, CommandType, WorldType, StatusOK, Busy, Refuse, NoDirectory,
    StoreFails, Cleanup, NotSaved, Leave, Crash, RulesEdited, Abandon, Fault, runVars, stageVars,
    processVars, worldVars
<1>4. RulesOK' /\ RevisionOK'
  BY DEF IInv, RulesOK, RevisionOK, RevisionAsScanned, Matches, Busy, Refuse, NoDirectory,
    StoreFails, Cleanup, Leave, Crash, RulesEdited, Abandon, Fault, runVars, stageVars,
    processVars, worldVars
<1>5. ExitKnown' /\ JudgeKnown' /\ EarlierOK'
  BY DEF IInv, ExitKnown, JudgeKnown, EarlierOK, EarlierStagesSaved, ContextDone, Verdict,
    Busy, Refuse, NoDirectory, StoreFails, Cleanup, Leave, Crash, RulesEdited, Abandon, Fault,
    runVars, stageVars, processVars, worldVars
<1>6. QED
  BY <1>1, <1>2, <1>3, <1>4, <1>5 DEF IInv

LEMMA FirstSaveStep ==
  ASSUME IInv, FirstSave
  PROVE  IInv'
<1>1. /\ report' \in Report /\ report'.status = "running" /\ report'.digest = NoRules
      /\ \A s \in Stages : report'.stages[s] = "pending"
  BY NewReportType DEF FirstSave, IInv, TypeOK, ReportType, CommandType, WorldType
<1>2. TypeOK'
  <2>1. ReportType'
    BY <1>1 DEF IInv, TypeOK, ReportType, FirstSave, Abandon
  <2>2. CommandType' /\ WorldType'
    BY PipelineAssumption DEF IInv, TypeOK, CommandType, WorldType, FirstSave, Fault,
      stageVars, processVars, worldVars
  <2>3. QED
    BY <2>1, <2>2 DEF TypeOK
<1>3. StagesOK' /\ StatusOK' /\ ProcessOK' /\ RulesOK' /\ RevisionOK'
  BY <1>1 DEF IInv, TypeOK, ReportType, CommandType, WorldType, StagesOK, StatusOK, ProcessOK,
    RulesOK, RevisionOK, RevisionAsScanned, Busy, NotSaved, Stages, FirstSave, Abandon, Fault,
    stageVars, processVars, worldVars
<1>4. ExitKnown' /\ JudgeKnown' /\ EarlierOK'
  BY DEF ExitKnown, JudgeKnown, EarlierOK, EarlierStagesSaved, Busy, FirstSave, Abandon
<1>5. QED
  BY <1>2, <1>3, <1>4 DEF IInv

LEMMA PrepareStep ==
  ASSUME IInv, Prepare
  PROVE  IInv'
<1>1. CASE Enter(1, [report EXCEPT !.digest = rules]) /\ UNCHANGED <<error, faults>>
  <2> DEFINE r == [report EXCEPT !.digest = rules]
  <2>1. /\ r \in Report /\ r.digest = rules
        /\ r.status = report.status /\ r.stages = report.stages /\ r.revision = report.revision
    BY DigestSet DEF IInv, TypeOK, ReportType, CommandType, WorldType
  <2> HIDE DEF r
  <2>2. 1 \in Stages /\ Enter(1, r)
    BY <1>1 DEF Stages, r
  <2>3. /\ report' \in Report /\ report'.stages[1] = "running"
        /\ \A t \in Stages : t # 1 => report'.stages[t] = report.stages[t]
        /\ report'.status = report.status /\ report'.revision = report.revision
        /\ report'.digest = rules
        /\ stage' = 1 /\ command' = 1 /\ expired' = FALSE /\ at' = "launch"
    BY <2>1, <2>2, EnterFacts
  <2>4. TypeOK'
    <3>1. ReportType'
      BY <1>1, <2>3 DEF IInv, TypeOK, ReportType, Prepare
    <3>2. CommandType' /\ WorldType'
      BY <1>1, <2>3, FirstOnes DEF IInv, TypeOK, CommandType, WorldType, Prepare, processVars,
        worldVars
    <3>3. QED
      BY <3>1, <3>2 DEF TypeOK
  <2>5. StagesOK' /\ StatusOK' /\ ProcessOK' /\ RulesOK' /\ RevisionOK'
    BY <1>1, <2>3 DEF IInv, TypeOK, ReportType, CommandType, WorldType, StagesOK, StatusOK,
      ProcessOK, RulesOK, RevisionOK, RevisionAsScanned, Checkout, Busy, Stages, Prepare,
      processVars, worldVars
  <2>6. ExitKnown' /\ JudgeKnown' /\ EarlierOK'
    BY <2>3 DEF ExitKnown, JudgeKnown, EarlierOK, EarlierStagesSaved, Busy, Stages
  <2>7. QED
    BY <2>4, <2>5, <2>6 DEF IInv
<1>2. CASE /\ Fault /\ Abandon("cleanup") /\ UNCHANGED stageVars
           /\ \E digest \in {NoRules, rules} : report' = [report EXCEPT !.digest = digest]
  <2>1. /\ report' \in Report /\ report'.digest \in {NoRules, rules}
        /\ report'.status = report.status /\ report'.stages = report.stages
        /\ report'.revision = report.revision
    BY <1>2, DigestSet DEF IInv, TypeOK, ReportType, CommandType, WorldType
  <2>2. TypeOK'
    <3>1. ReportType'
      BY <1>2, <2>1 DEF IInv, TypeOK, ReportType, Prepare, Abandon
    <3>2. CommandType' /\ WorldType'
      BY <1>2, <2>1, PipelineAssumption DEF IInv, TypeOK, CommandType, WorldType, Prepare,
        Fault, stageVars, processVars, worldVars
    <3>3. QED
      BY <3>1, <3>2 DEF TypeOK
  <2>3. StagesOK' /\ StatusOK' /\ ProcessOK' /\ RulesOK' /\ RevisionOK'
    BY <1>2, <2>1 DEF IInv, TypeOK, ReportType, CommandType, WorldType, StagesOK, StatusOK,
      ProcessOK, RulesOK, RevisionOK, RevisionAsScanned, Busy, Prepare, Abandon, stageVars,
      processVars, worldVars
  <2>4. ExitKnown' /\ JudgeKnown' /\ EarlierOK'
    BY <1>2 DEF ExitKnown, JudgeKnown, EarlierOK, EarlierStagesSaved, Busy, Abandon
  <2>5. QED
    BY <2>2, <2>3, <2>4 DEF IInv
<1>3. QED
  BY <1>1, <1>2 DEF Prepare

\* Commands are started, stopped and reaped; the report does not change.
LEMMA CommandSteps ==
  ASSUME IInv, Launch \/ LaunchFails \/ KillGroup \/ Reap \/ CommandExits \/ CommandForks
  PROVE  IInv'
<1>1. at \in {"launch", "running"} /\ at' \in {"launch", "running", "judge"}
      /\ UNCHANGED <<requested, report, error, saved, work, stage, command, expired, cancelled, rules>>
  BY DEF Launch, LaunchFails, KillGroup, Reap, CommandExits, CommandForks, runVars, stageVars,
    worldVars
<1>2. quality' \in [Stages -> {"none", "good", "weak", "bad"}]
      /\ \A s \in Stages : s # stage => quality'[s] = quality[s]
  BY DEF Quality, IInv, TypeOK, WorldType, Launch, LaunchFails, KillGroup, Reap, CommandExits,
    CommandForks, worldVars
<1>3. faults' \in 0..MaxFaults
  BY PipelineAssumption DEF IInv, TypeOK, WorldType, Launch, LaunchFails, KillGroup, Reap,
    CommandExits, CommandForks, Fault
<1>4. TypeOK'
  <2>1. ReportType'
    BY <1>1 DEF IInv, TypeOK, ReportType
  <2>2. CommandType'
    <3>1. code' \in Codes \cup {-1}
      BY DEF IInv, TypeOK, CommandType, Launch, LaunchFails, KillGroup, Reap, CommandExits,
        CommandForks, Returned, processVars
    <3>2. artifact' \in Artifacts \cup {NoArtifact}
      BY DEF IInv, TypeOK, CommandType, Launch, LaunchFails, KillGroup, Reap, CommandExits,
        CommandForks, processVars
    <3>3. process' \in {"none", "running", "exited"} /\ group' \in BOOLEAN
      BY DEF IInv, TypeOK, CommandType, Launch, LaunchFails, KillGroup, Reap, CommandExits,
        CommandForks, LeftBehind, processVars
    <3>4. QED
      BY <1>1, <3>1, <3>2, <3>3 DEF IInv, TypeOK, CommandType
  <2>3. commit' \in Commits \cup {NoCommit}
    BY DEF IInv, TypeOK, WorldType, Launch, LaunchFails, KillGroup, Reap, CommandExits,
      CommandForks, worldVars
  <2>4. used' \in Rules \cup {NoRules}
    <3>1. report.digest \in Rules \cup {NoRules}
      BY DEF IInv, TypeOK, ReportType, Report
    <3>2. QED
      BY <3>1 DEF IInv, TypeOK, WorldType, Launch, LaunchFails, KillGroup, Reap, CommandExits,
        CommandForks, RulesFile, worldVars
  <2>5. WorldType'
    BY <1>1, <1>2, <1>3, <2>3, <2>4 DEF IInv, TypeOK, WorldType
  <2>6. QED
    BY <2>1, <2>2, <2>5 DEF TypeOK
<1>5. StagesOK' /\ StatusOK'
  BY <1>1 DEF IInv, StagesOK, StatusOK, Busy
<1>6. ProcessOK'
  BY <1>1 DEF IInv, ProcessOK, LeftBehind, Launch, LaunchFails, KillGroup, Reap, CommandExits,
    CommandForks, processVars
<1>7. RulesOK'
  BY <1>1 DEF IInv, RulesOK, RulesFile, Launch, LaunchFails, KillGroup, Reap, CommandExits,
    CommandForks, worldVars
<1>8. RevisionOK'
  <2>1. CASE commit' = commit
    BY <1>1, <2>1 DEF IInv, RevisionOK, RevisionAsScanned, Matches, Busy
  <2>2. CASE commit' # commit
    <3>1. stage = 1 /\ command = Checkout /\ at = "running" /\ at' = "running"
      BY <2>2 DEF Launch, LaunchFails, KillGroup, Reap, CommandExits, CommandForks, worldVars
    <3>2. report.stages[1] = "running"
      BY <3>1 DEF IInv, StagesOK, Busy
    <3>3. QED
      BY <1>1, <3>1, <3>2 DEF RevisionOK, RevisionAsScanned, Checkout
  <2>3. QED
    BY <2>1, <2>2
<1>9. ExitKnown'
  <2>1. CASE CommandExits
    <3>1. PICK exit \in Codes, file \in Artifacts \cup {NoArtifact} :
            /\ code' = exit /\ artifact' = file
            /\ quality' = [quality EXCEPT ![stage] = Quality(stage, exit, file)]
      BY <2>1 DEF CommandExits
    <3>2. quality'[stage] = Quality(stage, exit, file)
      BY <3>1 DEF IInv, TypeOK, CommandType, WorldType
    <3>3. SUFFICES ASSUME ~ContextDone
                   PROVE  /\ stage = 1 /\ exit = 0 => Quality(stage, exit, file) # "bad"
                          /\ stage > 1 /\ Verdict' # "failed" => Quality(stage, exit, file) # "bad"
      BY <1>1, <3>1, <3>2 DEF ExitKnown, ContextDone, Quality
    <3>4. ASSUME stage > 1, Verdict' # "failed"
          PROVE  Quality(stage, exit, file) # "bad"
      <4>1. exit \in {0, 2} /\ ReadResult(file, StageName[stage], exit) # "failed"
        BY <1>1, <3>1, <3>4 DEF Verdict
      <4>2. Usable(file) /\ ~(StageName[stage] = "evaluate" /\ exit = 2 /\ ~file.violations)
        BY <4>1 DEF ReadResult
      <4>3. stage = 4 => StageName[stage] = "evaluate"
        BY DEF StageName
      <4>4. QED
        BY <3>3, <3>4, <4>1, <4>2, <4>3 DEF Quality
    <3>5. QED
      BY <3>3, <3>4 DEF Quality
  <2>2. CASE CommandForks
    BY <2>2 DEF IInv, ExitKnown, CommandForks, ContextDone, Verdict, stageVars, worldVars, runVars
  <2>3. CASE Launch \/ LaunchFails \/ KillGroup \/ Reap
    BY <2>3 DEF IInv, ExitKnown, Launch, LaunchFails, KillGroup, Reap, ContextDone, stageVars,
      worldVars
  <2>4. QED
    BY <2>1, <2>2, <2>3
<1>10. JudgeKnown'
  <2>1. CASE LaunchFails
    BY <2>1 DEF JudgeKnown, LaunchFails, Verdict
  <2>2. CASE Reap
    <3>1. CASE ContextDone
      BY <2>2, <3>1 DEF JudgeKnown, Reap, Returned, Verdict
    <3>2. CASE ~ContextDone
      BY <2>2, <3>2 DEF IInv, ExitKnown, JudgeKnown, Reap, Returned, Verdict, stageVars, worldVars
    <3>3. QED
      BY <3>1, <3>2
  <2>3. CASE Launch \/ KillGroup \/ CommandExits \/ CommandForks
    BY <2>3 DEF JudgeKnown, Launch, KillGroup, CommandExits, CommandForks
  <2>4. QED
    BY <2>1, <2>2, <2>3
<1>11. EarlierOK'
  <2>1. \A s \in Stages : s < stage => quality'[s] = quality[s]
    BY <1>2 DEF Stages
  <2>2. QED
    BY <1>1, <2>1 DEF IInv, EarlierOK, EarlierStagesSaved, Busy
<1>12. QED
  BY <1>4, <1>5, <1>6, <1>7, <1>8, <1>9, <1>10, <1>11 DEF IInv

\* The next git command, a timer, the caller.
LEMMA ContextSteps ==
  ASSUME IInv, NextCommand \/ TimerExpires \/ CallerCancels
  PROVE  IInv'
<1>1. /\ UNCHANGED <<requested, report, error, saved, work, stage, process, group, code, artifact,
                     commit, rules, used, faults>>
      /\ ContextDone => ContextDone'
  BY DEF NextCommand, TimerExpires, CallerCancels, ContextDone, runVars, stageVars, processVars,
    worldVars
<1>2. \/ at = "judge" /\ at' = "launch" /\ stage = 1 /\ UNCHANGED quality
      \/ UNCHANGED <<at, command>>
  BY DEF NextCommand, TimerExpires, CallerCancels, stageVars, worldVars
<1>3. quality' \in [Stages -> {"none", "good", "weak", "bad"}]
      /\ \A s \in Stages : s # stage => quality'[s] = quality[s]
  BY DEF IInv, TypeOK, WorldType, NextCommand, TimerExpires, CallerCancels, worldVars
<1>4. TypeOK'
  <2>1. command' \in 1..GitCommands
    BY DEF IInv, TypeOK, CommandType, NextCommand, TimerExpires, CallerCancels, GitCommands,
      stageVars
  <2>2. expired' \in BOOLEAN
    BY DEF IInv, TypeOK, CommandType, NextCommand, TimerExpires, CallerCancels, stageVars
  <2>3. cancelled' \in BOOLEAN
    BY DEF IInv, TypeOK, WorldType, NextCommand, TimerExpires, CallerCancels, worldVars
  <2>4. ReportType'
    BY <1>1, <1>2 DEF IInv, TypeOK, ReportType
  <2>5. CommandType'
    BY <1>1, <2>1, <2>2 DEF IInv, TypeOK, CommandType
  <2>6. WorldType'
    BY <1>1, <1>3, <2>3 DEF IInv, TypeOK, WorldType
  <2>7. QED
    BY <2>4, <2>5, <2>6 DEF TypeOK
<1>5. StagesOK' /\ StatusOK' /\ ProcessOK' /\ RulesOK'
  BY <1>1, <1>2 DEF IInv, StagesOK, StatusOK, ProcessOK, RulesOK, Busy
<1>6. RevisionOK'
  <2>1. RevisionAsScanned'
    BY <1>1 DEF IInv, RevisionOK, RevisionAsScanned
  <2>2. (at' \in Busy /\ stage' = 1 /\ command' > Checkout) => Matches'
    <3>1. CASE NextCommand
      BY <1>1, <3>1 DEF IInv, TypeOK, CommandType, RevisionOK, NextCommand, Matches, Busy,
        Checkout, GitCommands
    <3>2. CASE TimerExpires \/ CallerCancels
      BY <1>1, <3>2 DEF IInv, RevisionOK, TimerExpires, CallerCancels, Matches, stageVars
    <3>3. QED
      BY <3>1, <3>2
  <2>3. QED
    BY <2>1, <2>2 DEF RevisionOK
<1>7. ExitKnown'
  <2>1. CASE TimerExpires
    BY <2>1 DEF ExitKnown, TimerExpires, ContextDone
  <2>2. CASE CallerCancels
    BY <2>2 DEF ExitKnown, CallerCancels, ContextDone
  <2>3. CASE NextCommand
    BY <2>3 DEF ExitKnown, NextCommand
  <2>4. QED
    BY <2>1, <2>2, <2>3
<1>8. JudgeKnown'
  BY <1>1 DEF IInv, JudgeKnown, NextCommand, TimerExpires, CallerCancels, Verdict
<1>9. EarlierOK'
  <2>1. \A s \in Stages : s < stage => quality'[s] = quality[s]
    BY <1>3 DEF Stages
  <2>2. at = "store" => UNCHANGED quality
    BY DEF NextCommand, TimerExpires, CallerCancels
  <2>3. QED
    BY <1>1, <1>2, <2>1, <2>2 DEF IInv, EarlierOK, EarlierStagesSaved, Busy
<1>10. QED
  BY <1>4, <1>5, <1>6, <1>7, <1>8, <1>9 DEF IInv

LEMMA JudgeSteps ==
  ASSUME IInv, WrongHead \/ FinishCheckout \/ FinishStage
  PROVE  IInv'
<1>1. PICK r \in Report, verdict \in {"completed", "incomplete", "failed"} :
        /\ Finish(r, verdict)
        /\ r.status = report.status /\ r.stages = report.stages /\ r.digest = report.digest
        /\ at = "judge" /\ (stage > 1 => FinishStage /\ verdict = Verdict)
        /\ stage = 1 /\ verdict # "failed" =>
             code = 0 /\ command = GitCommands /\ r.revision = commit
  BY JudgeFacts DEF IInv
<1>2. /\ report' \in Report /\ report'.stages[stage] = verdict
      /\ \A t \in Stages : t # stage => report'.stages[t] = report.stages[t]
      /\ report'.status = report.status /\ report'.revision = r.revision
      /\ report'.digest = report.digest
      /\ IF verdict = "failed" THEN at' = "cleanup" /\ error' = TRUE
         ELSE at' = "store" /\ UNCHANGED error
      /\ UNCHANGED <<requested, saved, work, stageVars, processVars, worldVars>>
  BY <1>1, FinishFacts DEF IInv, TypeOK, CommandType
<1>3. verdict # "failed" => quality[stage] \in {"good", "weak"}
  BY <1>1 DEF IInv, TypeOK, CommandType, JudgeKnown, Stages
<1>4. TypeOK'
  <2>1. faults' \in 0..MaxFaults
    BY PipelineAssumption DEF IInv, TypeOK, WorldType, WrongHead, FinishCheckout, FinishStage, Fault
  <2>2. ReportType'
    BY <1>2 DEF IInv, TypeOK, ReportType
  <2>3. CommandType' /\ WorldType'
    BY <1>2, <2>1 DEF IInv, TypeOK, CommandType, WorldType, stageVars, processVars, worldVars
  <2>4. QED
    BY <2>2, <2>3 DEF TypeOK
<1>5. StagesOK' /\ StatusOK' /\ ProcessOK' /\ RulesOK'
  BY <1>1, <1>2 DEF IInv, TypeOK, CommandType, StagesOK, StatusOK, ProcessOK, RulesOK, Busy,
    stageVars, processVars, worldVars
<1>6. RevisionOK'
  <2>1. CASE stage = 1 /\ verdict # "failed"
    BY <1>1, <1>2, <2>1 DEF IInv, RevisionOK, RevisionAsScanned, Matches, Busy, Checkout,
      GitCommands, worldVars
  <2>2. CASE stage = 1 /\ verdict = "failed"
    BY <1>1, <1>2, <2>2 DEF RevisionOK, RevisionAsScanned, Busy
  <2>3. CASE stage # 1
    <3>1. FinishStage /\ report' = [report EXCEPT !.stages[stage] = Verdict]
      BY <1>1, <2>3 DEF IInv, TypeOK, CommandType, Stages, FinishStage, Finish
    <3>2. report'.revision = report.revision
      BY <3>1 DEF IInv, TypeOK, ReportType, Report
    <3>3. QED
      BY <1>2, <2>3, <3>2 DEF IInv, RevisionOK, RevisionAsScanned, Busy, Stages, worldVars
  <2>4. QED
    BY <2>1, <2>2, <2>3
<1>7. ExitKnown' /\ JudgeKnown' /\ EarlierOK'
  BY <1>1, <1>2, <1>3 DEF IInv, ExitKnown, JudgeKnown, EarlierOK, EarlierStagesSaved, Busy,
    stageVars, worldVars
<1>8. QED
  BY <1>4, <1>5, <1>6, <1>7 DEF IInv

LEMMA StoreStep ==
  ASSUME IInv, Store
  PROVE  IInv'
<1>1. CASE stage < 4
  <2>1. /\ stage + 1 \in Stages /\ stage \in Stages /\ Enter(stage + 1, report)
        /\ saved' = report /\ UNCHANGED <<requested, work, processVars, worldVars, faults, error>>
        /\ at = "store" /\ report \in Report
    BY <1>1 DEF IInv, TypeOK, ReportType, CommandType, Stages, Store, Stored
  <2>2. PICK n \in Stages : n = stage + 1
    BY <2>1
  <2>3. /\ report' \in Report /\ report'.stages[n] = "running"
        /\ \A t \in Stages : t # n => report'.stages[t] = report.stages[t]
        /\ report'.status = report.status /\ report'.revision = report.revision
        /\ report'.digest = report.digest
        /\ stage' = n /\ command' = 1 /\ expired' = FALSE /\ at' = "launch"
    <3>1. Enter(n, report)
      BY <2>1, <2>2
    <3>2. QED
      BY <2>1, <3>1, EnterFacts
  <2>4. TypeOK'
    <3>1. ReportType'
      BY <2>1, <2>3 DEF IInv, TypeOK, ReportType
    <3>2. CommandType' /\ WorldType'
      BY <2>1, <2>3, FirstOnes DEF IInv, TypeOK, CommandType, WorldType, processVars, worldVars
    <3>3. QED
      BY <3>1, <3>2 DEF TypeOK
  <2>5. StagesOK' /\ StatusOK' /\ ProcessOK' /\ RulesOK'
    BY <2>1, <2>3 DEF IInv, StagesOK, StatusOK, ProcessOK, RulesOK, Busy, processVars, worldVars
  <2>6. RevisionOK'
    BY <2>1, <2>2, <2>3 DEF IInv, RevisionOK, RevisionAsScanned, Busy, Checkout, Stages, worldVars
  <2>7. ExitKnown' /\ JudgeKnown'
    BY <2>3 DEF ExitKnown, JudgeKnown
  <2>8. EarlierOK'
    BY <2>1, <2>2, <2>3 DEF IInv, EarlierOK, EarlierStagesSaved, Busy, Stages, worldVars
  <2>9. QED
    BY <2>4, <2>5, <2>6, <2>7, <2>8 DEF IInv
<1>2. CASE ~(stage < 4)
  <2>1. /\ saved' = report /\ at = "store" /\ at' = "cleanup"
        /\ UNCHANGED <<requested, work, stageVars, processVars, worldVars, faults>>
        /\ report' = [report EXCEPT !.status = Conclusion]
        /\ error' = (Conclusion = "incomplete") /\ report \in Report
    BY <1>2 DEF IInv, TypeOK, ReportType, Store, Stored
  <2>2. /\ report' \in Report /\ report'.status = Conclusion /\ report'.stages = report.stages
        /\ report'.revision = report.revision /\ report'.digest = report.digest
    BY <2>1, ConclusionType, StatusSet
  <2>3. error' \in BOOLEAN /\ (Conclusion # "completed" => error')
    BY <2>1, ConclusionType
  <2>4. TypeOK'
    <3>1. ReportType'
      BY <2>1, <2>2, <2>3 DEF IInv, TypeOK, ReportType
    <3>2. CommandType' /\ WorldType'
      BY <2>1 DEF IInv, TypeOK, CommandType, WorldType, stageVars, processVars, worldVars
    <3>3. QED
      BY <3>1, <3>2 DEF TypeOK
  <2>5. StagesOK' /\ ProcessOK' /\ RulesOK' /\ RevisionOK'
    BY <2>1, <2>2 DEF IInv, StagesOK, ProcessOK, RulesOK, RevisionOK, RevisionAsScanned, Busy,
      processVars, worldVars
  <2>6. StatusOK'
    BY <2>1, <2>2, <2>3, ConclusionType DEF IInv, StatusOK, Busy
  <2>7. ExitKnown' /\ JudgeKnown' /\ EarlierOK'
    BY <2>1 DEF ExitKnown, JudgeKnown, EarlierOK, EarlierStagesSaved, Busy
  <2>8. QED
    BY <2>4, <2>5, <2>6, <2>7 DEF IInv
<1>3. QED
  BY <1>1, <1>2

LEMMA LastSaveStep ==
  ASSUME IInv, LastSave
  PROVE  IInv'
<1>1. /\ report' \in Report
      /\ report'.status = IF report.status = "running" THEN "failed" ELSE report.status
      /\ report'.revision = report.revision /\ report'.digest = report.digest
      /\ \A s \in Stages :
           report'.stages[s] = IF report.stages[s] = "pending" THEN "skipped" ELSE report.stages[s]
  BY ClosedReport DEF IInv, TypeOK, ReportType, LastSave
<1>2. /\ at = "finish" /\ at' = "saved"
      /\ UNCHANGED <<requested, work, stageVars, processVars, worldVars>>
      /\ \/ saved' = report' /\ UNCHANGED <<error, faults>>
         \/ Fault /\ error' = TRUE /\ UNCHANGED saved
  BY DEF LastSave
<1>3. \A s \in Stages : report'.stages[s] \notin {"pending", "running"}
  BY <1>1, <1>2 DEF IInv, StagesOK, Busy
<1>4. TypeOK'
  <2>1. ReportType'
    BY <1>1, <1>2, <1>3 DEF IInv, TypeOK, ReportType
  <2>2. CommandType' /\ WorldType'
    BY <1>2, PipelineAssumption DEF IInv, TypeOK, CommandType, WorldType, Fault, stageVars,
      processVars, worldVars
  <2>3. QED
    BY <2>1, <2>2 DEF TypeOK
<1>5. StagesOK' /\ StatusOK'
  BY <1>1, <1>2, <1>3 DEF IInv, StagesOK, StatusOK, Busy
<1>6. ProcessOK' /\ RulesOK'
  BY <1>1, <1>2 DEF IInv, TypeOK, WorldType, ProcessOK, RulesOK, Fault, processVars, worldVars
<1>7. RevisionOK'
  BY <1>1, <1>2 DEF IInv, RevisionOK, RevisionAsScanned, Busy, Stages, worldVars
<1>8. ExitKnown' /\ JudgeKnown' /\ EarlierOK'
  BY <1>2 DEF ExitKnown, JudgeKnown, EarlierOK, EarlierStagesSaved, Busy
<1>9. QED
  BY <1>4, <1>5, <1>6, <1>7, <1>8 DEF IInv

LEMMA NextIInv == IInv /\ [Next]_vars => IInv'
<1> SUFFICES ASSUME IInv, [Next]_vars PROVE IInv'
  OBVIOUS
<1>1. CASE Refuse \/ NoDirectory \/ StoreFails \/ Cleanup \/ Leave \/ Crash \/ RulesEdited
  BY <1>1, QuietSteps
<1>2. CASE FirstSave
  BY <1>2, FirstSaveStep
<1>3. CASE Prepare
  BY <1>3, PrepareStep
<1>4. CASE Launch \/ LaunchFails \/ KillGroup \/ Reap \/ CommandExits \/ CommandForks
  BY <1>4, CommandSteps
<1>5. CASE NextCommand \/ TimerExpires \/ CallerCancels
  BY <1>5, ContextSteps
<1>6. CASE WrongHead \/ FinishCheckout \/ FinishStage
  BY <1>6, JudgeSteps
<1>7. CASE Store
  BY <1>7, StoreStep
<1>8. CASE LastSave
  BY <1>8, LastSaveStep
<1>9. CASE UNCHANGED vars
  <2>1. TypeOK'
    BY <1>9 DEF IInv, TypeOK, ReportType, CommandType, WorldType, vars, runVars, stageVars,
      processVars, worldVars
  <2>2. StagesOK' /\ StatusOK' /\ ProcessOK' /\ RulesOK' /\ RevisionOK'
    BY <1>9 DEF IInv, StagesOK, StatusOK, ProcessOK, RulesOK, RevisionOK, RevisionAsScanned,
      Matches, Busy, vars, runVars, stageVars, processVars, worldVars
  <2>3. ExitKnown' /\ JudgeKnown' /\ EarlierOK'
    BY <1>9 DEF IInv, ExitKnown, JudgeKnown, EarlierOK, EarlierStagesSaved, ContextDone, Verdict,
      Busy, vars, runVars, stageVars, processVars, worldVars
  <2>4. QED
    BY <2>1, <2>2, <2>3 DEF IInv
<1>10. QED
  BY <1>1, <1>2, <1>3, <1>4, <1>5, <1>6, <1>7, <1>8, <1>9 DEF Next, Proceed, World

\* The state after the steps of a scan, in the words of IInv (Run).
THEOREM ScanInvariant == Spec => []IInv
BY InitIInv, NextIInv, PTL DEF Spec

-----------------------------------------------------------------------------
(* What follows from it. *)

\* Every variable has its type, and a report that is over has no stage that is
\* pending or running (the deferred function of Run).
THEOREM TypesAreRight == Spec => []TypeOK
<1>1. IInv => TypeOK
  BY DEF IInv
<1>2. QED
  BY <1>1, ScanInvariant, PTL

\* No stage runs on the result of one that is missing, unreadable, late or of a
\* command that failed, whatever exit codes and result files there are
\* (finishStage, readResult).
THEOREM OnlyUsableResults == Spec => []NoStageOnBadResult
<1>1. IInv => NoStageOnBadResult
  BY DEF IInv, EarlierOK, NoStageOnBadResult, Busy
<1>2. QED
  BY <1>1, ScanInvariant, PTL

\* The stages before the current one are in run.json as they ended (Run).
THEOREM NothingLostInACrash == Spec => []EarlierStagesSaved
<1>1. IInv => EarlierStagesSaved
  BY DEF IInv, EarlierOK
<1>2. QED
  BY <1>1, ScanInvariant, PTL

\* No process is left in a command's group when none is being run, and no temporary
\* directory when Run has returned and could remove it (runCommand, Run).
THEOREM NothingStays == Spec => []NothingLeftBehind
<1>1. IInv => NothingLeftBehind
  BY DEF IInv, ProcessOK, NothingLeftBehind
<1>2. QED
  BY <1>1, ScanInvariant, PTL

\* The evaluator runs with the rules that are recorded, however often the
\* operator edits them (snapshotConfig), and the recorded revision is the commit
\* that was checked out, and the one that was asked for (checkout).
THEOREM RecordIsTrue == Spec => []ScannedAsRecorded
<1>1. IInv => ScannedAsRecorded
  BY DEF IInv, RulesOK, RevisionOK, RevisionAsScanned, ScannedAsRecorded
<1>2. QED
  BY <1>1, ScanInvariant, PTL

-----------------------------------------------------------------------------
(* Run implements Scan. *)

MappedOutcome ==
  IF at = "returned" THEN [status |-> report.status, error |-> error]
  ELSE [status |-> "running", error |-> FALSE]

LEMMA ReturnStep ==
  ASSUME IInv, Refuse \/ Leave
  PROVE  Promise!Return
<1>1. /\ at \in {"validate", "saved"} /\ at' = "returned"
      /\ UNCHANGED <<report, saved>>
  BY DEF Refuse, Leave, Abandon, runVars
<1>2. error' \in BOOLEAN /\ (at = "validate" => error' = TRUE) /\ (at = "saved" => error' = error)
  BY DEF IInv, TypeOK, ReportType, Refuse, Leave, Abandon, runVars
<1>3. report.status \in {"none", "completed", "incomplete", "failed"}
      /\ (report.status = "completed" \/ error' = TRUE)
  BY <1>1, <1>2 DEF IInv, StatusOK
<1>4. [status |-> report.status, error |-> error'] \in Promise!Outcomes
  <2>1. CASE error' = TRUE
    BY <1>3, <2>1 DEF Promise!Outcomes
  <2>2. CASE error' = FALSE
    BY <1>3, <2>2 DEF Promise!Outcomes, Promise!Outcome
  <2>3. QED
    BY <1>2, <2>1, <2>2
<1>5. saved.status \in Promise!Final => saved.status = report.status
  BY <1>1 DEF IInv, StatusOK, NotSaved, Promise!Final
<1>6. ~error' => saved.status = "completed"
  BY <1>1, <1>2, <1>3 DEF IInv, StatusOK
<1>7. QED
  BY <1>1, <1>4, <1>5, <1>6 DEF Promise!Return, Promise!Pending, Promise!Outcome

LEMMA ScanStep == IInv /\ [Next]_vars => [Promise!ScanNext]_<<MappedOutcome, saved.status>>
<1> SUFFICES ASSUME IInv, [Next]_vars
             PROVE  [Promise!ScanNext]_<<MappedOutcome, saved.status>>
  OBVIOUS
<1>1. CASE Refuse \/ Leave
  BY <1>1, ReturnStep DEF Promise!ScanNext
<1>2. CASE FirstSave
  <2>1. at = "validate" /\ at' # "returned" /\ saved.status = "none"
        /\ (saved'.status = "running" \/ UNCHANGED saved)
    BY <1>2, NewReportType DEF IInv, TypeOK, ReportType, StatusOK, NotSaved, FirstSave, Abandon
  <2>2. QED
    BY <2>1 DEF MappedOutcome, Promise!ScanNext, Promise!Begin, Promise!Pending, Promise!Outcome
<1>3. CASE LastSave
  <2>1. at = "finish" /\ at' # "returned" /\ saved.status \in {"none", "running"}
        /\ (saved' = Closed(report) \/ UNCHANGED saved)
    BY <1>3 DEF IInv, StatusOK, LastSave
  <2>2. Closed(report).status \in {"completed", "incomplete", "failed"}
    BY <2>1, ClosedReport DEF IInv, TypeOK, ReportType, StatusOK
  <2>3. QED
    BY <2>1, <2>2 DEF MappedOutcome, Promise!ScanNext, Promise!Conclude, Promise!Final,
      Promise!Pending, Promise!Outcome
<1>4. CASE Store
  <2>1. at = "store" /\ at' # "returned" /\ saved'.status = saved.status
    BY <1>4 DEF IInv, StatusOK, Store, Stored, Enter
  <2>2. QED
    BY <2>1 DEF MappedOutcome
<1>5. CASE NoDirectory \/ Prepare \/ StoreFails \/ Cleanup \/ NextCommand \/ WrongHead
           \/ FinishCheckout \/ FinishStage
  <2>1. at # "returned" /\ at' # "returned" /\ UNCHANGED saved
    BY <1>5 DEF NoDirectory, Prepare, StoreFails, Cleanup, NextCommand, WrongHead, FinishCheckout,
      FinishStage, Enter, Finish, Abandon, runVars
  <2>2. QED
    BY <2>1 DEF MappedOutcome
<1>6. CASE Launch \/ LaunchFails \/ KillGroup \/ Reap \/ World
  <2>1. at # "returned" /\ at' # "returned" /\ UNCHANGED saved
    BY <1>6 DEF Launch, LaunchFails, KillGroup, Reap, World, CommandExits, CommandForks,
      TimerExpires, CallerCancels, RulesEdited, Crash, Ended, runVars
  <2>2. QED
    BY <2>1 DEF MappedOutcome
<1>7. CASE UNCHANGED vars
  BY <1>7 DEF MappedOutcome, vars, runVars
<1>8. QED
  BY <1>1, <1>2, <1>3, <1>4, <1>5, <1>6, <1>7 DEF Next, Proceed

\* A scan keeps the promise of Scan: run.json and what the scan returns agree,
\* and what run.json says of a scan that is over does not change (Run).
THEOREM RunImplementsScan == Spec => ImplementsScan
<1>1. Init => Promise!ScanInit
  BY DEF Init, Promise!ScanInit, Promise!Pending, Promise!Outcome, NotSaved
<1>2. IInv /\ [Next]_vars => [Promise!ScanNext]_<<MappedOutcome, saved.status>>
  BY ScanStep
<1>3. QED
  BY <1>1, <1>2, ScanInvariant, PTL DEF Spec, ImplementsScan, Promise!ScanSpec, MappedOutcome

-----------------------------------------------------------------------------
(* The dependency trees.  readResult goes down each tree; a level at a time  *)
(* the same issues are found.                                                *)

\* How far a tree goes down: less for what it depends on.
Below(below) ==
  /\ below \in [Dependencies -> 0..Depth]
  /\ \A node \in Dependencies : \A d \in node.dependencies :
       d \in Dependencies /\ below[d] < below[node]

LEMMA TreesEnd == \E below : Below(below)
<1>1. PICK below \in [Dependencies -> 0..Depth] :
         \A node \in Dependencies : \A d \in node.dependencies : below[d] < below[node]
  BY PipelineAssumption
<1>2. \A node \in Dependencies : node.dependencies \subseteq Dependencies
  BY ResultsAssumption
<1>3. Below(below)
  BY <1>1, <1>2 DEF Below
<1>4. QED
  BY <1>3

\* appendDependencyIssues has a result: those of a node and of what it depends on.
LEMMA IssuesDefined ==
  /\ DOMAIN DependencyIssues = Dependencies
  /\ \A node \in Dependencies :
       DependencyIssues[node]
         = node.issues \cup UNION {DependencyIssues[d] : d \in node.dependencies}
<1> DEFINE S == [Dependencies -> SUBSET Severities]
           Body(f) == [node \in Dependencies |->
                         node.issues \cup UNION {f[d] : d \in node.dependencies}]
           base == [node \in Dependencies |-> {}]
           step == [i \in 1..(Depth + 1) |-> [f \in S |-> Body(f)]]
<1>1. PICK below : Below(below)
  BY TreesEnd
<1>2. Depth + 1 \in Nat /\ Depth \in Nat
  BY PipelineAssumption
<1>3. ASSUME NEW f \in S PROVE Body(f) \in S
  <2>1. ASSUME NEW node \in Dependencies
        PROVE  node.issues \cup UNION {f[d] : d \in node.dependencies} \in SUBSET Severities
    BY ResultsAssumption
  <2>2. QED
    BY <2>1
<1>4. base \in S
  OBVIOUS
<1>5. step \in [1..(Depth + 1) -> [S -> S]]
  <2> HIDE DEF S, Body
  <2>1. QED
    BY <1>3
<1>6. PICK g : IsLoop(g, Depth + 1, S, base, step)
  <2> HIDE DEF S, base, step
  <2>1. QED
    BY <1>2, <1>4, <1>5, LoopExists
<1>7. ASSUME NEW i \in 1..(Depth + 1) PROVE g[i] = Body(g[i - 1])
  <2>1. i - 1 \in 0..(Depth + 1)
    BY <1>2
  <2> HIDE DEF S, Body, step
  <2>2. g[i - 1] \in S /\ g[i] = step[i][g[i - 1]]
    BY <1>6, <2>1 DEF IsLoop
  <2>3. QED
    BY <2>2 DEF step
<1>8. ASSUME NEW i \in 1..(Depth + 1), NEW node \in Dependencies
      PROVE  g[i][node] = node.issues \cup UNION {g[i - 1][d] : d \in node.dependencies}
  BY <1>7
\* After i passes the trees that go down less than i are done.
<1> DEFINE Done(i) == \A node \in Dependencies :
             below[node] < i =>
               g[i][node] = node.issues \cup UNION {g[i][d] : d \in node.dependencies}
           T == {i \in 0..(Depth + 1) : Done(i)}
<1>9. 0 \in T
  <2>1. ASSUME NEW node \in Dependencies PROVE ~(below[node] < 0)
    <3>1. below[node] \in 0..Depth
      BY <1>1 DEF Below
    <3>2. QED
      BY <1>2, <3>1
  <2>2. 0 \in 0..(Depth + 1)
    BY <1>2
  <2>3. Done(0)
    BY <2>1
  <2>4. QED
    BY <2>2, <2>3
<1>10. ASSUME NEW i \in 1..(Depth + 1), i - 1 \in T PROVE i \in T
  <2>1. Done(i - 1) /\ (i - 1 # 0 => i - 1 \in 1..(Depth + 1)) /\ i - 1 \in 0..(Depth + 1)
    BY <1>2, <1>10
  <2>2. ASSUME NEW node \in Dependencies, below[node] < i - 1
        PROVE  g[i][node] = g[i - 1][node]
    <3>1. g[i][node] = node.issues \cup UNION {g[i - 1][d] : d \in node.dependencies}
      BY <1>8
    <3>2. g[i - 1][node] = node.issues \cup UNION {g[i - 1][d] : d \in node.dependencies}
      BY <2>1, <2>2
    <3>3. QED
      BY <3>1, <3>2
  <2>3. ASSUME NEW node \in Dependencies, below[node] < i
        PROVE  g[i][node] = node.issues \cup UNION {g[i][d] : d \in node.dependencies}
    <3>1. ASSUME NEW d \in node.dependencies PROVE g[i][d] = g[i - 1][d]
      <4>1. d \in Dependencies /\ below[d] < below[node]
            /\ below[d] \in 0..Depth /\ below[node] \in 0..Depth
        BY <1>1 DEF Below
      <4>2. below[d] < i - 1
        BY <1>2, <2>3, <4>1
      <4>3. QED
        BY <2>2, <4>1, <4>2
    <3>2. {g[i][d] : d \in node.dependencies} = {g[i - 1][d] : d \in node.dependencies}
      BY <3>1
    <3>3. QED
      BY <1>8, <3>2
  <2>4. i \in 0..(Depth + 1)
    BY <1>2
  <2>5. QED
    BY <2>3, <2>4
<1>11. 0..(Depth + 1) \subseteq T
  <2> HIDE DEF T
  <2>1. QED
    BY <1>2, <1>9, <1>10, LoopInduction
<1> DEFINE f == g[Depth + 1]
<1>12. Depth + 1 \in 0..(Depth + 1)
  BY <1>2
<1>13. f = Body(f)
  <2>1. f \in S
    <3> HIDE DEF S, base, step
    <3>1. QED
      BY <1>6, <1>12 DEF IsLoop
  <2>2. ASSUME NEW node \in Dependencies
        PROVE  f[node] = node.issues \cup UNION {f[d] : d \in node.dependencies}
    <3>1. below[node] < Depth + 1
      <4>1. below[node] \in 0..Depth
        BY <1>1 DEF Below
      <4>2. QED
        BY <1>2, <4>1
    <3>2. Done(Depth + 1)
      BY <1>11, <1>12
    <3>3. QED
      BY <3>1, <3>2
  <2> HIDE DEF f
  <2>3. QED
    BY <2>1, <2>2
<1>14. DependencyIssues = Body(DependencyIssues)
  <2> DEFINE found == CHOOSE h : h = Body(h)
  <2>1. found = Body(found)
    <3> HIDE DEF Body, f
    <3>1. QED
      BY <1>13
  <2>2. DependencyIssues = found
    BY DEF DependencyIssues
  <2> HIDE DEF found, Body
  <2>3. QED
    BY <2>1, <2>2
<1>15. QED
  BY <1>14

LEMMA LevelsDefined ==
  ASSUME NEW file \in Artifacts
  PROVE  /\ \A n \in 0..Depth : Level[n][file] \subseteq Dependencies
         /\ Level[0][file] = file.dependencies
         /\ \A n \in 1..Depth : Level[n][file] = UNION {d.dependencies : d \in Level[n - 1][file]}
<1> DEFINE S == [Artifacts -> SUBSET Dependencies]
           base == [a \in Artifacts |-> a.dependencies]
           Deeper(f) == [a \in Artifacts |-> UNION {d.dependencies : d \in f[a]}]
           step == [i \in 1..Depth |-> [f \in S |-> Deeper(f)]]
           Body(h) == [n \in 0..Depth |-> [a \in Artifacts |->
                         IF n = 0 THEN a.dependencies
                         ELSE UNION {d.dependencies : d \in h[n - 1][a]}]]
<1>1. Depth \in Nat
  BY PipelineAssumption
<1>2. base \in S
  BY ResultsAssumption
<1>3. ASSUME NEW f \in S PROVE Deeper(f) \in S
  <2>1. ASSUME NEW a \in Artifacts PROVE UNION {d.dependencies : d \in f[a]} \subseteq Dependencies
    <3>1. f[a] \subseteq Dependencies
      OBVIOUS
    <3>2. QED
      BY <3>1, ResultsAssumption
  <2>2. QED
    BY <2>1
<1>4. step \in [1..Depth -> [S -> S]]
  <2> HIDE DEF S, Deeper
  <2>1. QED
    BY <1>3
<1>5. PICK g : IsLoop(g, Depth, S, base, step)
  <2> HIDE DEF S, base, step
  <2>1. QED
    BY <1>1, <1>2, <1>4, LoopExists
<1>6. g \in [0..Depth -> S] /\ g[0] = base
  BY <1>5 DEF IsLoop
<1>7. ASSUME NEW i \in 1..Depth PROVE g[i] = Deeper(g[i - 1])
  <2>1. i - 1 \in 0..Depth
    BY <1>1
  <2> HIDE DEF S, Deeper, step
  <2>2. g[i - 1] \in S /\ g[i] = step[i][g[i - 1]]
    BY <1>5, <2>1 DEF IsLoop
  <2>3. QED
    BY <2>2 DEF step
<1>8. g = Body(g)
  <2>1. ASSUME NEW n \in 0..Depth
        PROVE  g[n] = [a \in Artifacts |-> IF n = 0 THEN a.dependencies
                                           ELSE UNION {d.dependencies : d \in g[n - 1][a]}]
    <3>1. CASE n = 0
      BY <1>6, <3>1
    <3>2. CASE n # 0
      <4>1. n \in 1..Depth
        BY <1>1, <3>2
      <4>2. QED
        BY <1>7, <3>2, <4>1
    <3>3. QED
      BY <3>1, <3>2
  <2> HIDE DEF S
  <2>2. QED
    BY <1>6, <2>1
<1>9. Level = Body(Level)
  <2> DEFINE found == CHOOSE h : h = Body(h)
  <2>1. found = Body(found)
    <3> HIDE DEF Body
    <3>1. QED
      BY <1>8
  <2>2. Level = found
    BY DEF Level
  <2> HIDE DEF found, Body
  <2>3. QED
    BY <2>1, <2>2
<1>10. ASSUME NEW n \in 0..Depth
       PROVE  Level[n][file] = IF n = 0 THEN file.dependencies
                               ELSE UNION {d.dependencies : d \in Level[n - 1][file]}
  <2> DEFINE L == Level
  <2>1. L = Body(L)
    BY <1>9
  <2> HIDE DEF L
  <2> DEFINE row == [a \in Artifacts |-> IF n = 0 THEN a.dependencies
                                          ELSE UNION {d.dependencies : d \in L[n - 1][a]}]
  <2>2. Body(L)[n] = row
    OBVIOUS
  <2>3. L[n] = row
    <3> HIDE DEF Body, row
    <3>1. QED
      BY <2>1, <2>2
  <2>4. row[file] = IF n = 0 THEN file.dependencies
                    ELSE UNION {d.dependencies : d \in L[n - 1][file]}
    OBVIOUS
  <2>5. L[n][file] = row[file]
    BY <2>3
  <2> HIDE DEF row
  <2>6. QED
    BY <2>4, <2>5 DEF L
<1> DEFINE T == {n \in 0..Depth : Level[n][file] \subseteq Dependencies}
<1>11. 0 \in T
  <2>1. 0 \in 0..Depth
    BY <1>1
  <2>2. Level[0][file] = file.dependencies
    BY <1>10, <2>1
  <2>3. file.dependencies \subseteq Dependencies
    BY ResultsAssumption
  <2>4. QED
    BY <2>1, <2>2, <2>3
<1>12. ASSUME NEW n \in 1..Depth, n - 1 \in T PROVE n \in T
  <2>1. n \in 0..Depth /\ n # 0
    BY <1>1
  <2>2. Level[n][file] = UNION {d.dependencies : d \in Level[n - 1][file]}
    BY <1>10, <2>1
  <2>3. Level[n][file] \subseteq Dependencies
    BY <1>12, <2>2, ResultsAssumption
  <2>4. QED
    BY <2>1, <2>3
<1>13. 0..Depth \subseteq T
  <2> HIDE DEF T
  <2>1. QED
    BY <1>1, <1>11, <1>12, LoopInduction
<1>14. (\A n \in 1..Depth : n \in 0..Depth /\ n # 0) /\ 0 \in 0..Depth
  BY <1>1
<1>15. QED
  BY <1>10, <1>13, <1>14


\* What a node says of a tree: a serious issue somewhere in it, or at the node.
Troubled(d) == DependencyIssues[d] \cap Serious # {}
HasOwn(d) == d.issues \cap Serious # {}

LEMMA TroubleComesUp ==
  ASSUME NEW node \in Dependencies
  PROVE  /\ HasOwn(node) => Troubled(node)
         /\ \A d \in node.dependencies : Troubled(d) => Troubled(node)
         /\ Troubled(node) => HasOwn(node) \/ \E d \in node.dependencies : Troubled(d)
<1>1. DependencyIssues[node]
        = node.issues \cup UNION {DependencyIssues[d] : d \in node.dependencies}
  BY IssuesDefined
<1>2. QED
  BY <1>1 DEF Troubled, HasOwn

\* A serious issue on any level is one of a tree that the file names.
LEMMA FoundFromRoots ==
  ASSUME NEW file \in Artifacts, NEW n \in 0..Depth, NEW d \in Level[n][file], HasOwn(d)
  PROVE  \E root \in file.dependencies : Troubled(root)
<1> DEFINE Named == \E root \in file.dependencies : Troubled(root)
           T == {m \in 0..Depth : (\E e \in Level[m][file] : Troubled(e)) => Named}
<1>1. Depth \in Nat /\ 0 \in 0..Depth
  BY PipelineAssumption
<1>2. 0 \in T
  BY <1>1, LevelsDefined
<1>3. ASSUME NEW m \in 1..Depth, m - 1 \in T PROVE m \in T
  <2>1. m \in 0..Depth /\ m - 1 \in 0..Depth
    BY <1>1
  <2>2. ASSUME NEW e \in Level[m][file], Troubled(e) PROVE Named
    <3>1. Level[m][file] = UNION {p.dependencies : p \in Level[m - 1][file]}
      BY LevelsDefined
    <3>2. PICK p \in Level[m - 1][file] : e \in p.dependencies
      BY <3>1
    <3>3. p \in Dependencies
      BY <2>1, LevelsDefined
    <3>4. Troubled(p)
      BY <2>2, <3>2, <3>3, TroubleComesUp
    <3>5. QED
      BY <1>3, <3>4
  <2>3. QED
    BY <2>1, <2>2
<1>4. 0..Depth \subseteq T
  <2> HIDE DEF T
  <2>1. QED
    BY <1>1, <1>2, <1>3, LoopInduction
<1>5. d \in Dependencies
  BY LevelsDefined
<1>6. Troubled(d)
  BY <1>5, TroubleComesUp
<1>7. QED
  BY <1>4, <1>6

\* A serious issue of a tree that the file names is on some level: one goes down
\* from a troubled node to a troubled node, as long as there are levels.
LEMMA FoundOnLevel ==
  ASSUME NEW file \in Artifacts, NEW root \in file.dependencies, Troubled(root)
  PROVE  \E n \in 0..Depth : \E d \in Level[n][file] : HasOwn(d)
<1>1. PICK below : Below(below)
  BY TreesEnd
<1> DEFINE Found == \E n \in 0..Depth : \E d \in Level[n][file] : HasOwn(d)
           Deep(n) == \E d \in Level[n][file] : Troubled(d) /\ below[d] + n <= Depth
           T == {n \in 0..Depth : Found \/ Deep(n)}
<1>2. Depth \in Nat /\ 0 \in 0..Depth /\ Depth \in 0..Depth
  BY PipelineAssumption
<1>3. 0 \in T
  <2>1. root \in Level[0][file] /\ root \in Dependencies
    BY <1>2, LevelsDefined
  <2>2. below[root] \in 0..Depth
    BY <1>1, <2>1 DEF Below
  <2>3. below[root] + 0 <= Depth
    BY <1>2, <2>2
  <2>4. QED
    BY <1>2, <2>1, <2>3
<1>4. ASSUME NEW n \in 0..Depth, NEW d \in Level[n][file], Troubled(d), below[d] + n <= Depth, ~Found
      PROVE  \E c \in d.dependencies : Troubled(c) /\ below[c] + n + 1 <= Depth
  <2>1. d \in Dependencies
    BY LevelsDefined
  <2>2. ~HasOwn(d)
    BY <1>4
  <2>3. PICK c \in d.dependencies : Troubled(c)
    BY <1>4, <2>1, <2>2, TroubleComesUp
  <2>4. below[c] < below[d] /\ below[d] \in 0..Depth /\ c \in Dependencies
    BY <1>1, <2>1 DEF Below
  <2>5. below[c] \in 0..Depth
    BY <1>1, <2>4 DEF Below
  <2>6. below[c] + n + 1 <= Depth
    BY <1>2, <1>4, <2>4, <2>5
  <2>7. QED
    BY <2>3, <2>6
<1>5. ASSUME NEW n \in 1..Depth, n - 1 \in T PROVE n \in T
  <2>1. n \in 0..Depth /\ n - 1 \in 0..Depth
    BY <1>2
  <2> SUFFICES ASSUME ~Found PROVE Deep(n)
    BY <2>1
  <2>2. PICK d \in Level[n - 1][file] : Troubled(d) /\ below[d] + (n - 1) <= Depth
    BY <1>5
  <2>3. PICK c \in d.dependencies : Troubled(c) /\ below[c] + (n - 1) + 1 <= Depth
    <3> HIDE DEF Found
    <3>1. QED
      BY <1>4, <2>1, <2>2
  <2>4. Level[n][file] = UNION {e.dependencies : e \in Level[n - 1][file]}
    BY LevelsDefined
  <2>5. c \in Level[n][file] /\ c \in Dependencies
    BY <2>1, <2>4, LevelsDefined
  <2>6. below[c] \in 0..Depth
    BY <1>1, <2>5 DEF Below
  <2>7. below[c] + n <= Depth
    BY <1>2, <2>3, <2>6
  <2>8. QED
    BY <2>3, <2>5, <2>7
<1>6. 0..Depth \subseteq T
  <2> HIDE DEF T
  <2>1. QED
    BY <1>2, <1>3, <1>5, LoopInduction
<1>7. ~Deep(Depth) \/ Found
  <2> SUFFICES ASSUME ~Found, NEW d \in Level[Depth][file], Troubled(d), below[d] + Depth <= Depth
               PROVE  FALSE
    OBVIOUS
  <2>1. PICK c \in d.dependencies : Troubled(c) /\ below[c] + Depth + 1 <= Depth
    <3> HIDE DEF Found
    <3>1. QED
      BY <1>2, <1>4
  <2>2. d \in Dependencies
    BY <1>2, LevelsDefined
  <2>3. c \in Dependencies
    BY <1>1, <2>2 DEF Below
  <2>4. below[c] \in 0..Depth
    BY <1>1, <2>3 DEF Below
  <2>5. QED
    BY <1>2, <2>1, <2>4
<1>8. Depth \in T
  BY <1>2, <1>6
<1>9. QED
  BY <1>7, <1>8

\* The issues readResult collects are those anywhere in the file.
LEMMA SeriousFound ==
  ASSUME NEW file \in Artifacts
  PROVE  HasIssue(file) <=> Issues(file) \cap Serious # {}
<1>1. Issues(file) \cap Serious # {}
        <=> file.issues \cap Serious # {} \/ \E root \in file.dependencies : Troubled(root)
  BY DEF Issues, IssuesOf, Troubled
<1>2. HasIssue(file)
        <=> file.issues \cap Serious # {} \/ \E n \in 0..Depth : \E d \in Level[n][file] : HasOwn(d)
  BY DEF HasIssue, HasOwn
<1>3. (\E n \in 0..Depth : \E d \in Level[n][file] : HasOwn(d))
        => \E root \in file.dependencies : Troubled(root)
  BY FoundFromRoots
<1>4. (\E root \in file.dependencies : Troubled(root))
        => \E n \in 0..Depth : \E d \in Level[n][file] : HasOwn(d)
  BY FoundOnLevel
<1>5. QED
  BY <1>1, <1>2, <1>3, <1>4

-----------------------------------------------------------------------------
(* The verdicts.  ScanInvariant says that a stage with a verdict is usable;  *)
(* now also which verdict says what of the commands.                         *)

\* A verdict says what the command of the stage did.
Tells(verdict, did) ==
  /\ verdict = "completed" <=> did = "good"
  /\ verdict = "incomplete" <=> did = "weak"

\* A command that has exited, and one that has been reaped.
ExitTells ==
  (at = "running" /\ process = "exited" /\ ~ContextDone) =>
    /\ stage = 1 /\ code = 0 => quality[stage] = "good"
    /\ stage > 1 => Tells(Verdict, quality[stage])

JudgeTells ==
  at = "judge" =>
    /\ stage = 1 /\ code = 0 => quality[stage] = "good"
    /\ stage > 1 /\ Verdict # "failed" => Tells(Verdict, quality[stage])

Settled(s) == report.stages[s] \in {"completed", "incomplete"} /\ Tells(report.stages[s], quality[s])

StagesTell ==
  /\ at \in Busy \cup {"store"} => \A s \in Stages : s < stage => Settled(s)
  /\ at = "store" => Settled(stage)

\* What a status says of the whole scan.
Says(status) ==
  /\ status = "completed" => \A s \in Stages : quality[s] = "good"
  /\ status = "incomplete" =>
       /\ \A s \in Stages : quality[s] \in {"good", "weak"}
       /\ \E s \in Stages : quality[s] = "weak"

VerdictInv ==
  ExitTells /\ JudgeTells /\ StagesTell /\ Says(report.status) /\ Says(saved.status)

\* Nothing is known of stages that have not begun.
NotBegun ==
  /\ at \in {"validate", "prepare"} => stage = 1
  /\ \A s \in Stages : s > stage => quality[s] = "none"
  /\ at = "launch" /\ stage > 1 => quality[stage] = "none"

\* A command that was too late is bad, and one that was not is as it is judged.
InTime ==
  /\ at = "running" /\ expired => quality[stage] = "bad"
  /\ at = "judge" /\ stage > 1 /\ quality[stage] = "good" /\ ~cancelled => Verdict = "completed"

Undisturbed == faults = 0 /\ ~cancelled /\ \A s \in Stages : quality[s] = "good"

\* An undisturbed scan ends well.
EndsWell ==
  /\ at \in {"cleanup", "finish"} /\ Undisturbed => report.status = "completed" /\ ~error
  /\ at \in {"saved", "returned"} /\ Undisturbed => saved.status = "completed" /\ ~error

WellInv == NotBegun /\ InTime /\ EndsWell


\* The verdict on a command that ended by itself says what it did.
LEMMA VerdictTells ==
  ASSUME NEW s \in Stages, s > 1, ~ContextDone,
         NEW exit, NEW file \in Artifacts \cup {NoArtifact}
  PROVE  Tells(IF exit \in {0, 2} THEN ReadResult(file, StageName[s], exit) ELSE "failed",
               Quality(s, exit, file))
<1>1. s \in {2, 3, 4}
  BY DEF Stages
<1>2. StageName[s] = "evaluate" <=> s = 4
  BY <1>1 DEF StageName
<1>3. CASE exit \notin {0, 2} \/ ~Usable(file) \/ (s = 4 /\ exit = 2 /\ ~file.violations)
  <2>1. Quality(s, exit, file) = "bad"
    BY <1>1, <1>3 DEF Quality
  <2>2. (IF exit \in {0, 2} THEN ReadResult(file, StageName[s], exit) ELSE "failed") = "failed"
    BY <1>2, <1>3 DEF ReadResult
  <2>3. QED
    BY <2>1, <2>2 DEF Tells
<1>4. CASE exit \in {0, 2} /\ Usable(file) /\ ~(s = 4 /\ exit = 2 /\ ~file.violations)
  <2>1. file \in Artifacts
    BY <1>4 DEF Usable
  <2>2. HasIssue(file) <=> Issues(file) \cap Serious # {}
    BY <2>1, SeriousFound
  <2>3. Quality(s, exit, file)
          = IF s # 4 /\ (exit = 2 \/ HasIssue(file)) THEN "weak" ELSE "good"
    BY <1>1, <1>4 DEF Quality
  <2>4. ReadResult(file, StageName[s], exit)
          = IF s # 4 /\ (exit = 2 \/ HasIssue(file)) THEN "incomplete" ELSE "completed"
    BY <1>2, <1>4, <2>2 DEF ReadResult
  <2>5. QED
    BY <1>4, <2>3, <2>4 DEF Tells
<1>5. QED
  BY <1>3, <1>4

LEMMA VerdictInit == Init => VerdictInv
BY DEF Init, NewReport, NotSaved, VerdictInv, ExitTells, JudgeTells, StagesTell, Says, Busy

\* Steps outside the stages leave what the verdicts are about alone.
LEMMA VerdictQuiet ==
  ASSUME IInv, VerdictInv,
         \/ Refuse \/ FirstSave \/ NoDirectory \/ StoreFails \/ Cleanup \/ LastSave
         \/ Leave \/ Crash \/ UNCHANGED vars \/ RulesEdited
  PROVE  VerdictInv'
<1>1. CASE RulesEdited \/ UNCHANGED vars
  BY <1>1 DEF VerdictInv, ExitTells, JudgeTells, StagesTell, Settled, Says, Verdict, ContextDone,
    RulesEdited, vars, runVars, stageVars, processVars, worldVars
<1>2. CASE FirstSave
  <2>1. report'.status = "running" /\ saved'.status \in {saved.status, "running"}
        /\ at' \notin Busy \cup {"store"}
    BY <1>2 DEF FirstSave, NewReport, Abandon, Busy
  <2>2. UNCHANGED quality
    BY <1>2 DEF FirstSave, worldVars
  <2>3. QED
    BY <2>1, <2>2 DEF VerdictInv, ExitTells, JudgeTells, StagesTell, Says, Busy
<1>3. CASE LastSave
  <2>1. report'.status = (IF report.status = "running" THEN "failed" ELSE report.status)
        /\ saved'.status \in {saved.status, report'.status} /\ at' = "saved"
    BY <1>3, ClosedReport DEF LastSave, IInv, TypeOK, ReportType
  <2>2. UNCHANGED quality
    BY <1>3 DEF LastSave, worldVars
  <2>3. QED
    BY <2>1, <2>2 DEF VerdictInv, ExitTells, JudgeTells, StagesTell, Says, Busy
<1>4. CASE Refuse \/ NoDirectory \/ StoreFails \/ Cleanup \/ Leave \/ Crash
  <2>1. at' \notin Busy \cup {"store"} /\ UNCHANGED <<report, saved, quality>>
    BY <1>4 DEF Refuse, NoDirectory, StoreFails, Cleanup, Leave, Crash, Abandon, Busy, runVars,
      worldVars
  <2>2. QED
    BY <2>1 DEF VerdictInv, ExitTells, JudgeTells, StagesTell, Says, Busy
<1>5. QED
  BY <1>1, <1>2, <1>3, <1>4

LEMMA VerdictPrepare ==
  ASSUME IInv, VerdictInv, Prepare
  PROVE  VerdictInv'
<1>1. at = "prepare" /\ UNCHANGED <<saved, quality>>
  BY DEF Prepare, worldVars
<1>2. /\ report'.status = report.status
      /\ (at' = "launch" /\ stage' = 1) \/ at' = "cleanup"
  BY DEF Prepare, Enter, Abandon, IInv, TypeOK, ReportType, Report
<1>3. QED
  BY <1>1, <1>2 DEF VerdictInv, ExitTells, JudgeTells, StagesTell, Says, Busy, Stages

LEMMA VerdictCommands ==
  ASSUME IInv, VerdictInv, Launch \/ LaunchFails \/ KillGroup \/ Reap \/ CommandExits \/ CommandForks
  PROVE  VerdictInv'
<1>1. at \in {"launch", "running"} /\ at' \in {"launch", "running", "judge"}
      /\ UNCHANGED <<report, saved, stage, expired, cancelled>>
  BY DEF Launch, LaunchFails, KillGroup, Reap, CommandExits, CommandForks, runVars, stageVars,
    worldVars
<1>2. \A s \in Stages : s # stage => quality'[s] = quality[s]
  BY DEF IInv, TypeOK, WorldType, Launch, LaunchFails, KillGroup, Reap, CommandExits,
    CommandForks, worldVars
<1>3. stage \in Stages
  BY DEF IInv, TypeOK, CommandType
<1>4. report.status = "running" /\ saved.status = "running"
  BY <1>1 DEF IInv, StatusOK, Busy
<1>5. Says(report.status)' /\ Says(saved.status)'
  BY <1>1, <1>4 DEF Says
<1>6. StagesTell'
  <2>1. ASSUME NEW s \in Stages, s < stage PROVE Settled(s)'
    <3>1. s # stage
      BY <1>3, <2>1 DEF Stages
    <3>2. Settled(s)
      BY <1>1, <2>1 DEF VerdictInv, StagesTell, Busy
    <3>3. QED
      BY <1>1, <1>2, <3>1, <3>2 DEF Settled
  <2>2. QED
    BY <1>1, <2>1 DEF StagesTell
<1>7. ExitTells'
  <2>1. CASE CommandExits
    <3>1. PICK exit \in Codes, file \in Artifacts \cup {NoArtifact} :
            /\ code' = exit /\ artifact' = file
            /\ quality' = [quality EXCEPT ![stage] = Quality(stage, exit, file)]
      BY <2>1 DEF CommandExits
    <3>2. quality'[stage] = Quality(stage, exit, file)
      BY <1>3, <3>1 DEF IInv, TypeOK, WorldType
    <3>3. SUFFICES ASSUME ~ContextDone
                   PROVE  /\ stage = 1 /\ exit = 0 => Quality(stage, exit, file) = "good"
                          /\ stage > 1 => Tells(Verdict', Quality(stage, exit, file))
      BY <1>1, <3>1, <3>2 DEF ExitTells, ContextDone
    <3>4. stage = 1 /\ exit = 0 => Quality(stage, exit, file) = "good"
      BY <3>3 DEF Quality
    <3>5. Verdict' = IF exit \in {0, 2} THEN ReadResult(file, StageName[stage], exit) ELSE "failed"
      BY <1>1, <3>1 DEF Verdict
    <3>6. stage > 1 => Tells(Verdict', Quality(stage, exit, file))
      BY <1>3, <3>3, <3>5, VerdictTells
    <3>7. QED
      BY <3>4, <3>6
  <2>2. CASE CommandForks
    BY <2>2 DEF VerdictInv, ExitTells, CommandForks, ContextDone, Verdict, stageVars, worldVars
  <2>3. CASE Launch \/ LaunchFails \/ KillGroup \/ Reap
    BY <2>3 DEF ExitTells, Launch, LaunchFails, KillGroup, Reap, ContextDone, stageVars, worldVars
  <2>4. QED
    BY <2>1, <2>2, <2>3
<1>8. JudgeTells'
  <2>1. CASE LaunchFails
    BY <2>1 DEF JudgeTells, LaunchFails, Verdict
  <2>2. CASE Reap
    <3>1. CASE ContextDone
      BY <2>2, <3>1 DEF JudgeTells, Reap, Returned, Verdict
    <3>2. CASE ~ContextDone
      <4>1. UNCHANGED <<stage, code, artifact, quality>> /\ at = "running" /\ process = "exited"
        BY <2>2, <3>2 DEF Reap, Returned, stageVars, worldVars
      <4>2. /\ stage = 1 /\ code = 0 => quality[stage] = "good"
            /\ stage > 1 => Tells(Verdict, quality[stage])
        BY <3>2, <4>1 DEF VerdictInv, ExitTells
      <4>3. Verdict' = Verdict
        BY <4>1 DEF Verdict
      <4>4. QED
        BY <4>1, <4>2, <4>3 DEF JudgeTells, Tells
    <3>3. QED
      BY <3>1, <3>2
  <2>3. CASE Launch \/ KillGroup \/ CommandExits \/ CommandForks
    BY <2>3 DEF JudgeTells, Launch, KillGroup, CommandExits, CommandForks
  <2>4. QED
    BY <2>1, <2>2, <2>3
<1>9. QED
  BY <1>5, <1>6, <1>7, <1>8 DEF VerdictInv

LEMMA VerdictContext ==
  ASSUME IInv, VerdictInv, NextCommand \/ TimerExpires \/ CallerCancels
  PROVE  VerdictInv'
<1>1. /\ UNCHANGED <<report, saved, stage, process, code, artifact>>
      /\ ContextDone => ContextDone'
  BY DEF NextCommand, TimerExpires, CallerCancels, ContextDone, runVars, stageVars, processVars,
    worldVars
<1>2. \A s \in Stages : s # stage => quality'[s] = quality[s]
  BY DEF IInv, TypeOK, WorldType, NextCommand, TimerExpires, CallerCancels, worldVars
<1>3. \/ at = "judge" /\ at' = "launch" /\ UNCHANGED quality
      \/ at' = at /\ UNCHANGED quality
      \/ at \in {"launch", "running"} /\ at' = at /\ ContextDone'
  BY DEF NextCommand, TimerExpires, CallerCancels, ContextDone, worldVars
<1>4. stage \in Stages
  BY DEF IInv, TypeOK, CommandType
<1>5. Says(report.status)' /\ Says(saved.status)'
  <2>1. at \in Busy => report.status = "running" /\ saved.status = "running"
    BY DEF IInv, StatusOK
  <2>2. QED
    BY <1>1, <1>3, <2>1 DEF VerdictInv, Says, Busy
<1>6. StagesTell'
  <2>1. ASSUME NEW s \in Stages, s < stage, at' \in Busy \cup {"store"} PROVE Settled(s)'
    <3>1. s # stage
      BY <1>4, <2>1 DEF Stages
    <3>2. Settled(s)
      BY <1>3, <2>1 DEF VerdictInv, StagesTell, Busy
    <3>3. QED
      BY <1>1, <1>2, <3>1, <3>2 DEF Settled
  <2>2. at' = "store" => Settled(stage)'
    BY <1>1, <1>3 DEF VerdictInv, StagesTell, Settled
  <2>3. QED
    BY <1>1, <2>1, <2>2 DEF StagesTell
<1>7. ExitTells'
  <2>1. Verdict' = Verdict
    BY <1>1 DEF Verdict
  <2>2. QED
    BY <1>1, <1>3, <2>1 DEF VerdictInv, ExitTells, Tells
<1>8. JudgeTells'
  <2>1. Verdict' = Verdict
    BY <1>1 DEF Verdict
  <2>2. QED
    BY <1>1, <1>3, <2>1 DEF VerdictInv, JudgeTells, Tells
<1>9. QED
  BY <1>5, <1>6, <1>7, <1>8 DEF VerdictInv

\* A checkout is completed or failed.
LEMMA CheckoutVerdict ==
  ASSUME WrongHead \/ FinishCheckout, report \in Report, stage \in Stages
  PROVE  report'.stages[stage] # "incomplete"
<1>1. \E verdict \in {"completed", "failed"} :
        \/ report' = [report EXCEPT !.stages[stage] = verdict]
        \/ \E v : report' = [report EXCEPT !.revision = v, !.stages[stage] = verdict]
  BY DEF WrongHead, FinishCheckout, Finish
<1>2. QED
  BY <1>1 DEF Report

LEMMA VerdictJudge ==
  ASSUME IInv, VerdictInv, WrongHead \/ FinishCheckout \/ FinishStage
  PROVE  VerdictInv'
<1>1. PICK r \in Report, verdict \in {"completed", "incomplete", "failed"} :
        /\ Finish(r, verdict)
        /\ r.status = report.status /\ r.stages = report.stages /\ r.digest = report.digest
        /\ at = "judge" /\ (stage > 1 => FinishStage /\ verdict = Verdict)
        /\ stage = 1 /\ verdict # "failed" =>
             code = 0 /\ command = GitCommands /\ r.revision = commit
  BY JudgeFacts DEF IInv
<1>2. /\ report'.stages[stage] = verdict
      /\ \A t \in Stages : t # stage => report'.stages[t] = report.stages[t]
      /\ report'.status = report.status
      /\ IF verdict = "failed" THEN at' = "cleanup" ELSE at' = "store"
      /\ UNCHANGED <<saved, stage, quality>>
  BY <1>1, FinishFacts DEF IInv, TypeOK, CommandType, stageVars, worldVars
<1>3. stage \in Stages
  BY DEF IInv, TypeOK, CommandType
<1>4. verdict # "failed" => Settled(stage)'
  <2>1. CASE stage = 1
    <3>1. verdict # "failed" => verdict = "completed" /\ quality[stage] = "good"
      <4>1. verdict # "incomplete"
        BY <1>2, <1>3, <2>1, CheckoutVerdict DEF IInv, TypeOK, ReportType, FinishStage
      <4>2. QED
        BY <1>1, <2>1, <4>1 DEF VerdictInv, JudgeTells
    <3>2. QED
      BY <1>2, <3>1 DEF Settled, Tells
  <2>2. CASE stage > 1
    BY <1>1, <1>2, <2>2 DEF VerdictInv, JudgeTells, Settled, Tells
  <2>3. QED
    BY <1>3, <2>1, <2>2 DEF Stages
<1>5. StagesTell'
  <2>1. ASSUME NEW s \in Stages, s < stage PROVE Settled(s)'
    <3>1. s # stage
      BY <1>3, <2>1 DEF Stages
    <3>2. Settled(s)
      BY <1>1, <2>1 DEF VerdictInv, StagesTell, Busy
    <3>3. QED
      BY <1>2, <3>1, <3>2 DEF Settled
  <2>2. QED
    BY <1>2, <1>4, <2>1 DEF StagesTell, Busy
<1>6. Says(report.status)' /\ Says(saved.status)'
  BY <1>2 DEF VerdictInv, Says
<1>7. ExitTells' /\ JudgeTells'
  BY <1>2 DEF ExitTells, JudgeTells
<1>8. QED
  BY <1>5, <1>6, <1>7 DEF VerdictInv

LEMMA VerdictStore ==
  ASSUME IInv, VerdictInv, Store
  PROVE  VerdictInv'
<1>1. /\ at = "store" /\ saved' = report /\ UNCHANGED quality
      /\ stage \in Stages /\ report \in Report /\ report.status = "running"
  BY DEF IInv, TypeOK, ReportType, CommandType, StatusOK, Store, Stored, worldVars
<1>2. \A s \in Stages : s < stage \/ s = stage => Settled(s)
  BY <1>1 DEF VerdictInv, StagesTell
<1>3. CASE stage < 4
  <2>1. PICK n \in Stages : n = stage + 1
    BY <1>1, <1>3 DEF Stages
  <2>2. Enter(n, report)
    BY <1>3, <2>1 DEF Store
  <2>3. /\ \A t \in Stages : t # n => report'.stages[t] = report.stages[t]
        /\ report'.status = report.status /\ stage' = n /\ at' = "launch"
    BY <1>1, <2>2, EnterFacts
  <2>4. ASSUME NEW s \in Stages, s < n PROVE Settled(s)'
    <3>1. (s < stage \/ s = stage) /\ s # n
      BY <1>1, <2>1, <2>4 DEF Stages
    <3>2. Settled(s)
      BY <1>2, <3>1
    <3>3. QED
      BY <1>1, <2>3, <3>1, <3>2 DEF Settled
  <2>5. StagesTell'
    BY <2>3, <2>4 DEF StagesTell
  <2>6. QED
    BY <1>1, <2>3, <2>5 DEF VerdictInv, ExitTells, JudgeTells, Says
<1>4. CASE ~(stage < 4)
  <2>1. /\ report' = [report EXCEPT !.status = Conclusion] /\ at' = "cleanup"
    BY <1>4 DEF Store
  <2>2. report'.status = Conclusion
    BY <1>1, <2>1, ConclusionType, StatusSet
  <2>3. \A s \in Stages : Settled(s)
    BY <1>1, <1>2, <1>4 DEF Stages
  <2>4. Says(Conclusion)
    BY <2>3 DEF Says, Conclusion, Settled, Tells
  <2>5. Says(report.status)'
    BY <1>1, <2>2, <2>4 DEF Says
  <2>6. QED
    BY <1>1, <2>1, <2>5 DEF VerdictInv, ExitTells, JudgeTells, StagesTell, Says, Busy
<1>5. QED
  BY <1>3, <1>4

LEMMA VerdictNext == IInv /\ VerdictInv /\ [Next]_vars => VerdictInv'
<1> SUFFICES ASSUME IInv, VerdictInv, [Next]_vars PROVE VerdictInv'
  OBVIOUS
<1>1. CASE \/ Refuse \/ FirstSave \/ NoDirectory \/ StoreFails \/ Cleanup \/ LastSave
           \/ Leave \/ Crash \/ UNCHANGED vars \/ RulesEdited
  BY <1>1, VerdictQuiet
<1>2. CASE Prepare
  BY <1>2, VerdictPrepare
<1>3. CASE Launch \/ LaunchFails \/ KillGroup \/ Reap \/ CommandExits \/ CommandForks
  BY <1>3, VerdictCommands
<1>4. CASE NextCommand \/ TimerExpires \/ CallerCancels
  BY <1>4, VerdictContext
<1>5. CASE WrongHead \/ FinishCheckout \/ FinishStage
  BY <1>5, VerdictJudge
<1>6. CASE Store
  BY <1>6, VerdictStore
<1>7. QED
  BY <1>1, <1>2, <1>3, <1>4, <1>5, <1>6 DEF Next, Proceed, World

\* run.json never says more than the commands did, whatever dependency trees the
\* result files hold, whenever the runner is killed and whichever system calls
\* fail (Run, readResult, appendDependencyIssues, finishStage).
THEOREM SavedVerdictIsTrue == Spec => []SavedVerdictTrue
<1>1. IInv /\ VerdictInv => SavedVerdictTrue
  BY DEF VerdictInv, Says, SavedVerdictTrue
<1>2. Init => VerdictInv
  BY VerdictInit
<1>3. IInv /\ VerdictInv /\ [Next]_vars => VerdictInv'
  BY VerdictNext
<1>4. QED
  BY <1>1, <1>2, <1>3, ScanInvariant, PTL DEF Spec

-----------------------------------------------------------------------------
(* A scan that nothing disturbed.  Here it matters which stages have not begun *)
(* and that a command that was too late is known to be bad.                    *)

LEMMA WellInit == Init => WellInv
<1> SUFFICES ASSUME Init PROVE WellInv
  OBVIOUS
<1>1. NotBegun /\ InTime
  BY DEF Init, NotBegun, InTime
<1>2. EndsWell
  BY DEF Init, EndsWell
<1>3. QED
  BY <1>1, <1>2 DEF WellInv

\* What disturbs a scan is not undone: the qualities of the stages change only
\* while a command runs.
LEMMA DisturbedStaysSo ==
  ASSUME IInv, [Next]_vars
  PROVE  /\ faults' = 0 => faults = 0
         /\ ~cancelled' => ~cancelled
         /\ at # "running" => UNCHANGED quality
<1>1. faults \in Nat
  BY PipelineAssumption DEF IInv, TypeOK, WorldType
<1>2. CASE \/ Refuse \/ FirstSave \/ Prepare \/ NoDirectory \/ Launch \/ LaunchFails
           \/ KillGroup \/ Reap \/ NextCommand
  BY <1>1, <1>2 DEF Refuse, FirstSave, Prepare, NoDirectory, Launch, LaunchFails, KillGroup, Reap,
    NextCommand, Fault, worldVars
<1>3. CASE WrongHead \/ FinishCheckout \/ FinishStage
  BY <1>1, <1>3 DEF WrongHead, FinishCheckout, FinishStage, Finish, Fault, worldVars
<1>4. CASE Store \/ StoreFails \/ Cleanup \/ LastSave \/ Leave
  BY <1>1, <1>4 DEF Store, StoreFails, Cleanup, LastSave, Leave, Fault, worldVars
<1>5. CASE TimerExpires
  <2>1. at # "running" => quality' = [quality EXCEPT ![stage] = quality[stage]]
    BY <1>5 DEF TimerExpires
  <2>2. QED
    BY <1>5, <2>1 DEF TimerExpires, IInv, TypeOK, WorldType, CommandType
<1>6. CASE CommandExits \/ CommandForks \/ CallerCancels \/ RulesEdited \/ Crash
  BY <1>6 DEF CommandExits, CommandForks, CallerCancels, RulesEdited, Crash, worldVars
<1>7. CASE UNCHANGED vars
  BY <1>7 DEF vars, worldVars
<1>8. QED
  BY <1>2, <1>3, <1>4, <1>5, <1>6, <1>7 DEF Next, Proceed, World

\* Only a command changes what is known of a stage, and only of its own.
LEMMA OwnStage ==
  ASSUME IInv, [Next]_vars
  PROVE  \A s \in Stages : s # stage => quality'[s] = quality[s]
<1>1. CASE at # "running"
  BY <1>1, DisturbedStaysSo
<1>2. CASE at = "running"
  <2>1. Launch \/ KillGroup \/ Reap \/ World \/ UNCHANGED vars
    BY <1>2 DEF Next, Proceed, Refuse, FirstSave, Prepare, NoDirectory, LaunchFails, NextCommand,
      WrongHead, FinishCheckout, FinishStage, Store, StoreFails, Cleanup, LastSave, Leave
  <2>2. QED
    BY <2>1 DEF IInv, TypeOK, WorldType, Launch, KillGroup, Reap, World, CommandExits,
      CommandForks, TimerExpires, CallerCancels, RulesEdited, Crash, vars, worldVars
<1>3. QED
  BY <1>1, <1>2

LEMMA NotBegunNext ==
  ASSUME IInv, NotBegun, [Next]_vars
  PROVE  NotBegun'
<1>1. \A s \in Stages : s # stage => quality'[s] = quality[s]
  BY OwnStage
<1>2. stage \in Stages
  BY DEF IInv, TypeOK, CommandType
<1>3. CASE Store /\ stage < 4
  <2>1. stage' = stage + 1 /\ at' = "launch" /\ at = "store"
    BY <1>3 DEF Store, Enter
  <2>2. UNCHANGED quality
    BY <1>3 DEF Store, worldVars
  <2>3. \A s \in Stages : s > stage => quality[s] = "none"
    BY DEF NotBegun
  <2>4. stage + 1 \in Stages /\ stage + 1 > stage
    BY <1>2, <1>3 DEF Stages
  <2>5. ASSUME NEW s \in Stages, s > stage + 1 PROVE quality[s] = "none"
    <3>1. s > stage
      BY <1>2, <2>5 DEF Stages
    <3>2. QED
      BY <2>3, <3>1
  <2>6. quality[stage + 1] = "none"
    BY <2>3, <2>4
  <2>7. QED
    BY <2>1, <2>2, <2>5, <2>6 DEF NotBegun
<1>4. CASE Prepare
  <2>1. ((stage' = 1 /\ at' = "launch") \/ (at' = "cleanup" /\ UNCHANGED stage))
        /\ at = "prepare" /\ UNCHANGED quality
    BY <1>4 DEF Prepare, Enter, Abandon, stageVars, worldVars
  <2>2. QED
    BY <2>1 DEF NotBegun
<1>5. CASE ~Prepare /\ ~(Store /\ stage < 4)
  <2>1. UNCHANGED stage
    <3>1. CASE \/ Refuse \/ FirstSave \/ NoDirectory \/ Launch \/ LaunchFails \/ KillGroup
               \/ Reap \/ NextCommand \/ StoreFails \/ Cleanup \/ LastSave \/ Leave
      BY <3>1 DEF Refuse, FirstSave, NoDirectory, Launch, LaunchFails, KillGroup, Reap,
        NextCommand, StoreFails, Cleanup, LastSave, Leave, stageVars
    <3>2. CASE WrongHead \/ FinishCheckout \/ FinishStage
      BY <3>2 DEF WrongHead, FinishCheckout, FinishStage, Finish, stageVars
    <3>3. CASE Store
      BY <1>5, <3>3 DEF Store, stageVars
    <3>4. CASE World \/ UNCHANGED vars
      BY <3>4 DEF World, CommandExits, CommandForks, TimerExpires, CallerCancels, RulesEdited,
        Crash, vars, stageVars
    <3>5. QED
      BY <1>5, <3>1, <3>2, <3>3, <3>4 DEF Next, Proceed
  <2>2. at' \in {"validate", "prepare"} => at \in {"validate", "prepare"}
    BY <1>5 DEF Next, Proceed, World, Refuse, FirstSave, NoDirectory, Launch, LaunchFails,
      KillGroup, Reap, NextCommand, StoreFails, Cleanup, LastSave, Leave, WrongHead,
      FinishCheckout, FinishStage, Finish, Abandon, Store, CommandExits, CommandForks,
      TimerExpires, CallerCancels, RulesEdited, Crash, Enter, vars
  <2>3. at' = "launch" /\ stage > 1 => at = "launch"
    BY <1>5 DEF Next, Proceed, World, Refuse, FirstSave, NoDirectory, Launch, LaunchFails,
      KillGroup, Reap, NextCommand, StoreFails, Cleanup, LastSave, Leave, WrongHead,
      FinishCheckout, FinishStage, Finish, Abandon, Store, CommandExits, CommandForks,
      TimerExpires, CallerCancels, RulesEdited, Crash, vars
  <2>4. at = "launch" => UNCHANGED quality
    BY DisturbedStaysSo
  <2>5. \A s \in Stages : s > stage => quality'[s] = "none"
    <3>1. \A s \in Stages : s > stage => s # stage
      BY <1>2 DEF Stages
    <3>2. QED
      BY <1>1, <3>1 DEF NotBegun
  <2>6. QED
    BY <2>1, <2>2, <2>3, <2>4, <2>5 DEF NotBegun
<1>6. QED
  BY <1>3, <1>4, <1>5

LEMMA InTimeNext ==
  ASSUME IInv, VerdictInv, NotBegun, InTime, [Next]_vars
  PROVE  InTime'
<1>1. stage \in Stages /\ quality \in [Stages -> {"none", "good", "weak", "bad"}]
  BY DEF IInv, TypeOK, CommandType, WorldType
<1>2. CASE Launch
  BY <1>2 DEF InTime, Launch, ContextDone, stageVars
<1>3. CASE LaunchFails
  <2>1. at = "launch" /\ at' = "judge" /\ UNCHANGED <<stage, quality>>
    BY <1>3 DEF LaunchFails, stageVars, worldVars
  <2>2. QED
    BY <2>1 DEF InTime, NotBegun
<1>4. CASE KillGroup
  <2>1. at' = "running" /\ quality'[stage] = "bad" /\ UNCHANGED stage
    BY <1>1, <1>4 DEF KillGroup, stageVars
  <2>2. QED
    BY <2>1 DEF InTime
<1>5. CASE Reap
  <2>1. at = "running" /\ process = "exited" /\ at' = "judge"
        /\ UNCHANGED <<stage, quality, artifact, cancelled>> /\ code' = Returned
    BY <1>5 DEF Reap, stageVars, worldVars
  <2>2. ASSUME stage > 1, quality[stage] = "good", ~cancelled PROVE Verdict' = "completed"
    <3>1. ~ContextDone
      BY <2>1, <2>2 DEF InTime, ContextDone
    <3>2. Verdict' = Verdict
      BY <2>1, <3>1 DEF Verdict, Returned
    <3>3. Tells(Verdict, quality[stage])
      BY <2>1, <2>2, <3>1 DEF VerdictInv, ExitTells
    <3>4. QED
      BY <2>2, <3>2, <3>3 DEF Tells
  <2>3. QED
    BY <2>1, <2>2 DEF InTime
<1>6. CASE CommandExits
  <2>1. PICK exit \in Codes, file \in Artifacts \cup {NoArtifact} :
          quality' = [quality EXCEPT ![stage] = Quality(stage, exit, file)]
    BY <1>6 DEF CommandExits
  <2>2. expired => quality'[stage] = "bad"
    BY <1>1, <2>1 DEF Quality, ContextDone
  <2>3. at' = "running" /\ UNCHANGED <<stage, expired>>
    BY <1>6 DEF CommandExits, stageVars
  <2>4. QED
    BY <2>2, <2>3 DEF InTime
<1>7. CASE TimerExpires
  <2>1. at' = at /\ at \in {"launch", "running"} /\ UNCHANGED stage
        /\ quality' = [quality EXCEPT ![stage] = IF at = "running" THEN "bad" ELSE quality[stage]]
    BY <1>7 DEF TimerExpires
  <2>2. at = "running" => quality'[stage] = "bad"
    BY <1>1, <2>1
  <2>3. QED
    BY <2>1, <2>2 DEF InTime
<1>8. CASE CommandForks \/ CallerCancels \/ RulesEdited \/ UNCHANGED vars
  BY <1>8 DEF InTime, Verdict, CommandForks, CallerCancels, RulesEdited, vars, stageVars,
    processVars, worldVars
<1>9. CASE \/ Refuse \/ FirstSave \/ Prepare \/ NoDirectory \/ NextCommand \/ WrongHead
           \/ FinishCheckout \/ FinishStage \/ Store \/ StoreFails \/ Cleanup \/ LastSave
           \/ Leave \/ Crash
  <2>1. at' \notin {"running", "judge"}
    BY <1>9 DEF Refuse, FirstSave, Prepare, NoDirectory, NextCommand, WrongHead, FinishCheckout,
      FinishStage, Finish, Store, Enter, StoreFails, Cleanup, LastSave, Leave, Crash, Abandon
  <2>2. QED
    BY <2>1 DEF InTime
<1>10. QED
  BY <1>2, <1>3, <1>4, <1>5, <1>6, <1>7, <1>8, <1>9 DEF Next, Proceed, World

\* The ways to the deferred calls: a system call failed, a stage failed, or the
\* last stage was stored.
LEMMA EndsWellNext ==
  ASSUME IInv, VerdictInv, NotBegun, InTime, EndsWell, [Next]_vars
  PROVE  EndsWell'
<1>1. stage \in Stages /\ faults \in Nat
  BY PipelineAssumption DEF IInv, TypeOK, CommandType, WorldType
<1>2. at # "running" /\ Undisturbed' => Undisturbed /\ UNCHANGED quality
  BY DisturbedStaysSo DEF Undisturbed
<1>3. CASE \/ Refuse \/ NoDirectory \/ StoreFails
  <2>1. at' # "returned" => faults' # 0
    BY <1>1, <1>3 DEF Refuse, NoDirectory, StoreFails, Fault, Abandon
  <2>2. at' = "returned" => at = "validate" /\ UNCHANGED quality
    BY <1>3 DEF Refuse, NoDirectory, StoreFails, Abandon, worldVars
  <2>3. at' = "returned" => ~Undisturbed'
    <3>1. at = "validate" => stage = 1
      BY DEF NotBegun
    <3>2. at = "validate" => quality[2] = "none" /\ 2 \in Stages
      BY <3>1 DEF NotBegun, Stages
    <3>3. QED
      BY <2>2, <3>2 DEF Undisturbed
  <2>4. QED
    BY <2>1, <2>3 DEF EndsWell, Undisturbed
<1>4. CASE FirstSave \/ Prepare
  <2>1. at' \in {"prepare", "launch"} \/ faults' # 0
    BY <1>1, <1>4 DEF FirstSave, Prepare, Enter, Fault
  <2>2. QED
    BY <2>1 DEF EndsWell, Undisturbed
<1>5. CASE WrongHead \/ FinishCheckout \/ FinishStage
  <2>1. PICK r \in Report, verdict \in {"completed", "incomplete", "failed"} :
          /\ Finish(r, verdict)
          /\ r.status = report.status /\ r.stages = report.stages /\ r.digest = report.digest
          /\ at = "judge" /\ (stage > 1 => FinishStage /\ verdict = Verdict)
          /\ stage = 1 /\ verdict # "failed" =>
               code = 0 /\ command = GitCommands /\ r.revision = commit
    BY <1>5, JudgeFacts DEF IInv
  <2>2. (IF verdict = "failed" THEN at' = "cleanup" ELSE at' = "store")
        /\ UNCHANGED <<quality, cancelled>>
    BY <2>1 DEF Finish, Abandon, worldVars
  <2>3. ASSUME verdict = "failed", Undisturbed' PROVE FALSE
    <3>1. CASE stage = 1
      <4>1. quality[2] = "none" /\ 2 \in Stages
        BY <3>1 DEF NotBegun, Stages
      <4>2. QED
        BY <2>2, <2>3, <4>1 DEF Undisturbed
    <3>2. CASE stage > 1
      BY <1>1, <2>1, <2>2, <2>3, <3>2 DEF InTime, Undisturbed
    <3>3. QED
      BY <1>1, <3>1, <3>2 DEF Stages
  <2>4. QED
    BY <2>2, <2>3 DEF EndsWell
<1>6. CASE Store
  <2>1. CASE stage < 4
    BY <1>6, <2>1 DEF Store, Enter, EndsWell
  <2>2. CASE ~(stage < 4)
    <3>1. at = "store" /\ at' = "cleanup" /\ error' = (Conclusion = "incomplete")
          /\ report' = [report EXCEPT !.status = Conclusion] /\ report \in Report
      BY <1>6, <2>2 DEF Store, IInv, TypeOK, ReportType
    <3>2. report'.status = Conclusion
      BY <3>1, ConclusionType, StatusSet
    <3>3. \A s \in Stages : Settled(s)
      <4>1. \A s \in Stages : s < stage \/ s = stage
        BY <1>1, <2>2 DEF Stages
      <4>2. QED
        BY <3>1, <4>1 DEF VerdictInv, StagesTell
    <3>4. Undisturbed' => Conclusion = "completed"
      BY <1>2, <3>1, <3>3 DEF Undisturbed, Conclusion, Settled, Tells
    <3>5. QED
      BY <3>1, <3>2, <3>4 DEF EndsWell
  <2>3. QED
    BY <2>1, <2>2
<1>7. CASE Cleanup
  <2>1. at = "cleanup" /\ at' = "finish" /\ UNCHANGED <<report, error>>
    BY <1>7 DEF Cleanup
  <2>2. QED
    BY <1>2, <2>1 DEF EndsWell
<1>8. CASE LastSave
  <2>1. at = "finish" /\ at' = "saved" /\ report \in Report
        /\ ((saved' = Closed(report) /\ UNCHANGED error) \/ faults' # 0)
    BY <1>1, <1>8 DEF LastSave, Fault, IInv, TypeOK, ReportType
  <2>2. Closed(report).status = IF report.status = "running" THEN "failed" ELSE report.status
    BY <2>1, ClosedReport
  <2>3. Undisturbed' => report.status = "completed" /\ ~error /\ faults' = 0
    BY <1>2, <2>1 DEF EndsWell, Undisturbed
  <2>4. QED
    BY <2>1, <2>2, <2>3 DEF EndsWell
<1>9. CASE Leave
  <2>1. at = "saved" /\ at' = "returned" /\ UNCHANGED <<saved, error>>
    BY <1>9 DEF Leave, runVars
  <2>2. QED
    BY <1>2, <2>1 DEF EndsWell
<1>10. CASE Launch \/ LaunchFails \/ KillGroup \/ Reap \/ NextCommand \/ CommandExits
            \/ CommandForks \/ TimerExpires \/ Crash
  <2>1. at' \in {"launch", "running", "judge", "crashed"}
    BY <1>10 DEF Launch, LaunchFails, KillGroup, Reap, NextCommand, CommandExits, CommandForks,
      TimerExpires, Crash
  <2>2. QED
    BY <2>1 DEF EndsWell
<1>11. CASE CallerCancels
  BY <1>11 DEF CallerCancels, EndsWell, Undisturbed
<1>12. CASE RulesEdited \/ UNCHANGED vars
  <2>1. UNCHANGED <<at, report, error, saved, quality, cancelled, faults>>
    BY <1>12 DEF RulesEdited, vars, runVars, worldVars
  <2>2. QED
    BY <2>1 DEF EndsWell, Undisturbed
<1>13. QED
  BY <1>3, <1>4, <1>5, <1>6, <1>7, <1>8, <1>9, <1>10, <1>11, <1>12 DEF Next, Proceed, World

\* A scan in which every command did all it should, in time, no system call
\* failed and nobody interfered is completed and returns no error, with rule
\* violations too (Run, readResult).
THEOREM WellIsCompleted == Spec => []AllWellIsCompleted
<1>1. Init => VerdictInv /\ WellInv
  BY VerdictInit, WellInit
<1>2. IInv /\ (VerdictInv /\ WellInv) /\ [Next]_vars => (VerdictInv /\ WellInv)'
  BY VerdictNext, NotBegunNext, InTimeNext, EndsWellNext DEF WellInv
<1>3. WellInv => AllWellIsCompleted
  BY DEF WellInv, EndsWell, Undisturbed, AllWellIsCompleted
<1>4. QED
  BY <1>1, <1>2, <1>3, ScanInvariant, PTL DEF Spec
=============================================================================
