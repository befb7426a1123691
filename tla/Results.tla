------------------------------- MODULE Results -------------------------------
(***************************************************************************)
(* readResult: what the result file of an ORT stage and the exit code of   *)
(* its command say of the stage.                                           *)
(***************************************************************************)
EXTENDS Integers

CONSTANTS
  Dependencies,  \* nodes of dependency trees: [issues, dependencies]
  Artifacts,     \* the result files ORT may leave
  NoArtifact     \* there is no result file

Severities == {"HINT", "WARNING", "ERROR"}

Serious == {"WARNING", "ERROR"}

ASSUME ResultsAssumption ==
  /\ \A node \in Dependencies :
       node.issues \subseteq Severities /\ node.dependencies \subseteq Dependencies
  /\ \A artifact \in Artifacts :
       /\ {artifact.decodes, artifact.section, artifact.version, artifact.violations}
            \subseteq BOOLEAN
       /\ artifact.issues \subseteq Severities
       /\ artifact.dependencies \subseteq Dependencies
  /\ NoArtifact \notin Artifacts

\* appendDependencyIssues: issues of a dependency and of all it depends on.
DependencyIssues[node \in Dependencies] ==
  node.issues \cup UNION {DependencyIssues[d] : d \in node.dependencies}

\* Mutant of IssuesOf: only the roots of the trees are looked at.
IssuesOfRoots(nodes) == UNION {d.issues : d \in nodes}

IssuesOf(nodes) == UNION {DependencyIssues[d] : d \in nodes}

Issues(artifact) == artifact.issues \cup IssuesOf(artifact.dependencies)

\* The file has what the stage is expected to write.
Usable(artifact) ==
  artifact # NoArtifact /\ artifact.decodes /\ artifact.section /\ artifact.version

\* Mutant of ReadResult: exit code 2 is a failure, as for other programs.
StrictReadResult(artifact, stage, code) ==
  IF Usable(artifact) /\ code = 0 THEN "completed" ELSE "failed"

\* A usable analysis or advice with problems is incomplete; rule violations
\* are what an evaluation is for.
ReadResult(artifact, stage, code) ==
  IF \/ ~Usable(artifact)
     \/ code \notin {0, 2}
     \/ stage = "evaluate" /\ code = 2 /\ ~artifact.violations
  THEN "failed"
  ELSE IF stage # "evaluate" /\ (code = 2 \/ Issues(artifact) \cap Serious # {})
  THEN "incomplete"
  ELSE "completed"
=============================================================================
