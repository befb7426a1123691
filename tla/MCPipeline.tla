----------------------------- MODULE MCPipeline -----------------------------
(* Instance of Pipeline for TLC. *)
EXTENDS Pipeline

CONSTANTS h1, h2, r1, r2

MCCodes == {-1, 0, 1, 2}

Node(issues, dependencies) == [issues |-> issues, dependencies |-> dependencies]

\* A dependency without problems, one with a warning, and one that depends on a
\* dependency that depends on the latter.
Healthy == Node({"HINT"}, {})
Warned == Node({"WARNING"}, {})
Direct == Node({}, {Warned, Healthy})
Indirect == Node({}, {Direct})

MCDependencies == {Healthy, Warned, Direct, Indirect}

Complete ==
  [decodes |-> TRUE, section |-> TRUE, version |-> TRUE, issues |-> {"HINT"},
   dependencies |-> {Healthy}, violations |-> FALSE]

\* As in the table of result_test.go: complete, with rule violations, with an
\* error, with a warning three levels down, without a version, unreadable.
MCArtifacts ==
  { Complete,
    [Complete EXCEPT !.violations = TRUE],
    [Complete EXCEPT !.issues = {"ERROR"}],
    [Complete EXCEPT !.dependencies = {Healthy, Indirect}],
    [Complete EXCEPT !.version = FALSE],
    [Complete EXCEPT !.decodes = FALSE] }
=============================================================================
