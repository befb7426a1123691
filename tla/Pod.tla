-------------------------------- MODULE Pod --------------------------------
(***************************************************************************)
(* What a worker Pod promises the controller about one repository: its     *)
(* index completes only after the result endpoint, when there is one,      *)
(* accepted the submission.  A Pod that failed promises nothing, not even  *)
(* that its submission was not accepted.  Module Cluster runs one such Pod *)
(* for every repository of a Job.                                          *)
(***************************************************************************)
CONSTANT ResultsConfigured   \* is ORT_RESULTS_URL set?

VARIABLES
  state,     \* waiting, posted (accepted while the Pod runs), completed or failed
  accepted   \* has the endpoint accepted a submission of this Pod?

PodInit == state = "waiting" /\ accepted = FALSE

Post ==
  /\ ResultsConfigured
  /\ state = "waiting" /\ state' = "posted"
  /\ accepted' = TRUE

\* A request of a Pod that has failed is accepted late.
PostLate ==
  /\ ResultsConfigured
  /\ state = "failed" /\ UNCHANGED state
  /\ accepted' = TRUE

Succeed ==
  /\ state = IF ResultsConfigured THEN "posted" ELSE "waiting"
  /\ state' = "completed"
  /\ UNCHANGED accepted

Fail ==
  /\ state \in {"waiting", "posted"} /\ state' = "failed"
  /\ UNCHANGED accepted

PodNext == Post \/ PostLate \/ Succeed \/ Fail

PodSpec == PodInit /\ [][PodNext]_<<state, accepted>>
=============================================================================
