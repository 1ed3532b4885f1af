----------------------------- MODULE MCJobUsers -----------------------------
(***************************************************************************)
(* The jobs of MCJobProgress, of which nothing is assumed here (no         *)
(* fairness), and one more: a job with a sidecar whose container restarts, *)
(* with limits on retries and on time, of which users delete a pod or the  *)
(* job itself.                                                             *)
(***************************************************************************)
EXTENDS MCJobProgress

Users == INSTANCE JobController WITH
  Replicas <- Each(1), RestartPolicy <- Each("OnFailure"), Sidecars <- FALSE, Evictions <- TRUE,
  LongWaits <- FALSE, BackoffLimit <- 1, ActiveDeadline <- 1, TTL <- -1,
  MaxRestarts <- 1, MaxRetries <- 1, MaxTime <- 2,
  MaxFaults <- 0, MaxCrashes <- 0, MaxEdits <- 0, MaxKills <- 1, MayDelete <- TRUE

ASSUME UsersAssumption == Users!JobAssumption /\ Users!RetriesAssumption

AnyInit == (scenario = "users" /\ Users!Init) \/ OneInit
AnyNext == (scenario = "users" /\ Users!Next /\ UNCHANGED scenario) \/ OneNext

AnySpec == AnyInit /\ [][AnyNext]_<<vars, scenario>>
=============================================================================
