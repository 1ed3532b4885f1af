--------------------------- MODULE MCJobProgress ---------------------------
(***************************************************************************)
(* Four small jobs under fairness, one at a time (scenario tells which):   *)
(* calls that fail, restarts of the manager and long waits (the constants  *)
(* are those of the configuration); limits on retries and on time; a time  *)
(* to live; a user who scales the job in.                                  *)
(***************************************************************************)
EXTENDS MCJobController

VARIABLE scenario

Each(x) == [rt \in RTypes |-> x]

Limits == INSTANCE JobController WITH
  Replicas <- Each(1), RestartPolicy <- Each("ExitCode"), Evictions <- TRUE, LongWaits <- TRUE,
  BackoffLimit <- 0, ActiveDeadline <- 1, TTL <- -1,
  MaxTime <- 2, MaxFaults <- 0, MaxCrashes <- 0, MaxEdits <- 0

Expiry == INSTANCE JobController WITH
  Replicas <- Each(1), RestartPolicy <- Each("ExitCode"), Evictions <- TRUE, LongWaits <- FALSE,
  BackoffLimit <- -1, ActiveDeadline <- -1, TTL <- 0,
  MaxTime <- 2, MaxFaults <- 0, MaxCrashes <- 0, MaxEdits <- 0

Scaling == INSTANCE JobController WITH
  Replicas <- Each(2), RestartPolicy <- Each("Always"), Evictions <- FALSE, LongWaits <- FALSE,
  MaxRestarts <- 0, MaxRetries <- 0,
  BackoffLimit <- -1, ActiveDeadline <- -1, TTL <- -1,
  MaxTime <- 1, MaxFaults <- 0, MaxCrashes <- 0, MaxEdits <- 1

One(faults, limits, expiry, scaling) ==
  \/ scenario = "faults" /\ faults
  \/ scenario = "limits" /\ limits
  \/ scenario = "expiry" /\ expiry
  \/ scenario = "scaling" /\ scaling

OneInit == One(Init, Limits!Init, Expiry!Init, Scaling!Init)

OneNext == UNCHANGED scenario /\ One(Next, Limits!Next, Expiry!Next, Scaling!Next)

(* The fairness of JobController, for the job at hand. *)
OneSpec ==
  /\ OneInit /\ [][OneNext]_<<vars, scenario>>
  /\ WF_vars(One(Sync, Limits!Sync, Expiry!Sync, Scaling!Sync))
  /\ WF_vars(One(DeliverPod, Limits!DeliverPod, Expiry!DeliverPod, Scaling!DeliverPod))
  /\ WF_vars(One(DeliverService, Limits!DeliverService, Expiry!DeliverService,
                 Scaling!DeliverService))
  /\ WF_vars(One(DeliverJob, Limits!DeliverJob, Expiry!DeliverJob, Scaling!DeliverJob))
  /\ WF_vars(One(Resync, Limits!Resync, Expiry!Resync, Scaling!Resync))
  /\ WF_vars(One(ExpectationExpires, Limits!ExpectationExpires,
                 Expiry!ExpectationExpires, Scaling!ExpectationExpires))
  /\ WF_vars(One(TimerFires, Limits!TimerFires, Expiry!TimerFires, Scaling!TimerFires))
  /\ WF_vars(One(Tick, Limits!Tick, Expiry!Tick, Scaling!Tick))
  /\ \A p \in Slots :
       WF_vars(One(NodeServes(p), Limits!NodeServes(p), Expiry!NodeServes(p),
                   Scaling!NodeServes(p)))

-----------------------------------------------------------------------------
(***************************************************************************)
(* Again and again every replica the spec asks for has a pod, until the    *)
(* job is over: no failed or timed-out create, no AlreadyExists, no lost   *)
(* expectation leaves the job short of a pod for ever; and a replica that  *)
(* failed with a retryable code is replaced, although RecreatePods only    *)
(* logs its errors and ReconcilePods drops them.                           *)
(***************************************************************************)
ReplicasAreProvided ==
  /\ []<>~MissingReplica
  /\ \A p \in Slots : []<>~(scenario # "scaling" /\ FailedReplica(p, "retry"))

(***************************************************************************)
(* What should end the job ends it.  A failure that is not retryable does  *)
(* (unless a user takes the pod away first), although one retryable        *)
(* failure elsewhere makes the status update of that sync say Restarting   *)
(* for all.  A job found over its backoff limit or its deadline is marked  *)
(* Failed, although its pods are cleaned up first, one call at a time; and *)
(* a job past activeDeadlineSeconds is found, although no timer is set for *)
(* it: the next event, or the resync of the informers, finds it.           *)
(***************************************************************************)
FailureEndsJob ==
  /\ \A p \in Slots : []<>~(scenario # "scaling" /\ FailedReplica(p, "perm"))
  /\ Limits!LimitIsEnforced
  /\ []<>~(scenario = "limits" /\ Limits!PastDeadline)

(***************************************************************************)
(* When all replicas run undisturbed, the status on the API server gets to *)
(* say so: Running, with every replica active.                             *)
(***************************************************************************)
StatusCatchesUp == <>[]Steady => <>[]SaysRunning

(***************************************************************************)
(* Pods that run, or start to run, after the verdict are stopped: the      *)
(* terminated branch is taken again for every late pod event.  And a pod   *)
(* whose index is out of range after an edit of the replicas goes, or      *)
(* comes back into range, or the job ends: reconcileOnePod deletes it      *)
(* although GetPodSlices is sized by what the cache shows.                 *)
(***************************************************************************)
SurplusPodsGo ==
  \A p \in Slots : []<>~RunsAfterVerdict(p) /\ []<>~OutOfRange(p)

(***************************************************************************)
(* A finished job is deleted when its time to live is over: the            *)
(* RequeueAfter of cleanupJob survives the status write and every sync     *)
(* that other events start in between.                                     *)
(***************************************************************************)
FinishedJobIsCollected == []<>~(scenario = "expiry" /\ Expiry!PastTTL)
=============================================================================
