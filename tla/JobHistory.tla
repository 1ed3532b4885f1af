----------------------------- MODULE JobHistory -----------------------------
(***************************************************************************)
(* JobController with a memory of what happened to the job's pods at the   *)
(* API server, for the properties that relate a verdict or a failover to   *)
(* the pods it is about, which may be gone by the time it happens.         *)
(***************************************************************************)
EXTENDS JobController

VARIABLES
  won,       \* slots whose pod has ever succeeded
  lost,      \* slots whose pod has ever failed
  retryable  \* slots whose pod has ever ended with a retryable code

HVars == <<vars, won, lost, retryable>>

Having(phase) == {p \in Slots : pods'[p].phase = phase}

HInit == Init /\ won = {} /\ lost = {} /\ retryable = {}

HNext ==
  /\ Next
  /\ won' = won \cup Having("Succeeded")
  /\ lost' = lost \cup Having("Failed")
  /\ retryable' = retryable \cup {p \in Slots : pods'[p].exit = "retry"}

HSpec == HInit /\ [][HNext]_HVars

(***************************************************************************)
(* A verdict is earned, however old the caches were from which it was      *)
(* computed.  When Succeeded is written, the pods that decide have each    *)
(* really succeeded: those of the chief or of the master, else worker 0;   *)
(* under the AllWorkers policy every worker as well.  When Failed is       *)
(* written, and not for a limit, some pod of the job has really failed.    *)
(* This is about a job that nobody scales: DoFailOver may decode counts of *)
(* the server made for more replicas than the job has by then.             *)
(***************************************************************************)
Deciding ==
  LET InSpec(T) == {p \in Slots : p[1] \in T /\ p[2] < snap.replicas[p[1]]}
      workers   == IF AllWorkers THEN InSpec({"Worker"}) ELSE {}
  IN  IF HasMaster
      THEN {InSpec({m}) \cup workers : m \in RTypes \cap {"Chief", "Master"}}
      ELSE {(InSpec({"Worker"}) \cap {<<"Worker", 0>>}) \cup workers}

Earned ==
  ~Finished(job.st.conds) =>
    /\ IsSucceeded(job'.st.conds) => \E D \in Deciding : D \subseteq won
    /\ IsFailed(job'.st.conds) /\ ~snap.exceeds => lost # {}

VerdictIsEarned == [][Earned]_HVars

(***************************************************************************)
(* So is a failover.  While it reconciles replicas, the worker deletes by  *)
(* name, from a cache that may be old.  A pod it takes away has a slot of  *)
(* restart policy ExitCode whose pod really ended with a retryable code    *)
(* (DoFailOver), or an index out of range (reconcileOnePod); a permanent   *)
(* failure, or another slot's failure, never costs a pod.  The pod that is *)
(* hit need not be the one that failed: when somebody else removed that    *)
(* one and the engine has replaced it from an older copy of the cache, the *)
(* replacement is deleted.                                                 *)
(***************************************************************************)
DeletesEarned ==
  Reconciling /\ worker' # worker =>
    \A p \in Slots : pods'[p].del /\ ~pods[p].del =>
      \/ p \in retryable /\ RestartPolicy[p[1]] = "ExitCode"
      \/ p[2] >= snap.replicas[p[1]]

FailOverIsEarned == [][DeletesEarned]_HVars
=============================================================================
