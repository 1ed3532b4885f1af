--------------------------- MODULE JobController ---------------------------
(***************************************************************************)
(* The generic job engine (pkg/job_controller) driving one TFJob: the API  *)
(* server's copy of the job, its pods and its services; the controller     *)
(* manager's informer caches, which lag behind the API server; the         *)
(* creation expectations and the retry counter kept in memory; and one     *)
(* reconcile worker (a key is never reconciled by two workers at once)     *)
(* that interleaves with the kubelet, users, the informers and restarts of *)
(* the manager at every call it makes to the API server.                   *)
(*                                                                         *)
(* Abstractions.                                                           *)
(*  - A pod is a slot <<replica type, index>>, which determines its name;  *)
(*    the API server holds at most one object per name.                    *)
(*  - An exit code is "ok", "retry" (130, 137, 138, 143 or a retryable     *)
(*    failure reason such as Evicted), "perm" or "none" (still running).   *)
(*  - A resourceVersion is the Boolean snap.fresh: whether the copy of the *)
(*    job the worker holds is still the latest version.                    *)
(*  - Creation expectations count ADDs that are due.  ExpectCreations sets *)
(*    the count to 1 and CreationObserved lowers it, so all the code can   *)
(*    see is whether the count is above zero: a Boolean per key.           *)
(*  - Times are clock readings, 0 stands for an unset time.                *)
(*  - Cron, code sync, cache, gang, elastic scaling, AIMaster, DAG, model  *)
(*    versions and TensorBoard are switched off (modules of their own).    *)
(***************************************************************************)
EXTENDS Integers, Sequences, FiniteSets, Functions, JobConditions

CONSTANTS
  RTypes,          \* the replica types of the job's spec
  Order,           \* those of GetReconcileOrders the job has
  Replicas,        \* initial number of replicas of each type
  MaxReplicas,     \* bound: most replicas a type can be scaled to
  RestartPolicy,   \* restart policy of each type
  AllWorkers,      \* success policy is AllWorkers (else the default)
  CleanPodPolicy,  \* "None", "Running" or "All"
  BackoffLimit,    \* Unset, or the run policy's backoffLimit
  ActiveDeadline,  \* Unset, or activeDeadlineSeconds
  TTL,             \* Unset, or ttlSecondsAfterFinished
  Sidecars,        \* pods outlive their main container
  Evictions,       \* nodes evict pods
  MaxRestarts,     \* bound: container restarts the kubelet makes in a pod
  MaxRetries,      \* bound: where the retry counter saturates
  MaxTime,         \* bound: last clock reading
  MaxLag,          \* bound: undelivered watch events per resource
  MaxFaults,       \* bound: API calls that fail for no visible reason
  MaxCrashes,      \* bound: restarts of the controller manager
  MaxEdits,        \* bound: edits of the job by users
  MaxKills,        \* bound: pods deleted by users
  MayDelete,       \* users may delete the job
  LongWaits        \* things that take minutes or hours happen: expectations
                   \* expire, informers resync

Unset == -1
Policies == {"Never", "OnFailure", "Always", "ExitCode"}

ASSUME JobAssumption ==
  /\ IsFiniteSet(RTypes) /\ RTypes # {}
  /\ Order \in Seq(RTypes)
  /\ MaxReplicas \in Nat \ {0}
  /\ Replicas \in [RTypes -> 0..MaxReplicas]
  /\ RestartPolicy \in [RTypes -> Policies]
  /\ AllWorkers \in BOOLEAN /\ Sidecars \in BOOLEAN /\ MayDelete \in BOOLEAN
  /\ Evictions \in BOOLEAN
  /\ LongWaits \in BOOLEAN
  /\ CleanPodPolicy \in {"None", "Running", "All"}
  /\ BackoffLimit \in Nat \cup {Unset}
  /\ ActiveDeadline \in Nat \cup {Unset}
  /\ TTL \in Nat \cup {Unset}
  /\ MaxRestarts \in Nat /\ MaxRetries \in Nat
  /\ MaxTime \in Nat \ {0} /\ MaxLag \in Nat
  /\ MaxFaults \in Nat /\ MaxCrashes \in Nat /\ MaxEdits \in Nat
  /\ MaxKills \in Nat

(* The saturated retry counter answers retries + 1 > BackoffLimit exactly. *)
ASSUME RetriesAssumption == BackoffLimit <= MaxRetries

VARIABLES
  job,       \* API server: the job
  pods,      \* API server: the pod of every slot
  svcs,      \* API server: the slots whose service exists
  podCache,  \* informer: pods as last delivered
  svcCache,  \* informer: services as last delivered
  podWatch,  \* pod events not delivered yet
  svcWatch,  \* service events not delivered yet
  jobWatch,  \* the job changed and the event is not delivered yet
  podExp,    \* a pod creation of this type is still to be observed
  svcExp,    \* a service creation of this type is still to be observed
  queued,    \* the job's key is in the work queue
  timer,     \* a RequeueAfter is pending
  retries,   \* BackoffStatesQueue.NumRequeues
  pc,        \* where the reconcile worker is
  snap,      \* what the worker read when it started
  st,        \* the worker's jobStatus
  cursor,    \* the worker's loop variables
  todo,      \* pods the worker still has to delete
  now,       \* the clock
  budget     \* what is left of the bounds above

server   == <<job, pods, svcs>>
informer == <<podCache, svcCache, podWatch, svcWatch, jobWatch>>
memory   == <<podExp, svcExp, queued, timer, retries>>
worker   == <<pc, snap, st, cursor, todo>>
vars     == <<server, informer, memory, worker, now, budget>>

-----------------------------------------------------------------------------
(***************************************************************************)
(* Data.                                                                   *)
(***************************************************************************)
Slots == RTypes \X (0..MaxReplicas - 1)
Time  == 0..MaxTime

Pod == [phase : {"None", "Pending", "Running", "Succeeded", "Failed"},
        exit : {"none", "ok", "retry", "perm"},
        del : BOOLEAN, restarts : 0..MaxRestarts]

NoPod  == [phase |-> "None", exit |-> "none", del |-> FALSE, restarts |-> 0]
NewPod == [NoPod EXCEPT !.phase = "Pending"]

Exists(pod) == pod.phase # "None"

ReplicaStatus == [seen : BOOLEAN, active : Nat, succeeded : Nat, failed : Nat]
NoReplicaStatus == [seen |-> FALSE, active |-> 0, succeeded |-> 0, failed |-> 0]

Status == [conds : Conditions, start : Time, done : Time,
           replicas : [RTypes -> ReplicaStatus]]
NoStatus == [conds |-> NoConditions, start |-> 0, done |-> 0,
             replicas |-> [rt \in RTypes |-> NoReplicaStatus]]

(* replicas is the spec the loop works with, next the spec that the map of *)
(* replica specs holds for the types to come and for the status update.    *)
NoSnap == [pods |-> [p \in Slots |-> NoPod], svcs |-> {}, replicas |-> Replicas,
           next |-> Replicas, old |-> NoStatus, fresh |-> TRUE, exceeds |-> FALSE]

Start == [k |-> 1, i |-> 0, restart |-> FALSE, worker0 |-> FALSE,
          types |-> {}, slot |-> CHOOSE p \in Slots : TRUE, requeue |-> FALSE]

-----------------------------------------------------------------------------
(***************************************************************************)
(* Questions the code asks of its cached pods and of the status.           *)
(***************************************************************************)
IsPodActive(pod) == pod.phase \in {"Pending", "Running"} /\ ~pod.del

Count(P(_), ps) == Cardinality({p \in Slots : P(ps[p])})

FilterActivePods(ps) == Count(IsPodActive, ps)
FilterPodCount(ps, phase) == Count(LAMBDA pod : pod.phase = phase, ps)
GetTotalReplicas(reps) == SumFunction(reps)
GetTotalFailedReplicas(status) ==
  SumFunction([rt \in RTypes |-> status.replicas[rt].failed])

exceedsBackoffLimit ==
  /\ BackoffLimit # Unset
  /\ FilterPodCount(podCache, "Failed") > GetTotalFailedReplicas(job.st)
  /\ FilterActivePods(podCache) # GetTotalReplicas(job.replicas)
  /\ retries + 1 > BackoffLimit

pastBackoffLimit ==
  LET counted == {p \in Slots : /\ RestartPolicy[p[1]] \in {"OnFailure", "Always"}
                                /\ podCache[p].phase = "Running"}
      result  == SumFunctionOnSet([p \in Slots |-> podCache[p].restarts], counted)
  IN  /\ BackoffLimit # Unset
      /\ IF BackoffLimit = 0 THEN result > 0 ELSE result >= BackoffLimit

(* Mutant: one clock reading too late. *)
pastActiveDeadlineLate ==
  /\ ActiveDeadline # Unset
  /\ job.st.start # 0
  /\ now - job.st.start > ActiveDeadline

pastActiveDeadline ==
  /\ ActiveDeadline # Unset
  /\ job.st.start # 0
  /\ now - job.st.start >= ActiveDeadline

SatisfyExpectations ==
  (\A rt \in RTypes : ~podExp[rt]) \/ (\E rt \in RTypes : ~svcExp[rt])

(* Mutant: the exit code is not looked at. *)
ShouldPodFailOverAnyCode(rt, pod) == RestartPolicy[rt] = "ExitCode"

ShouldPodFailOver(rt, pod) == RestartPolicy[rt] = "ExitCode" /\ pod.exit = "retry"

-----------------------------------------------------------------------------
(***************************************************************************)
(* The API server.  A write to a pod or a service puts an event on its     *)
(* watch; a write to the job makes the copy the worker holds stale.        *)
(***************************************************************************)
PodRoom == Len(podWatch) < MaxLag
SvcRoom == Len(svcWatch) < MaxLag

WritePod(p, pod) ==
  /\ PodRoom
  /\ pods' = [pods EXCEPT ![p] = pod]
  /\ podWatch' = Append(podWatch, [slot |-> p, pod |-> pod])

Terminating(pod) == [pod EXCEPT !.del = TRUE]

Fault == budget.faults > 0 /\ budget' = [budget EXCEPT !.faults = @ - 1]
NoFault == UNCHANGED budget

(* PodControl.createPods and ServiceControl.createServices, when they succeed. *)
createPods(p) == ~Exists(pods[p]) /\ WritePod(p, NewPod)

createServices(p) ==
  /\ p \notin svcs /\ SvcRoom
  /\ svcs' = svcs \cup {p}
  /\ svcWatch' = Append(svcWatch, [slot |-> p, present |-> TRUE])

(***************************************************************************)
(* PodControl.DeletePod and ServiceControl.DeleteService read the object   *)
(* from the cache, then delete it by name at the API server.               *)
(***************************************************************************)
DeletePodOK(p) ==
  /\ Exists(podCache[p])
  /\ IF podCache[p].del \/ pods[p].del
     THEN (podCache[p].del \/ Exists(pods[p])) /\ UNCHANGED <<pods, podWatch>>
     ELSE Exists(pods[p]) /\ WritePod(p, Terminating(pods[p]))
  /\ NoFault

DeletePodFails(p) ==
  /\ UNCHANGED <<pods, podWatch>>
  /\ \/ ~Exists(podCache[p]) /\ NoFault
     \/ ~podCache[p].del /\ ~Exists(pods[p]) /\ NoFault
     \/ ~podCache[p].del /\ Fault

DeleteServiceOK(p) ==
  /\ p \in svcCache /\ p \in svcs /\ SvcRoom
  /\ svcs' = svcs \ {p}
  /\ svcWatch' = Append(svcWatch, [slot |-> p, present |-> FALSE])
  /\ NoFault

DeleteServiceFails(p) ==
  /\ UNCHANGED <<svcs, svcWatch>>
  /\ \/ (p \notin svcCache \/ p \notin svcs) /\ NoFault
     \/ Fault

-----------------------------------------------------------------------------
(***************************************************************************)
(* The reconcile worker: beginning and end.                                *)
(***************************************************************************)
WorkerIdle ==
  /\ pc' = "idle" /\ snap' = NoSnap /\ st' = NoStatus
  /\ cursor' = Start /\ todo' = {}

(* An error, or result.Requeue: the key goes back and the retry counts. *)
Retry ==
  /\ WorkerIdle
  /\ queued' = TRUE
  /\ retries' = IF retries < MaxRetries THEN retries + 1 ELSE retries
  /\ UNCHANGED timer

(* Mutant: the RequeueAfter of cleanupJob is lost. *)
DoneForgetsRequeue ==
  WorkerIdle /\ retries' = 0 /\ UNCHANGED <<queued, timer>>

(* No error: BackoffStatesQueue.Forget, unless a RequeueAfter is due. *)
Done ==
  /\ WorkerIdle
  /\ UNCHANGED queued
  /\ IF cursor.requeue
     THEN timer' = TRUE /\ retries' = IF retries < MaxRetries THEN retries + 1 ELSE retries
     ELSE UNCHANGED timer /\ retries' = 0

Snapshot == [pods |-> podCache, svcs |-> svcCache, replicas |-> job.replicas,
             next |-> job.replicas, old |-> job.st, fresh |-> TRUE, exceeds |-> FALSE]

jobExceedsLimit == exceedsBackoffLimit \/ pastBackoffLimit \/ pastActiveDeadline

(* Mutant: only a failed job counts as finished. *)
TerminatedFailedOnly == IsFailed(job.st.conds) \/ jobExceedsLimit

Terminated == Finished(job.st.conds) \/ jobExceedsLimit

Dequeue == pc = "idle" /\ queued /\ queued' = FALSE

(* The job cannot be read, or its pods cannot be listed: only the second  *)
(* error happens where the retry counts.                                  *)
ReconcileReadFails ==
  /\ pc = "idle" /\ queued /\ Fault
  /\ \/ UNCHANGED retries
     \/ /\ job.exists /\ SatisfyExpectations
        /\ retries' = IF retries < MaxRetries THEN retries + 1 ELSE retries
  /\ UNCHANGED <<server, informer, podExp, svcExp, queued, timer, worker, now>>

(* The job is gone, or its expectations are not met: nothing to do. *)
ReconcileCancelled ==
  /\ Dequeue
  /\ ~job.exists \/ ~SatisfyExpectations
  /\ UNCHANGED <<server, informer, podExp, svcExp, timer, retries, worker, now, budget>>

(***************************************************************************)
(* The terminated branch of ReconcileJobs: delete pods and services, then  *)
(* the job itself when its TTL is over, then record the verdict.           *)
(***************************************************************************)
(* Mutant: policy Running deletes the pods that do not run. *)
podsToDeleteSwapped ==
  {p \in Slots : /\ Exists(podCache[p])
                 /\ CleanPodPolicy # "None"
                 /\ CleanPodPolicy = "Running" => podCache[p].phase # "Running"}

podsToDelete ==
  {p \in Slots : /\ Exists(podCache[p])
                 /\ CleanPodPolicy # "None"
                 /\ CleanPodPolicy = "Running" => podCache[p].phase = "Running"}

ReconcileTerminated ==
  /\ Dequeue
  /\ job.exists /\ SatisfyExpectations /\ Terminated
  /\ pc' = "clean"
  /\ snap' = [Snapshot EXCEPT !.exceeds = jobExceedsLimit]
  /\ st' = IF pastActiveDeadline /\ ~exceedsBackoffLimit /\ ~pastBackoffLimit
           THEN [job.st EXCEPT !.done = now] ELSE job.st
  /\ todo' = podsToDelete
  /\ UNCHANGED <<server, informer, podExp, svcExp, timer, retries, cursor, now, budget>>

CleanPod ==
  /\ pc = "clean"
  /\ \E p \in todo :
       \/ /\ DeletePodOK(p)
          /\ pc' = "cleanService" /\ cursor' = [cursor EXCEPT !.slot = p]
          /\ UNCHANGED <<snap, st, todo, queued, timer, retries>>
       \/ DeletePodFails(p) /\ Retry
  /\ UNCHANGED <<job, svcs, podCache, svcCache, svcWatch, jobWatch, podExp, svcExp, now>>

CleanService ==
  /\ pc = "cleanService"
  /\ \/ /\ DeleteServiceOK(cursor.slot)
        /\ pc' = "clean" /\ todo' = todo \ {cursor.slot}
        /\ UNCHANGED <<snap, st, cursor, queued, timer, retries>>
     \/ DeleteServiceFails(cursor.slot) /\ Retry
  /\ UNCHANGED <<job, pods, podCache, svcCache, podWatch, jobWatch, podExp, svcExp, now>>

(* cleanupJob: works on the status before the verdict is added to it. *)
cleanupJob ==
  /\ pc = "clean" /\ todo = {}
  /\ \/ /\ TTL = Unset
        /\ pc' = "verdict"
        /\ UNCHANGED <<job, jobWatch, queued, timer, retries, snap, st, cursor, todo, budget>>
     \/ /\ TTL # Unset /\ st.done = 0
        /\ Retry
        /\ UNCHANGED <<job, jobWatch, budget>>
     \/ /\ TTL # Unset /\ st.done # 0 /\ now > st.done + TTL
        /\ \/ /\ job.exists /\ NoFault
              /\ job' = [job EXCEPT !.exists = FALSE] /\ jobWatch' = TRUE
              /\ pc' = "verdict"
              /\ UNCHANGED <<queued, timer, retries, snap, st, cursor, todo>>
           \/ /\ (~job.exists /\ NoFault) \/ Fault
              /\ Retry
              /\ UNCHANGED <<job, jobWatch>>
     \/ /\ TTL # Unset /\ st.done # 0 /\ now <= st.done + TTL
        /\ pc' = "verdict" /\ cursor' = [cursor EXCEPT !.requeue = TRUE]
        /\ UNCHANGED <<job, jobWatch, queued, timer, retries, snap, st, todo, budget>>
  /\ UNCHANGED <<pods, svcs, podCache, svcCache, podWatch, svcWatch, podExp, svcExp, now>>

(* A condition with the time of completion, if that is not set yet. *)
Complete(status, t) ==
  [status EXCEPT !.conds = setCondition(@, t), !.done = IF @ = 0 THEN now ELSE @]

(* Replicas still active when the job succeeded count as succeeded. *)
SettleReplicas(status) ==
  [status EXCEPT !.replicas =
     [rt \in RTypes |-> LET rs == status.replicas[rt]
                        IN  [rs EXCEPT !.succeeded = @ + rs.active, !.active = 0]]]

RecordVerdict ==
  /\ pc = "verdict"
  /\ LET failed == IF snap.exceeds THEN Complete(st, "Failed") ELSE st
     IN  st' = IF IsSucceeded(failed.conds) THEN SettleReplicas(failed) ELSE failed
  /\ pc' = "write"
  /\ UNCHANGED <<server, informer, memory, snap, cursor, todo, now, budget>>

(* UpdateJobStatusInApiServer, with the resourceVersion the worker holds. *)
WriteStatus ==
  /\ pc = "write"
  /\ \/ /\ st = snap.old
        /\ Done
        /\ UNCHANGED <<job, jobWatch, budget>>
     \/ /\ st # snap.old /\ job.exists /\ snap.fresh /\ NoFault
        /\ job' = [job EXCEPT !.st = st] /\ jobWatch' = TRUE
        /\ Done
     \/ /\ st # snap.old
        /\ ((~job.exists \/ ~snap.fresh) /\ NoFault) \/ Fault
        /\ Retry
        /\ UNCHANGED <<job, jobWatch>>
  /\ UNCHANGED <<pods, svcs, podCache, svcCache, podWatch, svcWatch, podExp, svcExp, now>>

-----------------------------------------------------------------------------
(***************************************************************************)
(* The other branch: pods and services of every replica type in turn, then *)
(* the status.                                                             *)
(***************************************************************************)
worker0Completed ==
  /\ "Worker" \in RTypes
  /\ podCache[<<"Worker", 0>>].phase = "Succeeded"
  /\ podCache[<<"Worker", 0>>].exit = "ok"

(***************************************************************************)
(* GetPodSlices and GetServiceSlices make a new slice for every index that *)
(* is out of range, just long enough for THAT index: what the list showed  *)
(* before with a higher index is cut off.  The order of the list is open,  *)
(* so all but the lowest index out of range may be lost.                   *)
(***************************************************************************)
Slices(entries, rt, n) ==
  LET beyond == {p \in entries : p[1] = rt /\ p[2] >= n}
      lowest == {p \in beyond : \A q \in beyond : p[2] <= q[2]}
  IN  {entries \ lost : lost \in SUBSET (beyond \ lowest)}

GetPodSlices(sn, rt) ==
  {[sn EXCEPT !.pods = [p \in Slots |-> IF p \in kept THEN sn.pods[p] ELSE NoPod]] :
     kept \in Slices({p \in Slots : Exists(sn.pods[p])}, rt, sn.replicas[rt])}

GetServiceSlices(sn, rt) ==
  {[sn EXCEPT !.svcs = kept] : kept \in Slices(sn.svcs, rt, sn.replicas[rt])}

(* The next replica type of Order, from status and what was read, or the   *)
(* status update.                                                          *)
EnterType(c, status, sn) ==
  IF c.k <= Len(Order)
  THEN /\ pc' = "pods" /\ cursor' = [c EXCEPT !.i = 0]
       /\ snap' \in GetPodSlices(sn, Order[c.k])
       /\ st' = [status EXCEPT !.replicas[Order[c.k]] = [NoReplicaStatus EXCEPT !.seen = TRUE]]
  ELSE /\ pc' = "status" /\ snap' = sn
       /\ cursor' = [c EXCEPT !.types = RTypes, !.worker0 = worker0Completed]
       /\ st' = [status EXCEPT !.start = IF @ = 0 THEN now ELSE @]

ReconcileReplicas ==
  /\ Dequeue
  /\ job.exists /\ SatisfyExpectations /\ ~Terminated
  /\ EnterType(Start, job.st, Snapshot)
  /\ UNCHANGED <<server, informer, podExp, svcExp, timer, retries, todo, now, budget>>

CurrentType == Order[cursor.k]
CurrentSlot == <<CurrentType, cursor.i>>
NextIndex == cursor' = [cursor EXCEPT !.i = @ + 1]

AtPod == pc = "pods" /\ cursor.i < MaxReplicas
MissingPod == AtPod /\ ~Exists(snap.pods[CurrentSlot])

SkipIndex ==
  /\ MissingPod /\ cursor.i >= snap.replicas[CurrentType]
  /\ NextIndex
  /\ UNCHANGED <<server, informer, memory, pc, snap, st, todo, now, budget>>

(* CreatePod: ExpectCreations first, then the call. *)
CreatePod ==
  /\ MissingPod /\ cursor.i < snap.replicas[CurrentType]
  /\ createPods(CurrentSlot) /\ NoFault
  /\ podExp' = [podExp EXCEPT ![CurrentType] = TRUE]
  /\ NextIndex
  /\ UNCHANGED <<job, svcs, podCache, svcCache, svcWatch, jobWatch, svcExp, queued, timer,
                 retries, pc, snap, st, todo, now>>

(* AlreadyExists: the expectation is taken back, and the services' too. *)
CreatePodAlreadyExists ==
  /\ MissingPod /\ cursor.i < snap.replicas[CurrentType]
  /\ Exists(pods[CurrentSlot])
  /\ podExp' = [podExp EXCEPT ![CurrentType] = FALSE]
  /\ svcExp' = [svcExp EXCEPT ![CurrentType] = FALSE]
  /\ Retry
  /\ UNCHANGED <<server, informer, now, budget>>

(* Any other error: the expectation stays. *)
CreatePodFails ==
  /\ MissingPod /\ cursor.i < snap.replicas[CurrentType] /\ Fault
  /\ podExp' = [podExp EXCEPT ![CurrentType] = TRUE]
  /\ Retry
  /\ UNCHANGED <<server, informer, svcExp, now>>

(* A timeout is no error: the pod may exist or not. *)
CreatePodTimesOut ==
  /\ MissingPod /\ cursor.i < snap.replicas[CurrentType] /\ Fault
  /\ \/ UNCHANGED <<pods, podWatch>>
     \/ createPods(CurrentSlot)
  /\ podExp' = [podExp EXCEPT ![CurrentType] = TRUE]
  /\ NextIndex
  /\ UNCHANGED <<job, svcs, podCache, svcCache, svcWatch, jobWatch, svcExp, queued, timer,
                 retries, pc, snap, st, todo, now>>

(* An index that is out of range: scaled in, an error is only collected. *)
ScaleInPod ==
  /\ AtPod /\ Exists(snap.pods[CurrentSlot]) /\ cursor.i >= snap.replicas[CurrentType]
  /\ DeletePodOK(CurrentSlot) \/ DeletePodFails(CurrentSlot)
  /\ NextIndex
  /\ UNCHANGED <<job, svcs, podCache, svcCache, svcWatch, jobWatch, memory, pc, snap, st, todo, now>>

(* Mutant: a pod that failed is taken off the active ones. *)
updateJobReplicaStatusesCountsDown(rs, pod, launched) ==
  CASE pod.phase = "Pending" /\ launched -> [rs EXCEPT !.active = @ + 1]
    [] pod.phase = "Running"             -> [rs EXCEPT !.active = @ + 1]
    [] pod.phase = "Succeeded"           -> [rs EXCEPT !.succeeded = @ + 1]
    [] pod.phase = "Failed"              -> [rs EXCEPT !.failed = @ + 1, !.active = @ - 1]
    [] OTHER                             -> rs

(***************************************************************************)
(* A pending pod counts as active once it has a node and its init          *)
(* containers have passed, which the model leaves open.                    *)
(***************************************************************************)
updateJobReplicaStatuses(rs, pod, launched) ==
  CASE pod.phase = "Pending" /\ launched -> [rs EXCEPT !.active = @ + 1]
    [] pod.phase = "Running"             -> [rs EXCEPT !.active = @ + 1]
    [] pod.phase = "Succeeded"           -> [rs EXCEPT !.succeeded = @ + 1]
    [] pod.phase = "Failed"              -> [rs EXCEPT !.failed = @ + 1]
    [] OTHER                             -> rs

reconcileOnePod ==
  /\ AtPod /\ Exists(snap.pods[CurrentSlot]) /\ cursor.i < snap.replicas[CurrentType]
  /\ LET pod == snap.pods[CurrentSlot]
         failOver == /\ pod.phase = "Failed" \/ pod.exit # "none"
                     /\ ShouldPodFailOver(CurrentType, pod)
     IN  /\ \E launched \in BOOLEAN :
              st' = [st EXCEPT !.replicas[CurrentType] =
                       updateJobReplicaStatuses(@, pod, launched)]
         /\ todo' = IF failOver THEN todo \cup {CurrentSlot} ELSE todo
         /\ cursor' = [cursor EXCEPT !.i = @ + 1, !.restart = @ \/ failOver]
  /\ UNCHANGED <<server, informer, memory, pc, snap, now, budget>>

(* Mutant: the pods found to fail over are forgotten. *)
ReconcilePodsEndForgets ==
  /\ pc = "pods" /\ cursor.i = MaxReplicas
  /\ snap' \in GetServiceSlices(snap, CurrentType)
  /\ pc' = "services" /\ todo' = {}
  /\ cursor' = [cursor EXCEPT !.i = 0]
  /\ UNCHANGED <<server, informer, memory, st, now, budget>>

ReconcilePodsEnd ==
  /\ pc = "pods" /\ cursor.i = MaxReplicas
  /\ snap' \in GetServiceSlices(snap, CurrentType)
  /\ pc' = IF todo = {} THEN "services" ELSE "failover"
  /\ cursor' = [cursor EXCEPT !.i = 0]
  /\ UNCHANGED <<server, informer, memory, st, todo, now, budget>>

(* RecreatePods: concurrent deletions whose errors are only logged. *)
RecreatePods ==
  /\ pc = "failover" /\ todo # {}
  /\ \E p \in todo : (DeletePodOK(p) \/ DeletePodFails(p)) /\ todo' = todo \ {p}
  /\ UNCHANGED <<job, svcs, podCache, svcCache, svcWatch, jobWatch, memory, pc, snap, st, cursor, now>>

(***************************************************************************)
(* DoFailOver then annotates the job: the server's answer to the patch is  *)
(* decoded into the worker's copy of the job, its resourceVersion, its     *)
(* spec and its status included.  jobStatus is a copy of that status by    *)
(* value and shares its ReplicaStatuses map (unless there was none yet):   *)
(* the counts made so far are overwritten with the ones on the server.     *)
(***************************************************************************)
ReplicaStatusesShared == \E rt \in RTypes : snap.old.replicas[rt].seen

DecodeReplicaStatuses(status) ==
  [status EXCEPT !.replicas =
     [rt \in RTypes |-> IF ReplicaStatusesShared /\ job.st.replicas[rt].seen
                        THEN job.st.replicas[rt] ELSE status.replicas[rt]]]

PatchFailoverTimestamp ==
  /\ pc = "failover" /\ todo = {}
  /\ \/ /\ job.exists /\ NoFault
        /\ jobWatch' = TRUE
        /\ snap' = [snap EXCEPT !.fresh = TRUE, !.next = job.replicas]
        /\ st' = DecodeReplicaStatuses(st)
     \/ ((~job.exists /\ NoFault) \/ Fault) /\ UNCHANGED <<jobWatch, snap, st>>
  /\ pc' = "services"
  /\ UNCHANGED <<server, podCache, svcCache, podWatch, svcWatch, memory, cursor, todo, now>>

AtService == pc = "services" /\ cursor.i < MaxReplicas

(* The slice is as long as the largest index that was kept, and every      *)
(* empty place below that gets a service, in range or not.                 *)
MissingService ==
  /\ CurrentSlot \notin snap.svcs
  /\ \/ cursor.i < snap.replicas[CurrentType]
     \/ \E j \in cursor.i..MaxReplicas - 1 : <<CurrentType, j>> \in snap.svcs

SkipService ==
  /\ AtService /\ ~MissingService
  /\ CurrentSlot \in snap.svcs => cursor.i < snap.replicas[CurrentType]
  /\ NextIndex
  /\ UNCHANGED <<server, informer, memory, pc, snap, st, todo, now, budget>>

CreateService ==
  /\ AtService /\ MissingService
  /\ svcExp' = [svcExp EXCEPT ![CurrentType] = TRUE]
  /\ \/ /\ createServices(CurrentSlot) /\ NoFault
        /\ NextIndex
        /\ UNCHANGED <<queued, timer, retries, pc, snap, st, todo>>
     \/ /\ (CurrentSlot \in svcs /\ NoFault) \/ Fault
        /\ Retry
        /\ UNCHANGED <<svcs, svcWatch>>
  /\ UNCHANGED <<job, pods, podCache, svcCache, podWatch, jobWatch, podExp, now>>

ScaleInService ==
  /\ AtService /\ CurrentSlot \in snap.svcs /\ cursor.i >= snap.replicas[CurrentType]
  /\ \/ /\ DeleteServiceOK(CurrentSlot) /\ NextIndex
        /\ UNCHANGED <<queued, timer, retries, pc, snap, st, todo>>
     \/ DeleteServiceFails(CurrentSlot) /\ Retry
  /\ UNCHANGED <<job, pods, podCache, svcCache, podWatch, jobWatch, podExp, svcExp, now>>

ReconcileServicesEnd ==
  /\ pc = "services" /\ cursor.i = MaxReplicas
  /\ EnterType([cursor EXCEPT !.k = @ + 1], st, [snap EXCEPT !.replicas = snap.next])
  /\ UNCHANGED <<server, informer, memory, todo, now, budget>>

(***************************************************************************)
(* updateGeneralJobStatus for one replica type.  The types come in the     *)
(* order of a Go map, which is any order.                                  *)
(***************************************************************************)
HasMaster == RTypes \cap {"Chief", "Master"} # {}

(* Mutant: a failed worker counts as one that has finished. *)
allWorkersSucceedOrFailed ==
  "Worker" \in RTypes =>
    st.replicas["Worker"].succeeded + st.replicas["Worker"].failed = snap.replicas["Worker"]

allWorkersSucceed ==
  "Worker" \in RTypes => st.replicas["Worker"].succeeded = snap.replicas["Worker"]

Mark(status, t) == [status EXCEPT !.conds = setCondition(@, t)]

updateRunningOrSucceeded(rt, status) ==
  LET rs      == status.replicas[rt]
      all     == snap.replicas[rt] = rs.succeeded
      running == IF rs.active > 0 THEN Mark(status, "Running") ELSE status
  IN  CASE rt \in {"Chief", "Master"} ->
             IF all /\ (AllWorkers => allWorkersSucceed)
             THEN Complete(running, "Succeeded") ELSE running
        [] rt = "Worker" /\ ~HasMaster ->
             IF all \/ (cursor.worker0 /\ ~AllWorkers)
             THEN Complete(status, "Succeeded") ELSE running
        [] OTHER -> status

updateRestartingOrFailed(rt, status) ==
  IF status.replicas[rt].failed = 0 THEN status
  ELSE IF cursor.restart THEN Mark(status, "Restarting")
  ELSE Complete(status, "Failed")

UpdateJobStatus ==
  /\ pc = "status"
  /\ \/ \E rt \in cursor.types :
          /\ st' = IF st.replicas[rt].seen
                   THEN updateRestartingOrFailed(rt, updateRunningOrSucceeded(rt, st))
                   ELSE st
          /\ cursor' = [cursor EXCEPT !.types = @ \ {rt}]
          /\ UNCHANGED pc
     \/ cursor.types = {} /\ pc' = "write" /\ UNCHANGED <<st, cursor>>
  /\ UNCHANGED <<server, informer, memory, snap, todo, now, budget>>

-----------------------------------------------------------------------------
(***************************************************************************)
(* The informers: one event at a time, in order, first into the cache,     *)
(* then to the predicate of the watch, which decides about the queue.      *)
(***************************************************************************)
OnPodCreateFunc(p, pod) ==
  IF job.exists /\ ~pod.del
  THEN podExp' = [podExp EXCEPT ![p[1]] = FALSE] /\ queued' = TRUE
  ELSE UNCHANGED <<podExp, queued>>

OnPodUpdateFunc == queued' = (queued \/ job.exists) /\ UNCHANGED podExp
OnPodDeleteFunc == queued' = (queued \/ job.exists) /\ UNCHANGED podExp

DeliverPod ==
  /\ podWatch # << >>
  /\ LET e == Head(podWatch)
     IN  /\ podCache' = [podCache EXCEPT ![e.slot] = e.pod]
         /\ IF ~Exists(podCache[e.slot]) THEN OnPodCreateFunc(e.slot, e.pod)
            ELSE IF Exists(e.pod) THEN OnPodUpdateFunc
            ELSE OnPodDeleteFunc
  /\ podWatch' = Tail(podWatch)
  /\ UNCHANGED <<server, svcCache, svcWatch, jobWatch, svcExp, timer, retries, worker, now, budget>>

OnServiceCreateFunc(p) ==
  IF job.exists
  THEN svcExp' = [svcExp EXCEPT ![p[1]] = FALSE] /\ queued' = TRUE
  ELSE UNCHANGED <<svcExp, queued>>

OnServiceDeleteFunc == queued' = (queued \/ job.exists) /\ UNCHANGED svcExp

DeliverService ==
  /\ svcWatch # << >>
  /\ LET e == Head(svcWatch)
     IN  IF e.present
         THEN svcCache' = svcCache \cup {e.slot} /\ OnServiceCreateFunc(e.slot)
         ELSE svcCache' = svcCache \ {e.slot} /\ OnServiceDeleteFunc
  /\ svcWatch' = Tail(svcWatch)
  /\ UNCHANGED <<server, podCache, podWatch, jobWatch, podExp, timer, retries, worker, now, budget>>

DeleteExpectations ==
  /\ podExp' = [rt \in RTypes |-> FALSE]
  /\ svcExp' = [rt \in RTypes |-> FALSE]

(* OnOwnerUpdateFunc lets every event through; OnOwnerDeleteFunc drops the *)
(* job's expectations.                                                     *)
DeliverJob ==
  /\ jobWatch /\ jobWatch' = FALSE
  /\ queued' = TRUE
  /\ IF job.exists THEN UNCHANGED <<podExp, svcExp>> ELSE DeleteExpectations
  /\ UNCHANGED <<server, podCache, svcCache, podWatch, svcWatch, timer, retries, worker, now, budget>>

(* Ten hours without an event: the informers replay the job. *)
Resync ==
  /\ LongWaits /\ job.exists /\ queued' = TRUE
  /\ UNCHANGED <<server, informer, podExp, svcExp, timer, retries, worker, now, budget>>

(* Five minutes after it was set an expectation counts as met. *)
ExpectationExpires ==
  /\ LongWaits
  /\ \E rt \in RTypes :
       \/ podExp[rt] /\ podExp' = [podExp EXCEPT ![rt] = FALSE] /\ UNCHANGED svcExp
       \/ svcExp[rt] /\ svcExp' = [svcExp EXCEPT ![rt] = FALSE] /\ UNCHANGED podExp
  /\ UNCHANGED <<server, informer, queued, timer, retries, worker, now, budget>>

TimerFires ==
  /\ timer /\ timer' = FALSE /\ queued' = TRUE
  /\ UNCHANGED <<server, informer, podExp, svcExp, retries, worker, now, budget>>

(* The manager restarts: its memory is lost, its caches are listed anew.   *)
Crash ==
  /\ budget.crashes > 0 /\ budget' = [budget EXCEPT !.crashes = @ - 1]
  /\ podCache' = pods /\ svcCache' = svcs
  /\ podWatch' = << >> /\ svcWatch' = << >> /\ jobWatch' = FALSE
  /\ podExp' = [rt \in RTypes |-> FALSE] /\ svcExp' = [rt \in RTypes |-> FALSE]
  /\ queued' = job.exists /\ timer' = FALSE /\ retries' = 0
  /\ WorkerIdle
  /\ UNCHANGED <<server, now>>

-----------------------------------------------------------------------------
(***************************************************************************)
(* Kubelet, node controller, garbage collector, users and the clock.       *)
(***************************************************************************)
rest == <<job, svcs, podCache, svcCache, svcWatch, jobWatch, memory, worker, now>>

PodStarts(p) ==
  /\ pods[p].phase = "Pending" /\ ~pods[p].del
  /\ WritePod(p, [pods[p] EXCEPT !.phase = "Running"])
  /\ UNCHANGED <<rest, budget>>

FinalPhase(exit) == IF exit = "ok" THEN "Succeeded" ELSE "Failed"

(* setRestartPolicy turns ExitCode into Never for the kubelet. *)
ContainerRestarts(rt, exit) ==
  RestartPolicy[rt] = "Always" \/ (RestartPolicy[rt] = "OnFailure" /\ exit # "ok")

MainContainerExits(p) ==
  /\ pods[p].phase = "Running" /\ pods[p].exit = "none"
  /\ \E exit \in {"ok", "retry", "perm"} :
       IF ContainerRestarts(p[1], exit)
       THEN /\ pods[p].restarts < MaxRestarts
            /\ WritePod(p, [pods[p] EXCEPT !.restarts = @ + 1])
       ELSE WritePod(p, [pods[p] EXCEPT !.exit = exit,
                                        !.phase = IF Sidecars THEN @ ELSE FinalPhase(exit)])
  /\ UNCHANGED <<rest, budget>>

SidecarExits(p) ==
  /\ pods[p].phase = "Running" /\ pods[p].exit # "none"
  /\ WritePod(p, [pods[p] EXCEPT !.phase = FinalPhase(pods[p].exit)])
  /\ UNCHANGED <<rest, budget>>

PodEvicted(p) ==
  /\ Evictions /\ pods[p].phase \in {"Pending", "Running"} /\ pods[p].exit = "none"
  /\ WritePod(p, [pods[p] EXCEPT !.phase = "Failed", !.exit = "retry"])
  /\ UNCHANGED <<rest, budget>>

PodGone(p) ==
  /\ pods[p].del \/ (Exists(pods[p]) /\ ~job.exists)
  /\ WritePod(p, NoPod)
  /\ UNCHANGED <<rest, budget>>

ServiceCollected(p) ==
  /\ ~job.exists /\ p \in svcs /\ SvcRoom
  /\ svcs' = svcs \ {p} /\ svcWatch' = Append(svcWatch, [slot |-> p, present |-> FALSE])
  /\ UNCHANGED <<job, pods, podCache, svcCache, podWatch, jobWatch, memory, worker, now, budget>>

UserDeletesPod(p) ==
  /\ budget.kills > 0 /\ budget' = [budget EXCEPT !.kills = @ - 1]
  /\ Exists(pods[p]) /\ ~pods[p].del
  /\ WritePod(p, Terminating(pods[p]))
  /\ UNCHANGED rest

(* An edit of the job: of its replicas, or (same replicas) of metadata. *)
UserEditsJob ==
  /\ budget.edits > 0 /\ budget' = [budget EXCEPT !.edits = @ - 1]
  /\ job.exists
  /\ \E rt \in RTypes, n \in 1..MaxReplicas : job' = [job EXCEPT !.replicas[rt] = n]
  /\ jobWatch' = TRUE /\ snap' = [snap EXCEPT !.fresh = (pc = "idle")]
  /\ UNCHANGED <<pods, svcs, podCache, svcCache, podWatch, svcWatch, memory, pc, st, cursor, todo, now>>

UserDeletesJob ==
  /\ MayDelete /\ job.exists
  /\ job' = [job EXCEPT !.exists = FALSE] /\ jobWatch' = TRUE
  /\ UNCHANGED <<pods, svcs, podCache, svcCache, podWatch, svcWatch, memory, worker, now, budget>>

Tick == now < MaxTime /\ now' = now + 1 /\ UNCHANGED <<server, informer, memory, worker, budget>>

-----------------------------------------------------------------------------
Init ==
  /\ job = [exists |-> TRUE, replicas |-> Replicas, st |-> NoStatus]
  /\ pods = [p \in Slots |-> NoPod] /\ svcs = {}
  /\ podCache = [p \in Slots |-> NoPod] /\ svcCache = {}
  /\ podWatch = << >> /\ svcWatch = << >> /\ jobWatch = FALSE
  /\ podExp = [rt \in RTypes |-> FALSE] /\ svcExp = [rt \in RTypes |-> FALSE]
  /\ queued = TRUE /\ timer = FALSE /\ retries = 0
  /\ pc = "idle" /\ snap = NoSnap /\ st = NoStatus /\ cursor = Start /\ todo = {}
  /\ now = 1
  /\ budget = [faults |-> MaxFaults, crashes |-> MaxCrashes, edits |-> MaxEdits,
               kills |-> MaxKills]

Sync ==
  \/ ReconcileReadFails \/ ReconcileCancelled
  \/ ReconcileTerminated \/ ReconcileReplicas
  \/ CleanPod \/ CleanService \/ cleanupJob \/ RecordVerdict \/ WriteStatus
  \/ SkipIndex \/ CreatePod \/ CreatePodAlreadyExists \/ CreatePodFails
  \/ CreatePodTimesOut \/ ScaleInPod \/ reconcileOnePod \/ ReconcilePodsEnd
  \/ RecreatePods \/ PatchFailoverTimestamp
  \/ SkipService \/ CreateService \/ ScaleInService \/ ReconcileServicesEnd
  \/ UpdateJobStatus

Deliver == DeliverPod \/ DeliverService \/ DeliverJob

Kubelet ==
  \E p \in Slots : \/ PodStarts(p) \/ MainContainerExits(p) \/ SidecarExits(p)
                   \/ PodEvicted(p) \/ PodGone(p) \/ ServiceCollected(p)

User == UserEditsJob \/ UserDeletesJob \/ \E p \in Slots : UserDeletesPod(p)

Next == Sync \/ Deliver \/ Resync \/ ExpectationExpires \/ TimerFires \/ Crash
        \/ Kubelet \/ User \/ Tick

Spec == Init /\ [][Next]_vars

(***************************************************************************)
(* Fairness.  The worker goroutine and the informers never stop while the  *)
(* manager runs; a node that can start a pod, or must remove a terminating *)
(* one, does so; timers fire and time passes.  Nothing says that a      *)
(* container exits, fails or is evicted, nor what users do.                *)
(***************************************************************************)
NodeServes(p) == PodStarts(p) \/ SidecarExits(p) \/ PodGone(p) \/ ServiceCollected(p)

Fairness ==
  /\ WF_vars(Sync)
  /\ WF_vars(DeliverPod) /\ WF_vars(DeliverService) /\ WF_vars(DeliverJob)
  /\ WF_vars(Resync) /\ WF_vars(ExpectationExpires) /\ WF_vars(TimerFires)
  /\ WF_vars(Tick)
  /\ \A p \in Slots : WF_vars(NodeServes(p))

FairSpec == Spec /\ Fairness

-----------------------------------------------------------------------------
(***************************************************************************)
(* Safety.                                                                 *)
(***************************************************************************)
JobType == [exists : BOOLEAN, replicas : [RTypes -> 0..MaxReplicas], st : Status]

SnapType == [pods : [Slots -> Pod], svcs : SUBSET Slots,
             replicas : [RTypes -> 0..MaxReplicas],
             next : [RTypes -> 0..MaxReplicas], old : Status,
             fresh : BOOLEAN, exceeds : BOOLEAN]

CursorType == [k : Nat \ {0}, i : 0..MaxReplicas, restart : BOOLEAN, worker0 : BOOLEAN,
               types : SUBSET RTypes, slot : Slots, requeue : BOOLEAN]

BudgetType == [faults : Nat, crashes : Nat, edits : Nat, kills : Nat]

Steps == {"idle", "clean", "cleanService", "verdict", "write",
          "pods", "failover", "services", "status"}

ServerOK == job \in JobType /\ pods \in [Slots -> Pod] /\ svcs \subseteq Slots

InformerOK ==
  /\ podCache \in [Slots -> Pod] /\ svcCache \subseteq Slots
  /\ podWatch \in Seq([slot : Slots, pod : Pod])
  /\ svcWatch \in Seq([slot : Slots, present : BOOLEAN])
  /\ jobWatch \in BOOLEAN

MemoryOK ==
  /\ podExp \in [RTypes -> BOOLEAN] /\ svcExp \in [RTypes -> BOOLEAN]
  /\ queued \in BOOLEAN /\ timer \in BOOLEAN /\ retries \in 0..MaxRetries

WorkerOK ==
  /\ pc \in Steps /\ snap \in SnapType /\ st \in Status
  /\ cursor \in CursorType /\ todo \subseteq Slots

(***************************************************************************)
(* Every variable holds what its declaration says: in particular replica   *)
(* counts are natural numbers and the worker's cursor names a replica.     *)
(***************************************************************************)
TypeOK ==
  /\ ServerOK /\ InformerOK /\ MemoryOK /\ WorkerOK
  /\ now \in Time \ {0} /\ budget \in BudgetType

Busy == pc # "idle"
Reconciling == pc \in {"pods", "failover", "services", "status"}

(***************************************************************************)
(* The verdict written to the API server is final: whatever the worker     *)
(* held when it was overtaken by edits, failed writes or restarts, no      *)
(* later UpdateJobStatusInApiServer takes a Succeeded or a Failed back,    *)
(* turns one into the other or touches another condition beside it.        *)
(***************************************************************************)
VerdictIsFinal ==
  [][Finished(job.st.conds) => job'.st.conds = job.st.conds]_vars

(***************************************************************************)
(* A finished job starts nothing: once a verdict is on the API server no   *)
(* pod of the job is created any more (ReconcileJobs leaves through its    *)
(* terminated branch), although the caches may still show replicas as      *)
(* missing.                                                                *)
(***************************************************************************)
NoPodAfterVerdict ==
  [][Finished(job.st.conds) =>
       \A p \in Slots : Exists(pods'[p]) => Exists(pods[p])]_vars

-----------------------------------------------------------------------------
(***************************************************************************)
(* Situations that must not last (their temporal properties are stated in  *)
(* MCJobProgress).                                                         *)
(***************************************************************************)
Over == Finished(job.st.conds) \/ ~job.exists

InRange == {p \in Slots : p[2] < job.replicas[p[1]]}

MissingReplica == ~Over /\ \E p \in InRange : ~Exists(pods[p])

FailedReplica(p, exit) ==
  ~Over /\ p \in InRange /\ pods[p].phase = "Failed" /\ pods[p].exit = exit

RunsAfterVerdict(p) == Finished(job.st.conds) /\ job.exists /\ pods[p].phase = "Running"

OutOfRange(p) == ~Over /\ Exists(pods[p]) /\ p \notin InRange

PastDeadline ==
  /\ ActiveDeadline # Unset /\ ~Over
  /\ job.st.start # 0 /\ now >= job.st.start + ActiveDeadline

(* The clock must get past the moment of deletion before it stops. *)
PastTTL ==
  /\ TTL # Unset /\ Finished(job.st.conds) /\ job.exists
  /\ job.st.done # 0 /\ job.st.done + TTL < MaxTime

(* All replicas run undisturbed; and the status says so. *)
Steady == /\ ~Over /\ \A p \in Slots : p \in InRange <=> Exists(pods[p])
          /\ \A p \in InRange : pods[p].phase = "Running" /\ ~pods[p].del
                                /\ pods[p].exit = "none"

SaysRunning ==
  /\ IsRunning(job.st.conds) /\ ~IsRestarting(job.st.conds)
  /\ \A rt \in RTypes : job.st.replicas[rt].active = job.replicas[rt]

(***************************************************************************)
(* A job that a sync finds over its backoff limit or its deadline is       *)
(* marked Failed (or is gone) in the end.                                  *)
(***************************************************************************)
LimitIsEnforced == (pc = "clean" /\ snap.exceeds) ~> Over
=============================================================================
