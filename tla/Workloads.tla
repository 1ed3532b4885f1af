----------------------------- MODULE Workloads -----------------------------
(***************************************************************************)
(* What the workload controllers (controllers/<kind>) add to the generic   *)
(* engine: the defaults of a job, the order in which replica types are     *)
(* created and the DAG and AIMaster gates in front of them, the rank and   *)
(* world size a pod is told, and the rule that turns counts of pods into   *)
(* the job's conditions.  One job of one kind is synced over and over      *)
(* while the kubelet, users and the AIMaster act.                          *)
(*                                                                         *)
(* Abstractions.                                                           *)
(*  - Module JobController has the engine call by call; here a sync is one *)
(*    step on caches that are up to date.  What is left of its failures is *)
(*    that the status it computed may not be saved.                        *)
(*  - Phases Retry and Perm are Failed with an exit code or a reason that  *)
(*    is retryable, or is not.                                             *)
(*  - Services, ports, volumes and the other environment variables are     *)
(*    left out.  Backoff limit, deadline and TTL are not set.              *)
(*  - Replica types are spelled as the constants are (setTypeNames).       *)
(*  - TFJob is not among the kinds: it is the one JobController has.       *)
(***************************************************************************)
EXTENDS Integers, Sequences, FiniteSets, SequencesExt, TLC, JobConditions

CONSTANTS
  Jobs,        \* the jobs users submit, one of which is followed
  MaxReplicas, \* bound: most replicas of a type
  MaxFailures, \* bound: pods that fail
  MaxFaults    \* bound: pods deleted by users, changes of the number of workers
               \* and status updates that fail, together

Unset == -1
NoPolicy == ""
Policies == {"Never", "OnFailure", "Always", "ExitCode"}
CleanPolicies == {"None", "Running", "All"}

RTypes == {"AIMaster", "PS", "Master", "Scheduler", "Launcher", "WebService",
           "Worker", "ExtendRole"}

ReplicaSpec == [replicas : 0..MaxReplicas \cup {Unset}, policy : Policies \cup {NoPolicy}]

(* The jobs of each kind.  dag: the DAGScheduling feature gate, on by      *)
(* default; minFinish and minNum: XDL's minFinishWorkerPercentage and      *)
(* minFinishWorkerNum; clean: the cleanPodPolicy; legacy: the processing   *)
(* units of a v1alpha1 MPI job, in all and per node.                       *)
JobOf(kind, types) ==
  [kind : {kind}, specs : UNION {[D -> ReplicaSpec] : D \in SUBSET types}, dag : BOOLEAN,
   allWorkers : BOOLEAN, minFinish : 0..100 \cup {Unset}, minNum : Nat \cup {Unset},
   clean : CleanPolicies \cup {NoPolicy}, legacy : BOOLEAN, units : Nat, perNode : Nat]

PyTorchJob      == JobOf("PyTorch", {"AIMaster", "Master", "Worker"})
XGBoostJob      == JobOf("XGBoost", {"Master", "Worker"})
XDLJob          == JobOf("XDL", {"PS", "Scheduler", "Worker", "ExtendRole"})
MarsJob         == JobOf("Mars", {"Scheduler", "WebService", "Worker"})
MPIJob          == JobOf("MPI", {"Worker", "Launcher"})
ElasticDLJob    == JobOf("ElasticDL", {"Master"})
ElasticBatchJob == JobOf("ElasticBatch", {"AIMaster", "Worker"})

(* A second PyTorch master is refused when its pod is made.  Only MPI jobs *)
(* have a legacy spec, and by its units per node is divided.               *)
Job ==
  {j \in PyTorchJob \cup XGBoostJob \cup XDLJob \cup MarsJob \cup MPIJob \cup ElasticDLJob \cup ElasticBatchJob :
     /\ j.kind = "PyTorch" /\ "Master" \in DOMAIN j.specs => j.specs["Master"].replicas \in {1, Unset}
     /\ j.legacy => j.kind = "MPI" /\ j.perNode > 0}

ASSUME WorkloadsAssumption ==
  /\ MaxReplicas \in Nat \ {0} /\ MaxFailures \in Nat /\ MaxFaults \in Nat
  /\ Jobs \subseteq Job

VARIABLES
  job,      \* the job as submitted
  pods,     \* the pod of every slot
  ready,    \* the AIMaster has annotated the job with aimaster=ready
  status,   \* the job's status
  config,   \* workers in the hostfile of an MPI job's ConfigMap, Unset if there is none
  queued,   \* the key is in the work queue
  panicked, \* the manager has dereferenced a nil pointer
  hist,     \* history: slots whose pod has failed for good, the last sync
  budget    \* what is left of the bounds above

vars == <<job, pods, ready, status, config, queued, panicked, hist, budget>>

-----------------------------------------------------------------------------
(* Types *)

Slots == RTypes \X (0..MaxReplicas - 1)
NoPod == [phase |-> "None", rank |-> Unset, world |-> Unset]
Pod == [phase : {"None", "Pending", "Running", "Succeeded", "Retry", "Perm"},
        rank : Nat \cup {Unset}, world : Nat \cup {Unset}]
Failed == {"Retry", "Perm"}

ReplicaStatus == [seen : BOOLEAN, active : Nat, succeeded : Nat, failed : Nat]
NoCount == [seen |-> FALSE, active |-> 0, succeeded |-> 0, failed |-> 0]
Status == [conds : Conditions, completed : BOOLEAN, replicas : [RTypes -> ReplicaStatus]]

-----------------------------------------------------------------------------
(* Defaults.  A pod spec is given a port and a message policy too.         *)

ReplicaDefaults(spec, n, policy) ==
  [replicas |-> IF spec.replicas = Unset THEN n ELSE spec.replicas,
   policy   |-> IF spec.policy = NoPolicy THEN policy ELSE spec.policy]

Cleaned(j, policy) == [j EXCEPT !.clean = IF @ = NoPolicy THEN policy ELSE @]

SetDefaults_PyTorchJob(j) ==
  [Cleaned(j, "None") EXCEPT !.specs = [rt \in DOMAIN @ |->
     CASE rt = "Master"   -> ReplicaDefaults(@[rt], 1, "ExitCode")
       [] rt = "Worker"   -> ReplicaDefaults(@[rt], 1, "OnFailure")
       [] rt = "AIMaster" -> @[rt]]]

SetDefaults_XGBoostJob(j) ==
  [Cleaned(j, "None") EXCEPT !.specs = [rt \in DOMAIN @ |-> ReplicaDefaults(@[rt], 1, NoPolicy)]]

SetDefaults_XDLJob(j) ==
  [Cleaned(j, "Running") EXCEPT
     !.minFinish = IF @ = Unset /\ j.minNum = Unset THEN 90 ELSE @,
     !.specs = [rt \in DOMAIN @ |-> ReplicaDefaults(@[rt], 1, "Never")]]

SetDefaults_MarsJob(j) ==
  [Cleaned(j, "None") EXCEPT !.specs = [rt \in DOMAIN @ |->
     CASE rt = "Scheduler"  -> ReplicaDefaults(@[rt], 1, "Never")
       [] rt = "WebService" -> ReplicaDefaults(@[rt], 1, "Always")
       [] rt = "Worker"     -> ReplicaDefaults(@[rt], 1, "ExitCode")]]

(* The policy of the job is overwritten by that of a legacy spec, and is   *)
(* left unset without one.  The number of replicas has no default.         *)
SetDefaults_MPIJob(j) ==
  [j EXCEPT !.clean = IF j.legacy THEN "Running" ELSE @,
            !.specs = [rt \in DOMAIN @ |-> ReplicaDefaults(@[rt], Unset, "Never")]]

SetDefaults_ElasticBatchJob(j) ==
  [Cleaned(j, "None") EXCEPT !.specs = [rt \in DOMAIN @ |->
     IF rt = "AIMaster" THEN [ReplicaDefaults(@[rt], 1, "Never") EXCEPT !.replicas = 1]
     ELSE ReplicaDefaults(@[rt], 1, "ExitCode")]]

SetDefaults(j) ==
  CASE j.kind = "PyTorch"      -> SetDefaults_PyTorchJob(j)
    [] j.kind = "XGBoost"      -> SetDefaults_XGBoostJob(j)
    [] j.kind = "XDL"          -> SetDefaults_XDLJob(j)
    [] j.kind = "Mars"         -> SetDefaults_MarsJob(j)
    [] j.kind = "MPI"          -> SetDefaults_MPIJob(j)
    [] j.kind = "ElasticBatch" -> SetDefaults_ElasticBatchJob(j)
    [] j.kind = "ElasticDL"    -> j

(* The bitwise and of two 32-bit numbers is 0. *)
Disjoint(m, n) == \A i \in 0..30 : (m \div 2^i) % 2 = 0 \/ (n \div 2^i) % 2 = 0

(* The workers a legacy MPI job asks for, 0 if it is refused.  The test of *)
(* the remainder is a bitwise and.                                         *)
processingUnitsPerWorker(units, perNode) ==
  CASE units < perNode                               -> 1
    [] units >= perNode /\ Disjoint(units, perNode)  -> units \div perNode
    [] units >= perNode /\ ~Disjoint(units, perNode) -> 0

LegacySpec(j, rt) ==
  CASE rt = "Launcher" ->
         IF rt \in DOMAIN j.specs THEN j.specs[rt] ELSE [replicas |-> 1, policy |-> NoPolicy]
    [] rt = "Worker" ->
         IF rt \in DOMAIN j.specs /\ j.specs[rt].replicas # Unset THEN j.specs[rt]
         ELSE [replicas |-> processingUnitsPerWorker(j.units, j.perNode),
               policy   |-> IF rt \in DOMAIN j.specs THEN j.specs[rt].policy ELSE NoPolicy]

LegacyMPIJobToV1MPIJob(j) ==
  IF j.legacy THEN [j EXCEPT !.specs = [rt \in {"Launcher", "Worker"} |-> LegacySpec(j, rt)]] ELSE j

Effective(j) == SetDefaults(LegacyMPIJobToV1MPIJob(j))

Refused(j) == j.legacy /\ processingUnitsPerWorker(j.units, j.perNode) = 0

(* The upstream types of each type; all are waited for until Running.      *)
Upstream ==
  {<<"PyTorch", "Master", "AIMaster">>, <<"PyTorch", "Worker", "Master">>, <<"XGBoost", "Worker", "Master">>,
   <<"Mars", "Worker", "Scheduler">>, <<"Mars", "WebService", "Scheduler">>, <<"MPI", "Launcher", "Worker">>,
   <<"ElasticBatch", "Worker", "AIMaster">>}

DependOn(j, rt) == {u \in DOMAIN j.specs : j.dag /\ <<j.kind, rt, u>> \in Upstream}

GetReconcileOrders(kind) ==
  CASE kind = "PyTorch" -> <<"AIMaster", "Master", "Worker">>
    [] kind = "XGBoost" -> <<"Master", "Worker">>
    [] kind = "XDL"     -> <<"PS", "Scheduler", "Worker", "ExtendRole">>
    [] kind = "Mars"    -> <<"Scheduler", "WebService", "Worker">>
    [] kind = "MPI"     -> <<"Worker", "Launcher">>
    [] kind = "ElasticDL"    -> <<"Master">>
    [] kind = "ElasticBatch" -> <<"AIMaster", "Worker">>

-----------------------------------------------------------------------------
(* A sync *)

InRange(s, p) == p[1] \in DOMAIN s.specs /\ p[2] < s.specs[p[1]].replicas
Wanted(s, rt) == {p \in Slots : p[1] = rt /\ InRange(s, p)}
Exists(p) == pods[p].phase # "None"
Frozen(s) == "AIMaster" \in DOMAIN s.specs /\ ~ready

Existing(rt) == {p \in Slots : p[1] = rt /\ Exists(p)}

(* Mutant: a failed upstream pod holds its downstream back. *)
dagConditionsReadyRunningOnly(s, rt) ==
  \A u \in DependOn(s, rt) :
    /\ Cardinality(Existing(u)) >= s.specs[u].replicas
    /\ \A p \in Existing(u) : pods[p].phase \in {"Running", "Succeeded"}

(* A terminated pod is ahead of Running. *)
dagConditionsReady(s, rt) ==
  \A u \in DependOn(s, rt) :
    /\ Cardinality(Existing(u)) >= s.specs[u].replicas
    /\ \A p \in Existing(u) : pods[p].phase # "Pending"

Visited(s) ==
  {rt \in DOMAIN s.specs \cap ToSet(GetReconcileOrders(s.kind)) :
     (Frozen(s) => rt = "AIMaster") /\ dagConditionsReady(s, rt)}

ShouldPodFailOver(s, p) == s.specs[p[1]].policy = "ExitCode" /\ pods[p].phase = "Retry"

(* SetClusterSpec of each kind: what a new pod is told about its place.    *)

Replicas(s) == [rt \in DOMAIN s.specs |-> s.specs[rt].replicas]
Total(s, types) == SumFunctionOnSet(Replicas(s), types)

(* Mutant: workers are not moved past the master. *)
PyTorchClusterSpecNoOffset(s, p) == [rank |-> p[2], world |-> Total(s, DOMAIN s.specs \ {"AIMaster"})]

PyTorchClusterSpec(s, p) ==
  [rank  |-> IF p[1] = "Master" THEN p[2] ELSE p[2] + 1,
   world |-> Total(s, DOMAIN s.specs \ {"AIMaster"})]

(* Workers have the same ranks as masters. *)
XGBoostClusterSpec(s, p) == [rank |-> p[2], world |-> Total(s, DOMAIN s.specs)]

(* The endpoints of all replicas, in an environment variable. *)
genXDLConfigJSON(s, p) == [rank |-> p[2], world |-> Total(s, DOMAIN s.specs)]
XDLClusterSpec(s, p) == genXDLConfigJSON(s, p)

(* The endpoints of all replicas but workers, whose number may change; the settings of the  *)
(* memory of workers go into the same environment.                                          *)
marsConfigInJson(s, p) == [rank |-> p[2], world |-> Total(s, DOMAIN s.specs \ {"Worker"})]
MarsClusterSpec(s, p) == marsConfigInJson(s, p)

ElasticBatchClusterSpec(s, p) == [rank |-> IF p[1] = "AIMaster" THEN Unset ELSE p[2], world |-> Unset]

(* The launcher is given the hostfile of the job's config map; workers have only the script   *)
(* that it runs.                                                                               *)
setupMPILauncher(s) ==
  [rank |-> Unset, world |-> IF config = Unset THEN Cardinality(Wanted(s, "Worker")) ELSE config]
setupMPIWorker == [rank |-> Unset, world |-> Unset]
MPIClusterSpec(s, p) == IF p[1] = "Launcher" THEN setupMPILauncher(s) ELSE setupMPIWorker

SetClusterSpec(s, p) ==
  CASE s.kind = "PyTorch"      -> PyTorchClusterSpec(s, p)
    [] s.kind = "XGBoost"      -> XGBoostClusterSpec(s, p)
    [] s.kind = "XDL"          -> XDLClusterSpec(s, p)
    [] s.kind = "Mars"         -> MarsClusterSpec(s, p)
    [] s.kind = "ElasticBatch" -> ElasticBatchClusterSpec(s, p)
    [] s.kind = "MPI"          -> MPIClusterSpec(s, p)
    [] OTHER                   -> [rank |-> Unset, world |-> Unset]

NewPod(s, p) == [phase |-> "Pending", rank |-> SetClusterSpec(s, p).rank, world |-> SetClusterSpec(s, p).world]

(* The hostfile is written once, with the workers of that moment. *)
getOrCreateJobConfig(s, creates) ==
  config' = IF s.kind = "MPI" /\ "Launcher" \in DOMAIN s.specs /\ creates /\ config = Unset
            THEN Cardinality(Wanted(s, "Worker")) ELSE config

ReconcilePods(s, visited) ==
  [p \in Slots |->
     IF p[1] \notin visited THEN pods[p]
     ELSE IF InRange(s, p) /\ ~Exists(p) THEN NewPod(s, p)
     ELSE IF ~InRange(s, p) \/ ShouldPodFailOver(s, p) THEN NoPod ELSE pods[p]]

Restart(s, visited) == \E p \in Slots : p[1] \in visited /\ InRange(s, p) /\ ShouldPodFailOver(s, p)

Counted(s, rt, phases) == Cardinality({p \in Wanted(s, rt) : pods[p].phase \in phases})

(* Mutant: counts of the last sync are not reset. *)
updateJobReplicaStatusesAccumulates(s, visited) ==
  [rt \in RTypes |->
     IF rt \notin visited THEN status.replicas[rt]
     ELSE [seen      |-> TRUE,
           active    |-> Counted(s, rt, {"Running"}),
           succeeded |-> status.replicas[rt].succeeded + Counted(s, rt, {"Succeeded"}),
           failed    |-> Counted(s, rt, Failed)]]

(* A type that is not visited keeps the counts of an earlier sync. *)
updateJobReplicaStatuses(s, visited) ==
  [rt \in RTypes |->
     IF rt \notin visited THEN status.replicas[rt]
     ELSE [seen      |-> TRUE,
           active    |-> Counted(s, rt, {"Running"}),
           succeeded |-> Counted(s, rt, {"Succeeded"}),
           failed    |-> Counted(s, rt, Failed)]]

-----------------------------------------------------------------------------
(* UpdateJobStatus of each kind.  r is what the visit of a type starts     *)
(* with and leaves; the types are visited in the order of a Go map, which  *)
(* is any order, until one of the visits stops it.                         *)

Mark(r, t) == [r EXCEPT !.conds = setCondition(@, t)]
Complete(r, t) == [Mark(r, t) EXCEPT !.completed = TRUE]
Stop(r) == [r EXCEPT !.stop = TRUE]
When(c, then, else) == IF c THEN then ELSE else

allWorkersSucceed(s, n) == "Worker" \in DOMAIN s.specs => n["Worker"].succeeded = s.specs["Worker"].replicas

(* Mutant: what is not restarted is ignored. *)
RestartingOrNothing(r, restart) == When(restart, Mark(r, "Restarting"), r)

RestartingOrFailed(r, restart) == IF restart THEN Mark(r, "Restarting") ELSE Complete(r, "Failed")

PyTorchVisit(s, n, restart, r, rt) ==
  LET decides == rt \in {"Master", "AIMaster"}
      ran  == When(decides /\ n[rt].active > 0, Mark(r, "Running"), r)
      succ == /\ decides /\ s.specs[rt].replicas > 0 /\ n[rt].succeeded = s.specs[rt].replicas
              /\ rt = "AIMaster" \/ allWorkersSucceed(s, n)
      won  == When(succ, Complete(ran, "Succeeded"), ran)
  IN When(n[rt].failed > 0, RestartingOrFailed(won, restart /\ rt # "AIMaster"), won)

XGBoostVisit(s, n, restart, r, rt) ==
  LET ran == When(rt = "Master" /\ n[rt].active > 0, Mark(r, "Running"), r)
  IN IF rt = "Master" /\ n[rt].succeeded = s.specs[rt].replicas THEN Stop(Complete(ran, "Succeeded"))
     ELSE When(n[rt].failed > 0, RestartingOrFailed(ran, restart), ran)

XDLVisit(s, n, restart, r, rt) ==
  When(n[rt].failed > 0, Stop(RestartingOrFailed(r, restart)), r)

(* Without a verdict for a type that fails for good and is no scheduler.   *)
MarsVisit(s, n, restart, r, rt) ==
  IF n[rt].failed > 0
  THEN Stop(IF rt = "Scheduler" THEN Complete(r, "Failed") ELSE When(restart, Mark(r, "Restarting"), r))
  ELSE When(rt = "Scheduler" /\ n[rt].succeeded = s.specs[rt].replicas, Stop(Complete(r, "Succeeded")), r)

ElasticDLVisit(s, n, restart, r, rt) ==
  LET ran == When(n[rt].active > 0, Mark(r, "Running"), r)
      won == When(n[rt].succeeded = s.specs[rt].replicas, Complete(ran, "Succeeded"), ran)
  IN When(n[rt].failed > 0, RestartingOrFailed(won, restart), won)

ElasticBatchVisit(s, n, restart, r, rt) ==
  LET ran  == When(n[rt].active > 0, Mark(r, "Running"), r)
      succ == /\ n[rt].succeeded = s.specs[rt].replicas
              /\ (rt # "AIMaster" /\ s.allWorkers) => allWorkersSucceed(s, n)
      won  == When(succ, Complete(ran, "Succeeded"), ran)
  IN When(n[rt].failed > 0, RestartingOrFailed(won, restart /\ rt # "AIMaster"), won)

Visit(s, n, restart, r, rt) ==
  IF r.stop \/ ~n[rt].seen THEN r
  ELSE CASE s.kind = "PyTorch"      -> PyTorchVisit(s, n, restart, r, rt)
         [] s.kind = "XGBoost"      -> XGBoostVisit(s, n, restart, r, rt)
         [] s.kind = "XDL"          -> XDLVisit(s, n, restart, r, rt)
         [] s.kind = "Mars"         -> MarsVisit(s, n, restart, r, rt)
         [] s.kind = "ElasticDL"    -> ElasticDLVisit(s, n, restart, r, rt)
         [] s.kind = "ElasticBatch" -> ElasticBatchVisit(s, n, restart, r, rt)
         [] OTHER -> r

calculateMinFinish(s, workers) ==
  IF s.minFinish # Unset THEN (workers * s.minFinish + 99) \div 100
  ELSE IF s.minNum # Unset THEN s.minNum ELSE workers

XDLEnd(s, n, r) ==
  LET counted  == {rt \in DOMAIN s.specs \cap {"Worker", "ExtendRole"} : n[rt].seen}
      finished == SumFunctionOnSet([rt \in RTypes |-> n[rt].succeeded], counted)
  IN IF finished >= calculateMinFinish(s, Total(s, counted)) THEN Complete(r, "Succeeded") ELSE Mark(r, "Running")

(* The launcher decides, the workers only tell Restarting from Running.    *)
MPIEnd(s, n, restart, r) ==
  LET l  == n["Launcher"]
      w  == n["Worker"]
      r1 == When(l.seen /\ l.failed > 0, Complete(r, "Failed"), r)
  IN IF l.seen /\ l.succeeded > 0 THEN Complete(r, "Succeeded")
     ELSE IF w.seen /\ w.failed > 0 /\ restart THEN Mark(r1, "Restarting")
     ELSE When(w.seen /\ l.seen /\ l.active > 0 /\ w.active = s.specs["Worker"].replicas, Mark(r1, "Running"), r1)

End(s, n, restart, r) ==
  IF r.stop THEN r
  ELSE CASE s.kind = "XGBoost" -> Mark(r, "Running")
         [] s.kind = "XDL"     -> XDLEnd(s, n, r)
         [] s.kind = "Mars"    -> When(n["Worker"].active > 0, Mark(r, "Running"), r)
         [] s.kind = "MPI"     -> MPIEnd(s, n, restart, r)
         [] OTHER              -> r

(* The status after the visits in this order. *)
Visits(s, n, restart, order) ==
  LET after[i \in 0..Len(order)] ==
        IF i = 0 THEN [conds |-> status.conds, completed |-> status.completed, stop |-> FALSE]
        ELSE Visit(s, n, restart, after[i - 1], order[i])
  IN  after[Len(order)]

(* What the visits in some order, and what follows them, can make of the   *)
(* status.                                                                 *)
UpdateJobStatus(s, n, restart) ==
  {LET r == End(s, n, restart, Visits(s, n, restart, order))
   IN  [conds |-> r.conds, completed |-> r.completed, replicas |-> n] : order \in SetToSeqs(DOMAIN s.specs)}

-----------------------------------------------------------------------------
(* Reconcile *)

(* GetTotalReplicas and deletePodsAndServices dereference what defaulting  *)
(* may have left nil; and to tell a pod the port of its master,            *)
(* GetPortFromJob dereferences the master's spec.                          *)
NoMaster(j) == j.kind \in {"PyTorch", "XGBoost"} /\ "Master" \notin DOMAIN j.specs

Panics(s) ==
  \/ /\ ~Finished(status.conds) /\ NoMaster(s)
     /\ \E rt \in Visited(s) : \E p \in Wanted(s, rt) : ~Exists(p)
  \/ \E rt \in DOMAIN s.specs : s.specs[rt].replicas = Unset
  \/ Finished(status.conds) /\ s.clean = NoPolicy /\ \E p \in Slots : Exists(p)

ReconcilePanics(s) ==
  /\ queued /\ ~panicked /\ Panics(s)
  /\ panicked' = TRUE
  /\ UNCHANGED <<job, pods, ready, status, config, queued, hist, budget>>

SettleReplicas(st) ==
  IF ~IsSucceeded(st.conds) THEN st
  ELSE [st EXCEPT !.replicas = [rt \in RTypes |->
          [st.replicas[rt] EXCEPT !.succeeded = @ + st.replicas[rt].active, !.active = 0]]]

(* The status is saved, or the update fails and the key is retried. *)
SaveStatus(new, changed) ==
  \/ status' = new /\ queued' = (changed \/ new # status) /\ UNCHANGED budget
  \/ /\ new # status /\ budget.faults > 0
     /\ status' = status /\ queued' = TRUE
     /\ budget' = [budget EXCEPT !.faults = @ - 1]

ReconcileTerminated(s) ==
  LET goes(p) == s.clean = "All" \/ (s.clean = "Running" /\ pods[p].phase = "Running")
  IN /\ queued /\ ~panicked /\ ~Panics(s) /\ Finished(status.conds)
     /\ pods' = [p \in Slots |-> IF goes(p) THEN NoPod ELSE pods[p]]
     /\ \E new \in {SettleReplicas(status)} : SaveStatus(new, pods' # pods)
     /\ UNCHANGED <<job, ready, config, panicked, hist>>

(* An AIMaster that is not ready ends the sync before any status update. *)
ReconcileFrozen(s) ==
  /\ queued /\ ~panicked /\ ~Panics(s) /\ ~Finished(status.conds) /\ Frozen(s)
  /\ \E visited \in {Visited(s)} : pods' = ReconcilePods(s, visited)
  /\ queued' = (pods' # pods)
  /\ UNCHANGED <<job, ready, status, config, panicked, hist, budget>>

ReconcileJobs(s) ==
  /\ queued /\ ~panicked /\ ~Panics(s) /\ ~Finished(status.conds) /\ ~Frozen(s)
  /\ \E visited \in {Visited(s)} :
       /\ pods' = ReconcilePods(s, visited)
       /\ getOrCreateJobConfig(s, \E p \in Slots : ~Exists(p) /\ pods'[p].phase = "Pending")
       /\ \E n \in {updateJobReplicaStatuses(s, visited)}, restart \in {Restart(s, visited)} :
            \E new \in UpdateJobStatus(s, n, restart) : SaveStatus(new, pods' # pods)
  /\ UNCHANGED <<job, ready, panicked, hist>>

(* The sync of a legacy job that is refused ends before any of these and   *)
(* is retried for ever.                                                    *)
Reconcile ==
  ~Refused(job) /\ \E s \in {Effective(job)} :
    ReconcilePanics(s) \/ ReconcileTerminated(s) \/ ReconcileFrozen(s) \/ ReconcileJobs(s)

-----------------------------------------------------------------------------
(* The cluster and its users; every event about a pod or the job enqueues  *)
(* the key.                                                                *)

OnPodUpdate == queued' = TRUE /\ UNCHANGED <<job, status, config, panicked>>

PodStarts(p) ==
  /\ pods[p].phase = "Pending"
  /\ pods' = [pods EXCEPT ![p].phase = "Running"]
  /\ OnPodUpdate /\ UNCHANGED <<ready, hist, budget>>

PodPolicy(p) == Effective(job).specs[p[1]].policy

(* Only a container that is not restarted whatever happens can succeed. *)
PodSucceeds(p) ==
  /\ pods[p].phase = "Running" /\ PodPolicy(p) \notin {"Always", NoPolicy}
  /\ pods' = [pods EXCEPT ![p].phase = "Succeeded"]
  /\ OnPodUpdate /\ UNCHANGED <<ready, hist, budget>>

(* Nothing brings this pod back. *)
Final(p, phase) ==
  PodPolicy(p) # "ExitCode" \/ phase = "Perm" \/ p[1] \in {"AIMaster", "Scheduler", "Launcher"}

(* A pod that the kubelet restarts in place fails only when it is evicted. *)
PodFails(p, phase) ==
  /\ pods[p].phase = "Running" /\ budget.failures > 0
  /\ phase = "Perm" => PodPolicy(p) \in {"Never", "ExitCode"}
  /\ pods' = [pods EXCEPT ![p].phase = phase]
  /\ budget' = [budget EXCEPT !.failures = @ - 1]
  /\ hist' = IF Final(p, phase) THEN hist \cup {p} ELSE hist
  /\ OnPodUpdate /\ UNCHANGED ready

UserKillsPod(p) ==
  /\ Exists(p) /\ budget.faults > 0
  /\ pods' = [pods EXCEPT ![p] = NoPod]
  /\ budget' = [budget EXCEPT !.faults = @ - 1]
  /\ OnPodUpdate /\ UNCHANGED <<ready, hist>>

UserScalesWorkers(n) ==
  /\ budget.faults > 0 /\ "Worker" \in DOMAIN job.specs /\ n # job.specs["Worker"].replicas
  /\ job' = [job EXCEPT !.specs["Worker"].replicas = n]
  /\ budget' = [budget EXCEPT !.faults = @ - 1]
  /\ queued' = TRUE
  /\ UNCHANGED <<pods, ready, status, config, panicked, hist>>

(* The AIMaster annotates the job once it runs. *)
AIMasterReady ==
  /\ ~ready /\ \E p \in Slots : p[1] = "AIMaster" /\ pods[p].phase = "Running"
  /\ ready' = TRUE /\ queued' = TRUE
  /\ UNCHANGED <<job, pods, status, config, panicked, hist, budget>>

-----------------------------------------------------------------------------
Init ==
  /\ job \in Jobs
  /\ pods = [p \in Slots |-> NoPod]
  /\ ready = FALSE
  /\ status = [conds |-> setCondition(NoConditions, "Created"), completed |-> FALSE,
               replicas |-> [rt \in RTypes |-> NoCount]]
  /\ config = Unset /\ queued = TRUE /\ panicked = FALSE /\ hist = {}
  /\ budget = [failures |-> MaxFailures, faults |-> MaxFaults]

Kubelet == \E p \in Slots : PodStarts(p)

Next ==
  \/ Reconcile
  \/ Kubelet
  \/ \E p \in Slots : PodSucceeds(p) \/ PodFails(p, "Retry") \/ PodFails(p, "Perm") \/ UserKillsPod(p)
  \/ \E n \in 1..MaxReplicas : UserScalesWorkers(n)
  \/ AIMasterReady

Spec == Init /\ [][Next]_vars /\ WF_vars(Reconcile) /\ WF_vars(Kubelet)

-----------------------------------------------------------------------------
(* Properties *)

(* Every variable holds a value of its type, and the manager dies on a nil *)
(* field only of the jobs whose defaulting leaves it nil: defaults are     *)
(* applied to a copy in every sync and are never stored.                   *)
TypeOK ==
  /\ job \in Job
  /\ pods \in [Slots -> Pod] /\ ready \in BOOLEAN /\ status \in Status
  /\ config \in Nat \cup {Unset} /\ queued \in BOOLEAN
  /\ panicked => \/ job.kind \in {"MPI", "ElasticDL"} \/ NoMaster(job)
                 \/ job.kind = "PyTorch" /\ "AIMaster" \in DOMAIN job.specs
  /\ hist \subseteq Slots

(* The meaning of success: the pods that decide about a kind have          *)
(* succeeded.                                                              *)
Earned(s) ==
  LET all(rt) == \A p \in Wanted(s, rt) : pods[p].phase = "Succeeded"
      has(rt) == rt \in DOMAIN s.specs
  IN CASE s.kind = "PyTorch"      -> (has("AIMaster") /\ all("AIMaster")) \/ (all("Master") /\ all("Worker"))
       [] s.kind \in {"XGBoost", "ElasticDL"} -> all("Master")
       [] s.kind = "Mars"         -> all("Scheduler")
       [] s.kind = "MPI"          -> \E p \in Wanted(s, "Launcher") : pods[p].phase = "Succeeded"
       [] s.kind = "ElasticBatch" -> all("AIMaster") \/ all("Worker")
       [] s.kind = "XDL" ->
            LET workers == Wanted(s, "Worker") \cup Wanted(s, "ExtendRole")
                done == Cardinality({p \in workers : pods[p].phase = "Succeeded"})
            IN IF s.minFinish # Unset THEN 100 * done >= s.minFinish * Cardinality(workers)
               ELSE done >= s.minNum

(* The DAG keeps the workers, or the master they wait for, from being      *)
(* visited while the AIMaster is replaced.                                 *)
AIMasterGates(j) == j.dag /\ {"AIMaster", "Worker"} \subseteq DOMAIN j.specs

(* A job becomes Succeeded only while the pods its kind decides by have    *)
(* succeeded, whatever counts earlier syncs have left in the status        *)
(* (updateGeneralJobStatus of each kind), except that workers behind an    *)
(* AIMaster may be judged by such counts after the job was scaled or a     *)
(* status was lost.  Without DAG scheduling a job fails only after a pod   *)
(* has failed that is not restarted: retryable failures of several types   *)
(* at once, lost status updates and recreated pods never add up to Failed. *)
(* A job has its completion time exactly when it has a verdict: TTL        *)
(* clean-up and cron history read one for the other.  And only the jobs    *)
(* that TypeOK names are ended by a panic.                                 *)
VerdictsAreEarned ==
  /\ [](TypeOK /\ status.completed = Finished(status.conds))
  /\ [](IsFailed(status.conds) /\ ~job.dag => hist # {})
  /\ [][~IsSucceeded(status.conds) /\ IsSucceeded(status.conds') =>
          Earned(Effective(job)) \/ AIMasterGates(job)]_vars

(* A job fails only after a pod has failed that is not restarted, also     *)
(* with DAG scheduling, as the ExitCode policy promises.                   *)
RetryableFailuresAreRetried == IsFailed(status.conds) => hist # {}

(* The members of a PyTorch process group have different ranks, each below *)
(* the world size it was told, while pods come and go and workers are      *)
(* scaled.                                                                 *)
RanksAreDistinct ==
  job.kind = "PyTorch" =>
    \A p, q \in {x \in Slots : Exists(x) /\ x[1] # "AIMaster"} :
      /\ pods[p].rank < pods[p].world
      /\ pods[p].rank = pods[q].rank => p = q

EveryoneExists(s) == \A rt \in DOMAIN s.specs : \A p \in Wanted(s, rt) : Exists(p)

(* Nobody waits for ever behind the DAG: once the AIMaster is ready, if    *)
(* there is one, every replica gets a pod or the job a verdict.            *)
EveryReplicaStarts ==
  ~Frozen(job) ~> (panicked \/ Finished(status.conds) \/ EveryoneExists(Effective(job)))

(* No pod of the job will change again. *)
AllDone(s) ==
  /\ ~Frozen(s)
  /\ \A rt \in DOMAIN s.specs : \A p \in Wanted(s, rt) :
       /\ pods[p].phase \in {"Succeeded"} \cup Failed /\ ~ShouldPodFailOver(s, p)
       /\ s.kind = "Mars" /\ rt # "Scheduler" => pods[p].phase = "Succeeded"

AllRunning(s) ==
  ~Frozen(s) /\ \A rt \in DOMAIN s.specs : \A p \in Wanted(s, rt) : pods[p].phase = "Running"

(* A job all of whose pods have ended for good gets its verdict (for Mars, *)
(* unless a pod other than a scheduler has failed), and once all pods run  *)
(* again the job does not stay Restarting.                                 *)
VerdictFollows ==
  /\ <>[]AllDone(Effective(job)) => <>(panicked \/ Finished(status.conds))
  /\ <>[]AllRunning(Effective(job)) => []<>~IsRestarting(status.conds)
=============================================================================
