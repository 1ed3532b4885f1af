------------------------------ MODULE Elastic ------------------------------
(***************************************************************************)
(* Elastic scaling of a running PyTorchJob (controllers/pytorch/           *)
(* elastic_scale.go and its calls in ReconcileJobs): checkpoints before    *)
(* preempted pods go, then the master service, the master and the workers  *)
(* are brought to the generation of the job, their containers restarted in *)
(* place by kruise.                                                        *)
(*                                                                         *)
(* Abstractions.                                                           *)
(*  - Pod 0 is the master, the others are workers.  The pod of the         *)
(*    AIMaster never fails; its replica only counts in totalReplicas.      *)
(*  - Pods carry the preempt protector: a deleted pod is "dying" until the *)
(*    controller removes it.  The request of a pod that is gone is gone.   *)
(*  - The AIMaster (external) asks for another round of scaling only when  *)
(*    the last one is over, says when workers may restart, and answers     *)
(*    requests for a checkpoint.                                           *)
(***************************************************************************)
EXTENDS Naturals, FiniteSets

CONSTANTS
  MaxWorkers,   \* bound: workers the job may ask for
  InitWorkers,  \* workers at the start
  HasAIMaster,  \* the AIMaster is a replica of the job
  CacheLags,    \* a sync may start before the cache is up to date
  MaxScales,    \* bound: changes of the number of workers
  MaxPreempts,  \* bound: pods that are evicted
  MaxFaults,    \* bound: calls that fail and restarts of the manager
  MaxFailedCRRs \* bound: requests to recreate containers that fail

ASSUME ElasticAssumption ==
  /\ MaxWorkers \in Nat /\ InitWorkers \in 0..MaxWorkers
  /\ HasAIMaster \in BOOLEAN /\ CacheLags \in BOOLEAN
  /\ MaxScales \in Nat /\ MaxPreempts \in Nat /\ MaxFaults \in Nat /\ MaxFailedCRRs \in Nat

VARIABLES
  job,      \* API server: generation, workers and annotations of the job
  pods,     \* API server: the pods
  crr,      \* API server: the ContainerRecreateRequest of each pod
  svc,      \* API server: the generation the master service selects
  seen,     \* the informers' copies of pods and crr
  queued,   \* the key is in the work queue
  worker,   \* the sync in progress
  sizeOf,   \* history: the world size each generation asked for
  budget    \* what is left of the bounds above

vars == <<job, pods, crr, svc, seen, queued, worker, sizeOf, budget>>

-----------------------------------------------------------------------------
Master == 0
Pods   == 0..MaxWorkers
MaxGen == 1 + MaxScales + 2 * MaxPreempts + MaxFailedCRRs
Gens   == 0..MaxGen

Job == [gen : 1..MaxGen, workers : 0..MaxWorkers,
        ready : BOOLEAN,      \* ready-to-start-worker
        immediate : BOOLEAN,  \* immediately-start-worker
        inflight : BOOLEAN,   \* scale-state
        req : Gens, wound : BOOLEAN,  \* version and status (Succeeded) of the requested checkpoint
        done : Gens]          \* version of the completed checkpoint
Pod == [up : {"none", "live", "dying"}, gen : Gens, ws : 0..MaxWorkers + 1, env : 0..MaxWorkers + 1]
CRR == [gen : Gens, phase : {"none", "recreating", "succeeded", "failed"}]

NoPod == [up |-> "none", gen |-> 0, ws |-> 0, env |-> 0]
NoCRR == [gen |-> 0, phase |-> "none"]

InRange(j, p) == p <= j.workers
WorldSize(j) == j.workers + 1

(* Mutant: the AIMaster is left out. *)
totalReplicasWithoutAIMaster(j) == WorldSize(j)

totalReplicas(j) == WorldSize(j) + IF HasAIMaster THEN 1 ELSE 0

filterVictimPods(list) == {p \in Pods : list[p].up = "dying"}
IsStale(pod, gen) == pod.up # "none" /\ pod.gen < gen
NumReplicasForLatestGeneration(list, gen) ==
  Cardinality({p \in Pods : list[p].up # "none" /\ list[p].gen = gen})

(* createNewPod and SetClusterSpec label the pod and annotate its world size. *)
NewPod(j) == [up |-> "live", gen |-> j.gen, ws |-> WorldSize(j), env |-> WorldSize(j)]

(* Mutant: the request is for the generation to come. *)
CheckpointRequestNext(j) == [job EXCEPT !.req = j.gen + 1, !.wound = FALSE]

(* triggerJobCheckpoint *)
CheckpointRequest(j) == [job EXCEPT !.req = j.gen, !.wound = FALSE]

Idle == [pc |-> "idle", job |-> [gen |-> 1, workers |-> 0, ready |-> FALSE, immediate |-> FALSE,
                                 inflight |-> FALSE, req |-> 0, wound |-> FALSE, done |-> 0],
         own |-> TRUE, total |-> 0, list |-> [p \in Pods |-> NoPod]]

At(pc) == worker.pc = pc
Goto(pc) == worker' = [worker EXCEPT !.pc = pc]

(* A write of the job: every write is an event of it and makes the copies  *)
(* others hold old.  The writer's own copy becomes the server's answer.    *)
Answer(j, pc) ==
  /\ job' = j /\ queued' = TRUE
  /\ worker' = [worker EXCEPT !.pc = pc, !.job = j, !.own = TRUE]

Fault == budget.faults > 0 /\ budget' = [budget EXCEPT !.faults = @ - 1]

-----------------------------------------------------------------------------
(***************************************************************************)
(* The sync.                                                               *)
(***************************************************************************)
(* The job is read from the API server, pods and services from the cache. *)
StartSync ==
  /\ At("idle") /\ queued
  /\ CacheLags \/ (seen.pods = pods /\ seen.crr = crr)
  /\ queued' = FALSE
  /\ worker' = [pc |-> "checkpoint", job |-> job, own |-> TRUE,
                total |-> totalReplicas(job), list |-> seen.pods]
  /\ UNCHANGED <<job, pods, crr, svc, seen, sizeOf, budget>>

(* Any call of the sync fails: the key goes back to the queue. *)
SyncFails ==
  /\ worker.pc \notin {"idle", "windup", "workers"} /\ Fault
  /\ worker' = Idle /\ queued' = TRUE
  /\ UNCHANGED <<job, pods, crr, svc, seen, sizeOf>>

(* Mutant: the checkpoint counts as completed once it was requested. *)
CheckpointSettledTooEarly(j) == TRUE

(* No checkpoint was asked for, or the last one was completed. *)
CheckpointSettled(j) == j.req = 0 \/ j.done = j.req

CheckpointIfNecessary ==
  LET j == worker.job
      victims == filterVictimPods(worker.list)
  IN  /\ At("checkpoint")
      /\ \/ /\ CheckpointSettled(j) /\ (j.req = 0 \/ j.wound) /\ victims = {}
            /\ Goto("decide") /\ UNCHANGED <<job, queued>>
         \/ /\ CheckpointSettled(j) /\ (j.req = 0 \/ j.wound) /\ victims # {}
            /\ Answer(CheckpointRequest(j), "pods")
         \/ /\ CheckpointSettled(j) /\ j.req # 0 /\ ~j.wound
            /\ Goto("drain") /\ UNCHANGED <<job, queued>>
         \/ /\ ~CheckpointSettled(j)
            /\ Goto("pods") /\ UNCHANGED <<job, queued>>
      /\ UNCHANGED <<pods, crr, svc, seen, sizeOf, budget>>

(* DeletePod removes the protector and the pod. *)
Removed(gone) == /\ pods' = [p \in Pods |-> IF p \in gone THEN NoPod ELSE pods[p]]
                 /\ crr' = [p \in Pods |-> IF p \in gone THEN NoCRR ELSE crr[p]]

cleanupVictimPods ==
  /\ At("drain")
  /\ Removed(filterVictimPods(worker.list))
  /\ Goto("windup")
  /\ UNCHANGED <<job, svc, seen, queued, sizeOf, budget>>

(* An update that names the version it read; its error is swallowed. *)
increaseGenerationAndMarkAsSucceeded ==
  /\ At("windup")
  /\ \/ /\ worker.own /\ job.gen < MaxGen
        /\ Answer([job EXCEPT !.gen = @ + 1, !.wound = TRUE, !.ready = TRUE], "decide")
        /\ sizeOf' = [sizeOf EXCEPT ![job.gen + 1] = WorldSize(job)]
        /\ UNCHANGED budget
     \/ /\ ~worker.own \/ budget.faults > 0
        /\ budget' = IF worker.own THEN [budget EXCEPT !.faults = @ - 1] ELSE budget
        /\ Goto("pods") /\ UNCHANGED <<job, queued, sizeOf>>
  /\ UNCHANGED <<pods, crr, svc, seen>>

(* Not in the first generation; ScaleOut with all pods, ScaleIn with those *)
(* whose index is in range.                                                *)
ScaleDecision ==
  LET active == NumReplicasForLatestGeneration(worker.list, worker.job.gen)
  IN  /\ At("decide")
      /\ worker' = IF worker.job.gen = 1 \/ worker.total = active
                   THEN [worker EXCEPT !.pc = "pods"]
                   ELSE [worker EXCEPT !.pc = "service",
                           !.list = [p \in Pods |-> IF worker.total > active \/ InRange(worker.job, p)
                                                    THEN @[p] ELSE NoPod]]
      /\ UNCHANGED <<job, pods, crr, svc, seen, queued, sizeOf, budget>>

refreshStaleService ==
  /\ At("service")
  /\ svc' = worker.job.gen
  /\ Goto(IF worker.job.ready \/ worker.job.immediate THEN "mark" ELSE "pods")
  /\ UNCHANGED <<job, pods, crr, seen, queued, sizeOf, budget>>

MarkInflight ==
  /\ At("mark")
  /\ \/ ~worker.job.inflight /\ Answer([job EXCEPT !.inflight = TRUE], "master")
     \/ worker.job.inflight /\ Goto("master") /\ UNCHANGED <<job, queued>>
  /\ UNCHANGED <<pods, crr, svc, seen, sizeOf, budget>>

-----------------------------------------------------------------------------
(***************************************************************************)
(* restartStalePod, for a pod of the list: what becomes of the pod and its *)
(* request, and whether it is completed.  What the worker knows is the     *)
(* list and the cached request; a patch of a pod that is gone fails.       *)
(***************************************************************************)
RestartDone(request) == request.phase = "succeeded"

restartStalePod(p) ==
  LET j     == worker.job
      known == worker.list[p]
      req   == seen.crr[p]
      Result(pod, request, completed) == [pod |-> pod, crr |-> request, completed |-> completed]
      Kept  == Result(pods[p], crr[p], FALSE)
      New   == [gen |-> j.gen, phase |-> "recreating"]
  IN  IF j.immediate /\ known.up = "dying" THEN Result(pods[p], crr[p], TRUE)
      ELSE IF pods[p].up = "none" THEN Kept
      ELSE IF known.ws # WorldSize(j) THEN Result([pods[p] EXCEPT !.ws = WorldSize(j)], crr[p], FALSE)
      ELSE IF req.phase = "none"
           THEN IF crr[p] = NoCRR THEN Result(pods[p], New, FALSE) ELSE Kept
      ELSE IF req.gen # j.gen THEN Result(pods[p], New, FALSE)
      ELSE IF req.phase = "failed" THEN Result([pods[p] EXCEPT !.up = "dying"], crr[p], TRUE)
      ELSE IF RestartDone(req) THEN Result([pods[p] EXCEPT !.gen = j.gen], NoCRR, TRUE)
      ELSE Kept

(* The last two calls for a completed pod: the request is deleted first. *)
Restart(set, interrupted) ==
  /\ pods' = [p \in Pods |-> IF p \in set \ interrupted THEN restartStalePod(p).pod ELSE pods[p]]
  /\ crr' = [p \in Pods |-> IF p \in set THEN restartStalePod(p).crr ELSE crr[p]]

StaleWorkers == {p \in Pods \ {Master} : IsStale(worker.list[p], worker.job.gen)}
MasterStale == IsStale(worker.list[Master], worker.job.gen)

(* Mutant: workers do not wait for the master. *)
AfterMasterAnyway(completed) == "workers"

AfterMaster(completed) == IF completed THEN "workers" ELSE "pods"

RestartMaster ==
  /\ At("master")
  /\ \/ /\ MasterStale
        /\ Restart({Master}, {})
        /\ Goto(AfterMaster(restartStalePod(Master).completed))
        /\ UNCHANGED <<queued, budget>>
     \/ /\ MasterStale /\ Fault
        /\ Restart({Master}, {Master})
        /\ worker' = Idle /\ queued' = TRUE
     \/ /\ ~MasterStale
        /\ Goto("workers") /\ UNCHANGED <<pods, crr, queued, budget>>
  /\ UNCHANGED <<job, svc, seen, sizeOf>>

(***************************************************************************)
(* The goroutines of the workers count completed pods down without a lock: *)
(* some decrements may be lost.  The end is written when none is left.     *)
(***************************************************************************)
RestartWorkers ==
  /\ At("workers")
  /\ \E interrupted \in SUBSET StaleWorkers :
       LET completed == {p \in StaleWorkers \ interrupted : restartStalePod(p).completed}
       IN  /\ Cardinality(interrupted) <= budget.faults
           /\ budget' = [budget EXCEPT !.faults = @ - Cardinality(interrupted)]
           /\ Restart(StaleWorkers, interrupted)
           /\ \/ completed = StaleWorkers /\ Goto("finish")
              \/ /\ completed # StaleWorkers \/ Cardinality(completed) > 1
                 /\ Goto("pods")
  /\ UNCHANGED <<job, svc, seen, queued, sizeOf>>

FinishScale ==
  /\ At("finish")
  /\ Answer([job EXCEPT !.ready = FALSE, !.inflight = FALSE,
                        !.immediate = @ /\ ~worker.job.immediate], "pods")
  /\ UNCHANGED <<pods, crr, svc, seen, sizeOf, budget>>

(* Pods out of range go, missing ones are created; one that is there after *)
(* all ends the sync.                                                      *)
ReconcilePods ==
  LET j       == worker.job
      extra   == {p \in Pods : ~InRange(j, p) /\ seen.pods[p].up # "none"}
      missing == {p \in Pods : InRange(j, p) /\ worker.list[p].up = "none"}
      new     == {p \in missing : pods[p].up = "none"}
  IN  /\ At("pods")
      /\ pods' = [p \in Pods |->
                    IF p \in extra THEN NoPod
                    ELSE IF p \in new THEN NewPod(j)
                    ELSE pods[p]]
      /\ crr' = [p \in Pods |-> IF p \in extra THEN NoCRR ELSE crr[p]]
      /\ queued' = (queued \/ new # missing)
      /\ worker' = Idle
      /\ UNCHANGED <<job, svc, seen, sizeOf, budget>>

-----------------------------------------------------------------------------
(***************************************************************************)
(* Informers, kruise, the AIMaster, evictions, restarts of the manager.    *)
(***************************************************************************)
DeliverPod(p) ==
  /\ seen.pods[p] # pods[p]
  /\ seen' = [seen EXCEPT !.pods[p] = pods[p]] /\ queued' = TRUE
  /\ UNCHANGED <<job, pods, crr, svc, worker, sizeOf, budget>>

DeliverCRR(p) ==
  /\ seen.crr[p] # crr[p]
  /\ seen' = [seen EXCEPT !.crr[p] = crr[p]] /\ queued' = TRUE
  /\ UNCHANGED <<job, pods, crr, svc, worker, sizeOf, budget>>

(* The informers list everything again from time to time. *)
Resync ==
  /\ At("idle") /\ ~queued /\ queued' = TRUE
  /\ UNCHANGED <<job, pods, crr, svc, seen, worker, sizeOf, budget>>

(* The containers restart with the world size annotated on the pod. *)
ContainersRecreated(p) ==
  /\ crr[p].phase = "recreating"
  /\ crr' = [crr EXCEPT ![p].phase = "succeeded"]
  /\ pods' = [pods EXCEPT ![p].env = pods[p].ws]
  /\ UNCHANGED <<job, svc, seen, queued, worker, sizeOf, budget>>

ContainersFail(p) ==
  /\ crr[p].phase = "recreating" /\ budget.crrs > 0
  /\ crr' = [crr EXCEPT ![p].phase = "failed"]
  /\ budget' = [budget EXCEPT !.crrs = @ - 1]
  /\ UNCHANGED <<job, pods, svc, seen, queued, worker, sizeOf>>

Written(j) == job' = j /\ queued' = TRUE /\ worker' = [worker EXCEPT !.own = At("idle")]

AIMasterScales(n) ==
  /\ budget.scales > 0 /\ job.gen < MaxGen /\ n # job.workers
  /\ ~job.ready /\ ~job.immediate /\ ~job.inflight
  /\ Written([job EXCEPT !.workers = n, !.gen = @ + 1])
  /\ sizeOf' = [sizeOf EXCEPT ![job.gen + 1] = n + 1]
  /\ budget' = [budget EXCEPT !.scales = @ - 1]
  /\ UNCHANGED <<pods, crr, svc, seen>>

(* Workers may restart: the AIMaster has their state, or does not need it. *)
AIMasterReady ==
  /\ ~job.ready /\ ~job.immediate /\ \E p \in Pods : IsStale(pods[p], job.gen)
  /\ \/ Written([job EXCEPT !.ready = TRUE])
     \/ Written([job EXCEPT !.immediate = TRUE])
  /\ UNCHANGED <<pods, crr, svc, seen, sizeOf, budget>>

AIMasterCheckpoints ==
  /\ job.req # 0 /\ ~job.wound /\ job.done # job.req
  /\ Written([job EXCEPT !.done = job.req])
  /\ UNCHANGED <<pods, crr, svc, seen, sizeOf, budget>>

Evicted(p) ==
  /\ pods[p].up = "live" /\ budget.preempts > 0
  /\ pods' = [pods EXCEPT ![p].up = "dying"]
  /\ budget' = [budget EXCEPT !.preempts = @ - 1]
  /\ UNCHANGED <<job, crr, svc, seen, queued, worker, sizeOf>>

(* OnPodCreateFunc: at the first sight of a pod that is being deleted the  *)
(* new manager removes its protector.                                      *)
Crash ==
  /\ Fault
  /\ Removed({p \in Pods : pods[p].up = "dying"})
  /\ seen' = [pods |-> pods', crr |-> crr']
  /\ worker' = Idle /\ queued' = TRUE
  /\ UNCHANGED <<job, svc, sizeOf>>

-----------------------------------------------------------------------------
Init ==
  /\ job = [gen |-> 1, workers |-> InitWorkers, ready |-> FALSE, immediate |-> FALSE,
            inflight |-> FALSE, req |-> 0, wound |-> FALSE, done |-> 0]
  /\ pods = [p \in Pods |-> IF InRange(job, p)
                            THEN [up |-> "live", gen |-> 1, ws |-> WorldSize(job), env |-> WorldSize(job)]
                            ELSE NoPod]
  /\ crr = [p \in Pods |-> NoCRR] /\ svc = 1
  /\ seen = [pods |-> pods, crr |-> crr]
  /\ queued = TRUE /\ worker = Idle
  /\ sizeOf = [g \in 1..MaxGen |-> IF g = 1 THEN WorldSize(job) ELSE 0]
  /\ budget = [scales |-> MaxScales, preempts |-> MaxPreempts, faults |-> MaxFaults, crrs |-> MaxFailedCRRs]

Worker ==
  \/ StartSync \/ SyncFails \/ CheckpointIfNecessary \/ cleanupVictimPods
  \/ increaseGenerationAndMarkAsSucceeded \/ ScaleDecision \/ refreshStaleService \/ MarkInflight
  \/ RestartMaster \/ RestartWorkers \/ FinishScale \/ ReconcilePods

Informers == \E p \in Pods : DeliverPod(p) \/ DeliverCRR(p)

Next ==
  \/ Worker \/ Informers \/ Resync
  \/ \E p \in Pods : ContainersRecreated(p) \/ ContainersFail(p) \/ Evicted(p)
  \/ \E n \in 0..MaxWorkers : AIMasterScales(n)
  \/ AIMasterReady \/ AIMasterCheckpoints \/ Crash

Spec == Init /\ [][Next]_vars

(***************************************************************************)
(* The manager, kruise and the AIMaster do what they are asked to.  Nobody *)
(* has to scale the job.                                                   *)
(***************************************************************************)
Fairness ==
  /\ WF_vars(Worker) /\ WF_vars(Informers) /\ WF_vars(Resync)
  /\ WF_vars(\E p \in Pods : ContainersRecreated(p))
  /\ WF_vars(AIMasterReady) /\ WF_vars(AIMasterCheckpoints)

FairSpec == Spec /\ Fairness

-----------------------------------------------------------------------------
(* Every variable keeps its type, and nothing is labelled with a generation *)
(* that the job has not reached.                                            *)
TypeOK ==
  /\ job \in Job /\ worker.job \in Job
  /\ pods \in [Pods -> Pod] /\ crr \in [Pods -> CRR] /\ svc \in 1..MaxGen
  /\ seen.pods \in [Pods -> Pod] /\ seen.crr \in [Pods -> CRR]
  /\ svc <= job.gen /\ \A p \in Pods : pods[p].gen <= job.gen /\ crr[p].gen <= job.gen

(***************************************************************************)
(* "controller guarantees that 'checkpoint-version' <= 'job generation'",  *)
(* and no answer runs ahead of the request, whatever is scaled meanwhile;  *)
(* nor does the label of any object run ahead of the job (TypeOK).         *)
(***************************************************************************)
CheckpointVersionIsBounded == TypeOK /\ job.done <= job.req /\ job.req <= job.gen

(***************************************************************************)
(* "Notify AIMaster to checkpoint and drain out victim pods after succeed":*)
(* a protected pod of the job leaves only when the requested checkpoint is *)
(* complete.  (A restart of the manager drops the protection.)             *)
(***************************************************************************)
VictimsLeaveAfterCheckpoint ==
  [][\A p \in Pods :
       /\ pods[p].up = "dying" /\ pods'[p].up = "none"
       /\ InRange(worker.job, p) /\ budget' = budget
       => job.req # 0 /\ job.done = job.req]_vars

(***************************************************************************)
(* "The order of the above steps cannot be reversed": a worker is brought  *)
(* to a generation only when the master it talks to is in it.  And "new    *)
(* world-size value will be assigned to restarted pod": a pod that is      *)
(* brought to a generation runs with the world size of that generation.    *)
(***************************************************************************)
RestartsAreInOrder ==
  [][\A p \in Pods : pods[p].up = "live" /\ pods'[p].up = "live" /\ pods[p].gen < pods'[p].gen =>
       /\ p # Master /\ pods[Master].up = "live" => pods[Master].gen >= pods'[p].gen
       /\ pods'[p].env = sizeOf[pods'[p].gen]]_vars

(***************************************************************************)
(* A round of scaling ends: the flag that starts it is taken back and the  *)
(* state is done, although completed pods may be miscounted, requests fail *)
(* and calls or the manager break in between.  (When the AIMaster is not a *)
(* replica, ReconcileJobs no longer enters scale once all pods are new.)   *)
(* Evicted pods are drained, and what the job asks for is running again.   *)
(***************************************************************************)
RoundsEnd ==
  /\ HasAIMaster => ((job.ready \/ job.immediate) ~> ~(job.ready \/ job.immediate \/ job.inflight))
  /\ \A p \in Pods : pods[p].up = "dying" ~> (pods[p].up = "live" \/ ~InRange(job, p))
=============================================================================
