--------------------------- MODULE ElasticProofs ---------------------------
(***************************************************************************)
(* Proofs about the elastic scaling of a PyTorchJob: versions of           *)
(* checkpoints stay within the generation of the job and victims leave     *)
(* only after their checkpoint, for any number of workers, rounds of       *)
(* scaling, evictions and faults.                                          *)
(***************************************************************************)
EXTENDS Elastic, FiniteSetTheorems, TLAPS

-----------------------------------------------------------------------------
(***************************************************************************)
(* The inductive invariant.                                                *)
(***************************************************************************)
PCs == {"idle", "checkpoint", "drain", "windup", "decide", "service", "mark", "master", "workers",
        "finish", "pods"}

WorkerType == [pc : PCs, job : Job, own : BOOLEAN, total : Nat, list : [Pods -> Pod]]
Budget == [scales : Nat, preempts : Nat, faults : Nat, crrs : Nat]

Typed ==
  /\ job \in Job /\ pods \in [Pods -> Pod] /\ crr \in [Pods -> CRR] /\ svc \in 1..MaxGen
  /\ seen \in [pods : [Pods -> Pod], crr : [Pods -> CRR]]
  /\ queued \in BOOLEAN /\ worker \in WorkerType /\ budget \in Budget

(* Nothing is labelled with a generation the job has not reached, and the  *)
(* worker's copy of the job is not newer than the job.                     *)
LabelsBounded ==
  /\ svc <= job.gen /\ worker.job.gen <= job.gen
  /\ \A p \in Pods : pods[p].gen <= job.gen /\ crr[p].gen <= job.gen

(* The versions of checkpoints: only the worker asks, so its copy has the  *)
(* request in force until it asks again, and an answer stays one.          *)
VersionsBounded ==
  /\ job.done <= job.req /\ job.req <= job.gen
  /\ At("checkpoint") => /\ worker.job.req = job.req /\ job.req <= worker.job.gen
                         /\ worker.job.done = worker.job.req => job.done = job.req
  /\ At("drain") => job.req # 0 /\ job.done = job.req

IInv == Typed /\ LabelsBounded /\ VersionsBounded

-----------------------------------------------------------------------------
(***************************************************************************)
(* Types.                                                                  *)
(***************************************************************************)
LEMMA Numbers == MaxWorkers \in Nat /\ MaxGen \in Nat \ {0} /\ Gens = 0..MaxGen /\ Master \in Pods
<1>1. /\ MaxWorkers \in Nat /\ MaxScales \in Nat /\ MaxPreempts \in Nat /\ MaxFailedCRRs \in Nat
  BY ElasticAssumption
<1>2. MaxGen \in Nat \ {0}
  BY <1>1 DEF MaxGen
<1> QED BY <1>1, <1>2 DEF Gens, Master, Pods

(* What is known of a job and its versions. *)
LEMMA JobFacts ==
  ASSUME NEW j \in Job
  PROVE  /\ j.gen \in 1..MaxGen /\ j.gen \in Gens /\ j.workers \in 0..MaxWorkers
         /\ j.req \in Gens /\ j.done \in Gens
         /\ j.ready \in BOOLEAN /\ j.immediate \in BOOLEAN /\ j.inflight \in BOOLEAN /\ j.wound \in BOOLEAN
         /\ WorldSize(j) \in 0..MaxWorkers + 1 /\ totalReplicas(j) \in Nat
<1>1. /\ j.gen \in 1..MaxGen /\ j.workers \in 0..MaxWorkers /\ j.req \in Gens /\ j.done \in Gens
      /\ j.ready \in BOOLEAN /\ j.immediate \in BOOLEAN /\ j.inflight \in BOOLEAN /\ j.wound \in BOOLEAN
  BY DEF Job
<1>2. WorldSize(j) \in 0..MaxWorkers + 1
  BY <1>1, Numbers DEF WorldSize
<1>3. totalReplicas(j) \in Nat
  BY <1>2, Numbers DEF totalReplicas
<1> QED BY <1>1, <1>2, <1>3, Numbers

(* Absent pods and requests. *)
LEMMA NothingType == NoPod \in Pod /\ NoCRR \in CRR /\ NoPod.gen = 0 /\ NoCRR.gen = 0
<1>1. 0 \in Gens /\ 0 \in 0..MaxWorkers + 1
  BY Numbers
<1> QED BY <1>1 DEF NoPod, NoCRR, Pod, CRR

(* The worker between two syncs. *)
LEMMA IdleType == Idle \in WorkerType /\ Idle.pc = "idle" /\ Idle.job.gen = 1
<1>1. 0 \in Gens /\ 1 \in 1..MaxGen /\ 0 \in 0..MaxWorkers
  BY Numbers
<1>2. [gen |-> 1, workers |-> 0, ready |-> FALSE, immediate |-> FALSE,
       inflight |-> FALSE, req |-> 0, wound |-> FALSE, done |-> 0] \in Job
  BY <1>1 DEF Job
<1>3. [p \in Pods |-> NoPod] \in [Pods -> Pod]
  BY NothingType
<1> QED BY <1>2, <1>3 DEF Idle, WorkerType, PCs

(* What moving the worker on changes. *)
LEMMA Gotos ==
  ASSUME worker \in WorkerType, NEW pc \in PCs, Goto(pc)
  PROVE  /\ worker' \in WorkerType /\ worker'.pc = pc /\ worker'.job = worker.job
         /\ worker'.list = worker.list
BY DEF Goto, WorkerType

(* What a write by the worker changes. *)
LEMMA Answers ==
  ASSUME worker \in WorkerType, NEW pc \in PCs, NEW j \in Job, Answer(j, pc)
  PROVE  /\ worker' \in WorkerType /\ worker'.pc = pc /\ worker'.job = j /\ worker'.list = worker.list
         /\ job' = j /\ queued' \in BOOLEAN
BY DEF Answer, WorkerType

(* What a write by someone else changes. *)
LEMMA Others ==
  ASSUME worker \in WorkerType, NEW j \in Job, Written(j)
  PROVE  /\ worker' \in WorkerType /\ worker'.pc = worker.pc /\ worker'.job = worker.job
         /\ worker'.list = worker.list /\ job' = j /\ queued' \in BOOLEAN
BY DEF Written, WorkerType, At

(* A fault is spent. *)
LEMMA Spends ==
  ASSUME budget \in Budget, Fault
  PROVE  budget' \in Budget /\ budget' # budget
<1>1. budget.faults \in Nat /\ budget.faults > 0 /\ budget' = [budget EXCEPT !.faults = budget.faults - 1]
  BY DEF Fault, Budget
<1>2. budget.faults - 1 \in Nat /\ budget.faults - 1 # budget.faults
  BY <1>1
<1>3. budget' \in Budget /\ budget'.faults = budget.faults - 1
  BY <1>1, <1>2 DEF Budget
<1> QED BY <1>2, <1>3

(* What the restart of a pod makes of it and of its request. *)
LEMMA Restarted ==
  ASSUME Typed, LabelsBounded, NEW p \in Pods
  PROVE  /\ restartStalePod(p).pod \in Pod /\ restartStalePod(p).pod.gen <= job.gen
         /\ restartStalePod(p).crr \in CRR /\ restartStalePod(p).crr.gen <= job.gen
         /\ pods[p].up # "none" => restartStalePod(p).pod.up # "none"
<1>1. /\ pods[p] \in Pod /\ crr[p] \in CRR /\ worker.job \in Job
      /\ pods[p].gen <= job.gen /\ crr[p].gen <= job.gen /\ worker.job.gen <= job.gen
  BY DEF Typed, LabelsBounded, WorkerType
<1>2. worker.job.gen \in Gens /\ WorldSize(worker.job) \in 0..MaxWorkers + 1 /\ job.gen \in 1..MaxGen
  BY <1>1, JobFacts DEF Typed
<1> DEFINE ws == [pods[p] EXCEPT !.ws = WorldSize(worker.job)]
           dy == [pods[p] EXCEPT !.up = "dying"]
           ge == [pods[p] EXCEPT !.gen = worker.job.gen]
           nw == [gen |-> worker.job.gen, phase |-> "recreating"]
<1>3. /\ ws \in Pod /\ ws.gen = pods[p].gen /\ ws.up = pods[p].up
      /\ dy \in Pod /\ dy.gen = pods[p].gen /\ dy.up = "dying"
      /\ ge \in Pod /\ ge.gen = worker.job.gen /\ ge.up = pods[p].up
  BY <1>1, <1>2 DEF Pod
<1>4. nw \in CRR /\ nw.gen = worker.job.gen
  BY <1>2 DEF CRR
<1>5. /\ restartStalePod(p).pod \in {pods[p], ws, dy, ge}
      /\ restartStalePod(p).crr \in {crr[p], nw, NoCRR}
  BY DEF restartStalePod
<1> HIDE DEF ws, dy, ge, nw
<1>6. 0 <= job.gen
  BY <1>2, Numbers
<1>7. restartStalePod(p).pod \in Pod /\ restartStalePod(p).pod.gen <= job.gen
  BY <1>1, <1>3, <1>5
<1>8. restartStalePod(p).crr \in CRR /\ restartStalePod(p).crr.gen <= job.gen
  BY <1>1, <1>4, <1>5, <1>6, NothingType
<1>9. pods[p].up # "none" => restartStalePod(p).pod.up # "none"
  BY <1>3, <1>5
<1> QED BY <1>7, <1>8, <1>9

-----------------------------------------------------------------------------
(***************************************************************************)
(* Preservation, in three parts: what leaves the job alone, what leaves    *)
(* pods and requests alone, and each action by one of the two.             *)
(***************************************************************************)
(* A step that does not write the job. *)
LEMMA JobStays ==
  ASSUME IInv, job' = job, pods' \in [Pods -> Pod], crr' \in [Pods -> CRR], svc' \in 1..MaxGen,
         seen' \in [pods : [Pods -> Pod], crr : [Pods -> CRR]],
         queued' \in BOOLEAN, worker' \in WorkerType, budget' \in Budget,
         svc' <= job.gen, worker'.job.gen <= job.gen,
         \A p \in Pods : pods'[p].gen <= job.gen /\ crr'[p].gen <= job.gen,
         worker' = worker \/ (worker'.pc = "checkpoint" => worker'.job = job),
         worker' = worker \/ (worker'.pc = "drain" => job.req # 0 /\ job.done = job.req)
  PROVE  IInv'
<1>1. Typed' /\ LabelsBounded'
  BY DEF IInv, Typed, LabelsBounded
<1>2. VersionsBounded'
  BY DEF IInv, VersionsBounded, At
<1> QED BY <1>1, <1>2 DEF IInv

(* A write of the job by the worker. *)
LEMMA WorkerWrites ==
  ASSUME IInv, NEW pc \in PCs \ {"checkpoint", "drain"}, NEW j \in Job, Answer(j, pc),
         UNCHANGED <<pods, crr, svc, seen>>, budget' \in Budget,
         job.gen <= j.gen, j.done <= j.req, j.req <= j.gen
  PROVE  IInv'
<1>1. worker \in WorkerType /\ job \in Job
  BY DEF IInv, Typed
<1>2. /\ worker' \in WorkerType /\ worker'.pc = pc /\ worker'.job = j
      /\ job' = j /\ queued' \in BOOLEAN
  BY <1>1, Answers
<1>3. job.gen \in Nat /\ j.gen \in Nat /\ j.gen <= j.gen
  BY <1>1, JobFacts, Numbers
<1>4. Typed'
  BY <1>2 DEF IInv, Typed
<1>5. svc \in Nat /\ \A p \in Pods : pods[p].gen \in Nat /\ crr[p].gen \in Nat
  BY SMTT(30), Numbers DEF IInv, Typed, Pod, CRR
<1>6. LabelsBounded'
  BY <1>2, <1>3, <1>5 DEF IInv, LabelsBounded
<1>7. VersionsBounded'
  BY <1>2 DEF VersionsBounded, At
<1> QED BY <1>4, <1>6, <1>7 DEF IInv

(* A write of the job by the AIMaster. *)
LEMMA AIMasterWrites ==
  ASSUME IInv, NEW j \in Job, Written(j), UNCHANGED <<pods, crr, svc, seen>>, budget' \in Budget,
         job.gen <= j.gen, j.req = job.req, j.done = job.done \/ j.done = j.req
  PROVE  IInv'
<1>1. worker \in WorkerType /\ job \in Job
  BY DEF IInv, Typed
<1>2. /\ worker' \in WorkerType /\ worker'.pc = worker.pc /\ worker'.job = worker.job
      /\ job' = j /\ queued' \in BOOLEAN
  BY <1>1, Others
<1>3. job.gen \in Nat /\ j.gen \in Nat /\ job.req \in Nat /\ worker.job.gen \in Nat
  BY SMTT(30), <1>1, JobFacts, Numbers DEF WorkerType
<1>4. Typed'
  BY <1>2 DEF IInv, Typed
<1>5. svc \in Nat /\ \A p \in Pods : pods[p].gen \in Nat /\ crr[p].gen \in Nat
  BY SMTT(30), Numbers DEF IInv, Typed, Pod, CRR
<1>6. LabelsBounded'
  BY <1>2, <1>3, <1>5 DEF IInv, LabelsBounded
<1>7. VersionsBounded'
  BY <1>2, <1>3 DEF IInv, VersionsBounded, At
<1> QED BY <1>4, <1>6, <1>7 DEF IInv

(* The types an unprimed state gives every step. *)
LEMMA Given ==
  ASSUME IInv
  PROVE  /\ job \in Job /\ pods \in [Pods -> Pod] /\ crr \in [Pods -> CRR] /\ svc \in 1..MaxGen
         /\ seen \in [pods : [Pods -> Pod], crr : [Pods -> CRR]] /\ queued \in BOOLEAN
         /\ worker \in WorkerType /\ worker.job \in Job /\ budget \in Budget
         /\ svc <= job.gen /\ worker.job.gen <= job.gen
         /\ \A p \in Pods : pods[p].gen <= job.gen /\ crr[p].gen <= job.gen
         /\ job.gen \in Nat /\ 1 <= job.gen /\ job.gen <= job.gen /\ Idle.job.gen <= job.gen
         /\ worker.job.gen \in 1..MaxGen
<1>1. job \in Job /\ worker.job \in Job
  BY DEF IInv, Typed, WorkerType
<1>2. job.gen \in Nat /\ 1 <= job.gen /\ job.gen <= job.gen /\ worker.job.gen \in 1..MaxGen
  BY <1>1, JobFacts, Numbers
<1> QED BY <1>1, <1>2, IdleType DEF IInv, Typed, LabelsBounded

(* StartSync copies the job. *)
LEMMA StartSyncKeeps == ASSUME IInv, StartSync PROVE IInv'
<1> USE Given
<1>1. totalReplicas(job) \in Nat
  BY JobFacts
<1>2. seen.pods \in [Pods -> Pod]
  OBVIOUS
<1>3. worker' \in WorkerType /\ worker'.pc = "checkpoint" /\ worker'.job = job
  BY <1>1, <1>2 DEF StartSync, WorkerType, PCs
<1> QED BY <1>3, JobStays DEF StartSync

(* SyncFails forgets it. *)
LEMMA SyncFailsKeeps == ASSUME IInv, SyncFails PROVE IInv'
<1> USE Given
<1>1. budget' \in Budget
  BY Spends DEF SyncFails
<1> QED BY <1>1, IdleType, JobStays DEF SyncFails

(* The worker asks for a checkpoint of its own generation, or goes on to drain when it has the answer. *)
LEMMA CheckpointKeeps == ASSUME IInv, CheckpointIfNecessary PROVE IInv'
<1> USE Given
<1>1. /\ At("checkpoint") /\ UNCHANGED <<pods, crr, svc, seen, budget>>
      /\ worker.job.req = job.req /\ job.req <= worker.job.gen /\ job.done <= job.req
      /\ worker.job.done = worker.job.req => job.done = job.req
  BY DEF CheckpointIfNecessary, IInv, VersionsBounded
<1>2. \/ Goto("decide") /\ UNCHANGED <<job, queued>>
      \/ Answer(CheckpointRequest(worker.job), "pods")
      \/ /\ CheckpointSettled(worker.job) /\ worker.job.req # 0
         /\ Goto("drain") /\ UNCHANGED <<job, queued>>
      \/ Goto("pods") /\ UNCHANGED <<job, queued>>
  BY DEF CheckpointIfNecessary
<1>3. ASSUME NEW pc \in {"decide", "pods"}, Goto(pc), UNCHANGED <<job, queued>> PROVE IInv'
  <2>1. /\ worker' \in WorkerType /\ worker'.pc = pc /\ worker'.job = worker.job
    BY <1>3, Gotos DEF PCs
  <2> QED BY <1>1, <1>3, <2>1, JobStays
<1>4. CASE Answer(CheckpointRequest(worker.job), "pods")
  <2> DEFINE j == CheckpointRequest(worker.job)
  <2>0. worker.job.gen \in Gens
    BY JobFacts
  <2>1. j \in Job /\ j.gen = job.gen /\ j.done = job.done /\ j.req = worker.job.gen
    BY <2>0 DEF CheckpointRequest, Job
  <2>2. job.done \in Nat /\ job.req \in Nat /\ worker.job.gen \in Nat
    BY JobFacts, Numbers
  <2>3. job.gen <= j.gen /\ j.done <= j.req /\ j.req <= j.gen
    BY <1>1, <2>1, <2>2
  <2>4. "pods" \in PCs \ {"checkpoint", "drain"}
    BY DEF PCs
  <2> HIDE DEF j
  <2>5. Answer(j, "pods")
    BY <1>4 DEF j
  <2> QED BY <1>1, <2>1, <2>3, <2>4, <2>5, WorkerWrites
<1>5. CASE /\ CheckpointSettled(worker.job) /\ worker.job.req # 0
           /\ Goto("drain") /\ UNCHANGED <<job, queued>>
  <2>1. /\ worker' \in WorkerType /\ worker'.pc = "drain" /\ worker'.job = worker.job
    BY <1>5, Gotos DEF PCs
  <2>2. job.req # 0 /\ job.done = job.req
    BY <1>1, <1>5 DEF CheckpointSettled
  <2> QED BY <1>1, <1>5, <2>1, <2>2, JobStays
<1> QED BY <1>2, <1>3, <1>4, <1>5

(* Removing pods keeps what the labels say. *)
LEMMA RemovedKeeps ==
  ASSUME IInv, NEW gone, Removed(gone)
  PROVE  /\ pods' \in [Pods -> Pod] /\ crr' \in [Pods -> CRR]
         /\ \A p \in Pods : pods'[p].gen <= job.gen /\ crr'[p].gen <= job.gen
<1> USE Given, NothingType
<1>1. pods' \in [Pods -> Pod] /\ crr' \in [Pods -> CRR]
  BY DEF Removed
<1>2. ASSUME NEW p \in Pods PROVE pods'[p].gen <= job.gen /\ crr'[p].gen <= job.gen
  BY DEF Removed
<1> QED BY <1>1, <1>2

(* Draining writes no version. *)
LEMMA CleanupKeeps == ASSUME IInv, cleanupVictimPods PROVE IInv'
<1> USE Given
<1>1. worker' \in WorkerType /\ worker'.pc = "windup" /\ worker'.job = worker.job
  BY Gotos DEF PCs, cleanupVictimPods
<1>2. /\ pods' \in [Pods -> Pod] /\ crr' \in [Pods -> CRR]
      /\ \A p \in Pods : pods'[p].gen <= job.gen /\ crr'[p].gen <= job.gen
  BY RemovedKeeps DEF cleanupVictimPods
<1> QED BY <1>1, <1>2, JobStays DEF cleanupVictimPods

(* The generation grows. *)
LEMMA IncreaseKeeps == ASSUME IInv, increaseGenerationAndMarkAsSucceeded PROVE IInv'
<1> USE Given
<1>1. UNCHANGED <<pods, crr, svc, seen>>
  BY DEF increaseGenerationAndMarkAsSucceeded
<1>2. CASE /\ job.gen < MaxGen /\ UNCHANGED budget
           /\ Answer([job EXCEPT !.gen = @ + 1, !.wound = TRUE, !.ready = TRUE], "decide")
  <2> DEFINE j == [job EXCEPT !.gen = @ + 1, !.wound = TRUE, !.ready = TRUE]
  <2>1. job.gen + 1 \in 1..MaxGen
    BY <1>2, Numbers
  <2>2. j \in Job /\ j.gen = job.gen + 1 /\ j.done = job.done /\ j.req = job.req
    BY <2>1 DEF Job
  <2>3. job.done \in Nat /\ job.req \in Nat /\ job.done <= job.req /\ job.req <= job.gen
    BY JobFacts, Numbers DEF IInv, VersionsBounded
  <2>4. "decide" \in PCs \ {"checkpoint", "drain"}
    BY DEF PCs
  <2> HIDE DEF j
  <2>5. job.gen <= j.gen /\ j.done <= j.req /\ j.req <= j.gen
    BY <2>2, <2>3
  <2>6. Answer(j, "decide")
    BY <1>2 DEF j
  <2> QED BY <1>1, <1>2, <2>2, <2>4, <2>5, <2>6, WorkerWrites
<1>3. CASE /\ ~worker.own \/ budget.faults > 0
           /\ budget' = IF worker.own THEN [budget EXCEPT !.faults = @ - 1] ELSE budget
           /\ Goto("pods") /\ UNCHANGED <<job, queued>>
  <2>1. worker' \in WorkerType /\ worker'.pc = "pods" /\ worker'.job = worker.job
    BY <1>3, Gotos DEF PCs
  <2>2. worker.own \in BOOLEAN
    BY DEF WorkerType
  <2>3. CASE worker.own
    <3>1. Fault
      BY <1>3, <2>3 DEF Fault
    <3> QED BY <1>1, <1>3, <2>1, <3>1, Spends, JobStays
  <2>4. CASE ~worker.own
    <3>1. budget' = budget
      BY <1>3, <2>4
    <3> QED BY <1>1, <1>3, <2>1, <3>1, JobStays
  <2> QED BY <2>2, <2>3, <2>4
<1> QED BY <1>2, <1>3 DEF increaseGenerationAndMarkAsSucceeded

(* The decision only looks. *)
LEMMA DecisionKeeps == ASSUME IInv, ScaleDecision PROVE IInv'
<1> USE Given
<1> DEFINE active == NumReplicasForLatestGeneration(worker.list, worker.job.gen)
           short == [p \in Pods |-> IF worker.total > active \/ InRange(worker.job, p)
                                    THEN worker.list[p] ELSE NoPod]
<1>1. worker' \in {[worker EXCEPT !.pc = "pods"], [worker EXCEPT !.pc = "service", !.list = short]}
  BY DEF ScaleDecision, WorkerType
<1>2. short \in [Pods -> Pod]
  BY NothingType DEF WorkerType
<1> HIDE DEF short
<1>3. worker' \in WorkerType /\ worker'.pc \in {"pods", "service"} /\ worker'.job = worker.job
  BY <1>1, <1>2 DEF WorkerType, PCs
<1> QED BY <1>3, JobStays DEF ScaleDecision

(* The service gets the generation of the worker's copy. *)
LEMMA ServiceKeeps == ASSUME IInv, refreshStaleService PROVE IInv'
<1> USE Given
<1>1. PICK pc \in {"mark", "pods"} : Goto(pc)
  BY DEF refreshStaleService
<1>2. worker' \in WorkerType /\ worker'.pc = pc /\ worker'.job = worker.job
  BY <1>1, Gotos DEF PCs
<1> QED BY <1>2, JobStays DEF refreshStaleService

(* The mark changes no version. *)
LEMMA MarkKeeps == ASSUME IInv, MarkInflight PROVE IInv'
<1> USE Given
<1>1. CASE Answer([job EXCEPT !.inflight = TRUE], "master")
  <2> DEFINE j == [job EXCEPT !.inflight = TRUE]
  <2>1. j \in Job /\ j.gen = job.gen /\ j.done = job.done /\ j.req = job.req
    BY DEF Job
  <2>2. job.done <= job.req /\ job.req <= job.gen
    BY DEF IInv, VersionsBounded
  <2>3. "master" \in PCs \ {"checkpoint", "drain"}
    BY DEF PCs
  <2> HIDE DEF j
  <2>4. Answer(j, "master") /\ UNCHANGED <<pods, crr, svc, seen, budget>>
    BY <1>1 DEF j, MarkInflight
  <2> QED BY <2>1, <2>2, <2>3, <2>4, WorkerWrites
<1>2. CASE Goto("master") /\ UNCHANGED <<job, queued>>
  <2>1. worker' \in WorkerType /\ worker'.pc = "master" /\ worker'.job = worker.job
    BY <1>2, Gotos DEF PCs
  <2> QED BY <1>2, <2>1, JobStays DEF MarkInflight
<1> QED BY <1>1, <1>2 DEF MarkInflight

(* Restarting pods keeps what the labels say. *)
LEMMA RestartKeeps ==
  ASSUME IInv, NEW set, NEW interrupted, Restart(set, interrupted)
  PROVE  /\ pods' \in [Pods -> Pod] /\ crr' \in [Pods -> CRR]
         /\ \A p \in Pods : pods'[p].gen <= job.gen /\ crr'[p].gen <= job.gen
<1> USE Given
<1>0. Typed /\ LabelsBounded
  BY DEF IInv
<1>1. \A p \in Pods : /\ restartStalePod(p).pod \in Pod /\ restartStalePod(p).pod.gen <= job.gen
                      /\ restartStalePod(p).crr \in CRR /\ restartStalePod(p).crr.gen <= job.gen
  BY <1>0, Restarted
<1>2. pods' \in [Pods -> Pod] /\ crr' \in [Pods -> CRR]
  BY <1>1 DEF Restart
<1>3. ASSUME NEW p \in Pods PROVE pods'[p].gen <= job.gen /\ crr'[p].gen <= job.gen
  BY <1>1 DEF Restart
<1> QED BY <1>2, <1>3

(* RestartMaster. *)
LEMMA RestartMasterKeeps == ASSUME IInv, RestartMaster PROVE IInv'
<1> USE Given
<1>0. UNCHANGED <<job, svc, seen>>
  BY DEF RestartMaster
<1>1. CASE /\ Restart({Master}, {}) /\ UNCHANGED <<queued, budget>>
           /\ Goto(AfterMaster(restartStalePod(Master).completed))
  <2>1. PICK pc \in {"workers", "pods"} : Goto(pc)
    BY <1>1 DEF AfterMaster
  <2>2. worker' \in WorkerType /\ worker'.pc = pc /\ worker'.job = worker.job
    BY <2>1, Gotos DEF PCs
  <2> QED BY <1>0, <1>1, <2>2, RestartKeeps, JobStays
<1>2. CASE Fault /\ Restart({Master}, {Master}) /\ worker' = Idle /\ queued' = TRUE
  BY <1>0, <1>2, RestartKeeps, Spends, IdleType, JobStays
<1>3. CASE Goto("workers") /\ UNCHANGED <<pods, crr, queued, budget>>
  <2>1. worker' \in WorkerType /\ worker'.pc = "workers" /\ worker'.job = worker.job
    BY <1>3, Gotos DEF PCs
  <2> QED BY <1>0, <1>3, <2>1, JobStays
<1> QED BY <1>1, <1>2, <1>3 DEF RestartMaster

(* RestartWorkers. *)
LEMMA RestartWorkersKeeps == ASSUME IInv, RestartWorkers PROVE IInv'
<1> USE Given
<1>1. PICK interrupted \in SUBSET StaleWorkers :
        /\ Cardinality(interrupted) <= budget.faults
        /\ budget' = [budget EXCEPT !.faults = @ - Cardinality(interrupted)]
        /\ Restart(StaleWorkers, interrupted)
        /\ Goto("finish") \/ Goto("pods")
  BY DEF RestartWorkers
<1>2. Cardinality(interrupted) \in Nat
  <2>1. IsFiniteSet(0..MaxWorkers)
    BY Numbers, FS_Interval
  <2>2. interrupted \subseteq 0..MaxWorkers
    BY DEF StaleWorkers, Pods
  <2> QED BY <2>1, <2>2, FS_Subset, FS_CardinalityType
<1>3. budget.faults - Cardinality(interrupted) \in Nat
  BY <1>1, <1>2 DEF Budget
<1>4. budget' \in Budget
  BY <1>1, <1>3 DEF Budget
<1>5. PICK pc \in {"finish", "pods"} : Goto(pc)
  BY <1>1
<1>6. worker' \in WorkerType /\ worker'.pc = pc /\ worker'.job = worker.job
  BY <1>5, Gotos DEF PCs
<1>7. UNCHANGED <<job, svc, seen, queued>>
  BY DEF RestartWorkers
<1> QED BY <1>1, <1>4, <1>6, <1>7, RestartKeeps, JobStays

(* FinishScale changes no version. *)
LEMMA FinishKeeps == ASSUME IInv, FinishScale PROVE IInv'
<1> USE Given
<1> DEFINE j == [job EXCEPT !.ready = FALSE, !.inflight = FALSE,
                            !.immediate = @ /\ ~worker.job.immediate]
<1>1. (job.immediate /\ ~worker.job.immediate) \in BOOLEAN
  OBVIOUS
<1>2. j \in Job /\ j.gen = job.gen /\ j.done = job.done /\ j.req = job.req
  BY <1>1 DEF Job
<1>3. job.done <= job.req /\ job.req <= job.gen
  BY DEF IInv, VersionsBounded
<1>4. "pods" \in PCs \ {"checkpoint", "drain"}
  BY DEF PCs
<1>5. Answer(j, "pods") /\ UNCHANGED <<pods, crr, svc, seen, budget>>
  BY DEF FinishScale
<1> HIDE DEF j
<1> QED BY <1>2, <1>3, <1>4, <1>5, WorkerWrites

(* ReconcilePods labels new pods with the generation of the worker's copy. *)
LEMMA ReconcileKeeps == ASSUME IInv, ReconcilePods PROVE IInv'
<1> USE Given
<1>1. NewPod(worker.job) \in Pod /\ NewPod(worker.job).gen = worker.job.gen
  BY JobFacts DEF NewPod, Pod
<1>2. /\ pods' \in [Pods -> Pod] /\ crr' \in [Pods -> CRR]
  BY <1>1, NothingType DEF ReconcilePods
<1>3. ASSUME NEW p \in Pods PROVE pods'[p].gen <= job.gen /\ crr'[p].gen <= job.gen
  BY <1>1, NothingType DEF ReconcilePods
<1> QED BY <1>2, <1>3, IdleType, JobStays DEF ReconcilePods

(* The informers copy. *)
LEMMA InformersKeep == ASSUME IInv, Informers PROVE IInv'
<1> USE Given
<1>1. PICK p \in Pods : DeliverPod(p) \/ DeliverCRR(p)
  BY DEF Informers
<1>2. seen' \in [pods : [Pods -> Pod], crr : [Pods -> CRR]]
  BY <1>1 DEF DeliverPod, DeliverCRR
<1>3. UNCHANGED <<job, pods, crr, svc, worker, budget>> /\ queued' \in BOOLEAN
  BY <1>1 DEF DeliverPod, DeliverCRR
<1> QED BY <1>2, <1>3, JobStays

(* Resync only queues the key. *)
LEMMA ResyncKeeps == ASSUME IInv, Resync PROVE IInv'
BY Given, JobStays DEF Resync

(* A request and a pod that change without a new label. *)
LEMMA ContainersKeep ==
  ASSUME IInv, NEW p \in Pods, ContainersRecreated(p) \/ ContainersFail(p)
  PROVE  IInv'
<1> USE Given
<1>1. /\ UNCHANGED <<job, svc, seen, queued, worker>>
      /\ \E phase \in {"succeeded", "failed"} : crr' = [crr EXCEPT ![p].phase = phase]
  BY DEF ContainersRecreated, ContainersFail
<1>2. crr' \in [Pods -> CRR] /\ \A q \in Pods : crr'[q].gen = crr[q].gen
  BY <1>1 DEF CRR
<1>3. pods' \in [Pods -> Pod] /\ \A q \in Pods : pods'[q].gen = pods[q].gen
  <2>1. CASE ContainersRecreated(p)
    <3>1. pods[p].ws \in 0..MaxWorkers + 1 /\ pods' = [pods EXCEPT ![p].env = pods[p].ws]
      BY <2>1 DEF ContainersRecreated, Pod
    <3> QED BY <3>1 DEF Pod
  <2>2. CASE ContainersFail(p)
    BY <2>2 DEF ContainersFail
  <2> QED BY <2>1, <2>2
<1>4. budget' \in Budget
  <2>1. CASE ContainersFail(p)
    <3>1. budget.crrs - 1 \in Nat /\ budget' = [budget EXCEPT !.crrs = budget.crrs - 1]
      BY <2>1 DEF ContainersFail, Budget
    <3> QED BY <3>1 DEF Budget
  <2>2. CASE ContainersRecreated(p)
    BY <2>2 DEF ContainersRecreated
  <2> QED BY <2>1, <2>2
<1>5. \A q \in Pods : pods'[q].gen <= job.gen /\ crr'[q].gen <= job.gen
  BY <1>2, <1>3
<1> QED BY <1>1, <1>2, <1>3, <1>4, <1>5, JobStays

(* An eviction is spent. *)
LEMMA EvictedKeeps == ASSUME IInv, NEW p \in Pods, Evicted(p) PROVE IInv' /\ budget' # budget
<1> USE Given
<1>1. pods' \in [Pods -> Pod] /\ \A q \in Pods : pods'[q].gen = pods[q].gen
  BY DEF Evicted, Pod
<1>2. budget.preempts \in Nat /\ budget.preempts - 1 \in Nat
  BY DEF Evicted, Budget
<1>3. budget' \in Budget /\ budget'.preempts = budget.preempts - 1
  BY <1>2 DEF Evicted, Budget
<1>4. \A q \in Pods : pods'[q].gen <= job.gen /\ crr'[q].gen <= job.gen
  BY <1>1 DEF Evicted
<1>5. UNCHANGED <<job, crr, svc, seen, queued, worker>>
  BY DEF Evicted
<1>6. IInv'
  BY <1>1, <1>3, <1>4, <1>5, JobStays
<1>7. budget' # budget
  BY <1>2, <1>3
<1> QED BY <1>6, <1>7

(* The AIMaster asks for another number of workers. *)
LEMMA ScalesKeeps == ASSUME IInv, NEW n \in 0..MaxWorkers, AIMasterScales(n) PROVE IInv'
<1> USE Given
<1> DEFINE j == [job EXCEPT !.workers = n, !.gen = @ + 1]
<1>1. job.gen + 1 \in 1..MaxGen
  BY Numbers DEF AIMasterScales
<1>2. j \in Job /\ j.gen = job.gen + 1 /\ j.done = job.done /\ j.req = job.req
  BY <1>1 DEF Job
<1>3. budget.scales - 1 \in Nat /\ budget' = [budget EXCEPT !.scales = budget.scales - 1]
  BY DEF AIMasterScales, Budget
<1>4. budget' \in Budget
  BY <1>3 DEF Budget
<1>5. Written(j) /\ UNCHANGED <<pods, crr, svc, seen>>
  BY DEF AIMasterScales
<1> HIDE DEF j
<1>6. job.gen <= j.gen
  BY <1>2
<1> QED BY <1>2, <1>4, <1>5, <1>6, AIMasterWrites

(* The AIMaster lets workers restart. *)
LEMMA ReadyKeeps == ASSUME IInv, AIMasterReady PROVE IInv'
<1> USE Given
<1>1. PICK j \in {[job EXCEPT !.ready = TRUE], [job EXCEPT !.immediate = TRUE]} : Written(j)
  BY DEF AIMasterReady
<1>2. j \in Job /\ j.gen = job.gen /\ j.done = job.done /\ j.req = job.req
  BY DEF Job
<1> QED BY <1>1, <1>2, AIMasterWrites DEF AIMasterReady

(* The AIMaster answers the request in force. *)
LEMMA CheckpointsKeeps == ASSUME IInv, AIMasterCheckpoints PROVE IInv'
<1> USE Given
<1> DEFINE j == [job EXCEPT !.done = job.req]
<1>1. job.req \in Gens
  BY JobFacts
<1>2. j \in Job /\ j.gen = job.gen /\ j.done = j.req /\ j.req = job.req
  BY <1>1 DEF Job
<1>3. Written(j) /\ UNCHANGED <<pods, crr, svc, seen, budget>>
  BY DEF AIMasterCheckpoints
<1> HIDE DEF j
<1> QED BY <1>2, <1>3, AIMasterWrites

(* A crash ends the sync. *)
LEMMA CrashKeeps == ASSUME IInv, Crash PROVE IInv'
<1> USE Given
<1>1. /\ pods' \in [Pods -> Pod] /\ crr' \in [Pods -> CRR]
      /\ \A p \in Pods : pods'[p].gen <= job.gen /\ crr'[p].gen <= job.gen
  BY RemovedKeeps DEF Crash
<1>2. seen' \in [pods : [Pods -> Pod], crr : [Pods -> CRR]]
  BY <1>1 DEF Crash
<1>3. budget' \in Budget
  BY Spends DEF Crash
<1> QED BY <1>1, <1>2, <1>3, IdleType, JobStays DEF Crash

-----------------------------------------------------------------------------
(***************************************************************************)
(* The theorems.                                                           *)
(***************************************************************************)
(* A new job is in the first generation and no checkpoint was asked for. *)
LEMMA InitHolds == Init => IInv
<1> SUFFICES ASSUME Init PROVE IInv
  OBVIOUS
<1> USE Numbers, NothingType, IdleType
<1>1. InitWorkers \in 0..MaxWorkers /\ 1 \in 1..MaxGen /\ 1 \in Gens /\ 0 \in Gens
  BY ElasticAssumption
<1>2. job \in Job /\ job.gen = 1 /\ job.req = 0 /\ job.done = 0
  BY <1>1 DEF Init, Job
<1>3. WorldSize(job) \in 0..MaxWorkers + 1
  BY <1>2, JobFacts
<1>4. [up |-> "live", gen |-> 1, ws |-> WorldSize(job), env |-> WorldSize(job)] \in Pod
  BY <1>1, <1>3 DEF Pod
<1>5. pods \in [Pods -> Pod] /\ \A p \in Pods : pods[p].gen <= 1
  <2>1. ASSUME NEW p \in Pods PROVE pods[p] \in Pod /\ pods[p].gen <= 1
    BY <1>4 DEF Init
  <2> QED BY <2>1 DEF Init
<1>6. crr \in [Pods -> CRR] /\ \A p \in Pods : crr[p].gen <= 1
  BY DEF Init
<1>7. budget \in Budget
  BY ElasticAssumption DEF Init, Budget
<1>8. seen \in [pods : [Pods -> Pod], crr : [Pods -> CRR]]
  BY <1>5, <1>6 DEF Init
<1>9. Typed
  BY <1>1, <1>2, <1>5, <1>6, <1>7, <1>8 DEF Typed, Init
<1>10. LabelsBounded
  BY <1>2, <1>5, <1>6 DEF LabelsBounded, Init
<1>11. VersionsBounded
  BY <1>2 DEF VersionsBounded, Init, At
<1> QED BY <1>9, <1>10, <1>11 DEF IInv

(* Every step keeps the invariant. *)
LEMMA StepKeeps == IInv /\ [Next]_vars => IInv'
<1> SUFFICES ASSUME IInv, [Next]_vars PROVE IInv'
  OBVIOUS
<1>1. CASE Worker
  BY <1>1, StartSyncKeeps, SyncFailsKeeps, CheckpointKeeps, CleanupKeeps, IncreaseKeeps, DecisionKeeps,
     ServiceKeeps, MarkKeeps, RestartMasterKeeps, RestartWorkersKeeps, FinishKeeps, ReconcileKeeps
     DEF Worker
<1>2. CASE \E p \in Pods : ContainersRecreated(p) \/ ContainersFail(p) \/ Evicted(p)
  BY <1>2, ContainersKeep, EvictedKeeps
<1>3. CASE \E n \in 0..MaxWorkers : AIMasterScales(n)
  BY <1>3, ScalesKeeps
<1>4. CASE UNCHANGED vars
  BY <1>4, Given, JobStays DEF vars
<1> QED BY <1>1, <1>2, <1>3, <1>4, InformersKeep, ResyncKeeps, ReadyKeeps, CheckpointsKeeps, CrashKeeps
        DEF Next

(* The invariant holds throughout. *)
LEMMA Invariance == Spec => []IInv
BY InitHolds, StepKeeps, PTL DEF Spec

(***************************************************************************)
(* Whatever is scaled, evicted, interrupted or lost, the checkpoint that   *)
(* was answered is not newer than the one asked for, that one not newer    *)
(* than the job, and no label runs ahead of the job's generation.          *)
(***************************************************************************)
THEOREM VersionsHold == Spec => []CheckpointVersionIsBounded
<1>1. IInv => CheckpointVersionIsBounded
  <2> SUFFICES ASSUME IInv PROVE CheckpointVersionIsBounded
    OBVIOUS
  <2>1. TypeOK
    BY Given DEF TypeOK
  <2> QED BY <2>1 DEF IInv, VersionsBounded, CheckpointVersionIsBounded
<1> QED BY <1>1, Invariance, PTL

(* Who takes a protected pod away. *)
LEMMA VictimsLeave ==
  ASSUME IInv, Next, NEW p \in Pods, pods[p].up = "dying", pods'[p].up = "none",
         InRange(worker.job, p), budget' = budget
  PROVE  job.req # 0 /\ job.done = job.req
<1> USE Given
<1>0. pods' # pods
  OBVIOUS
<1>1. CASE cleanupVictimPods
  BY <1>1 DEF cleanupVictimPods, IInv, VersionsBounded
<1>2. ASSUME NEW set, NEW interrupted, Restart(set, interrupted) PROVE FALSE
  <2>1. restartStalePod(p).pod.up # "none"
    BY Restarted DEF IInv
  <2>2. pods'[p] \in {restartStalePod(p).pod, pods[p]}
    BY <1>2 DEF Restart
  <2> QED BY <2>1, <2>2
<1>3. CASE RestartMaster \/ RestartWorkers
  BY <1>0, <1>2, <1>3 DEF RestartMaster, RestartWorkers
<1>4. CASE ReconcilePods
  <2>1. pods'[p] \in {NewPod(worker.job), pods[p]}
    BY <1>4 DEF ReconcilePods
  <2> QED BY <2>1 DEF NewPod
<1>5. CASE Crash
  BY <1>5, Spends DEF Crash
<1>6. ASSUME NEW q \in Pods, ContainersRecreated(q) PROVE FALSE
  <2>1. pods'[p].up = pods[p].up
    BY <1>6 DEF ContainersRecreated, Pod
  <2> QED BY <2>1
<1>7. ASSUME NEW q \in Pods, Evicted(q) PROVE FALSE
  BY <1>7, EvictedKeeps
<1>8. CASE /\ Worker /\ ~cleanupVictimPods /\ ~RestartMaster /\ ~RestartWorkers /\ ~ReconcilePods
  BY <1>0, <1>8 DEF Worker, StartSync, SyncFails, CheckpointIfNecessary, ScaleDecision,
       increaseGenerationAndMarkAsSucceeded, refreshStaleService, MarkInflight, FinishScale
<1>9. CASE Informers \/ Resync \/ AIMasterReady \/ AIMasterCheckpoints
  BY <1>0, <1>9 DEF Informers, DeliverPod, DeliverCRR, Resync, AIMasterReady, AIMasterCheckpoints
<1>10. CASE (\E n \in 0..MaxWorkers : AIMasterScales(n)) \/ \E q \in Pods : ContainersFail(q)
  BY <1>0, <1>10 DEF AIMasterScales, ContainersFail
<1> QED BY <1>1, <1>3, <1>4, <1>5, <1>6, <1>7, <1>8, <1>9, <1>10 DEF Next, Worker

(***************************************************************************)
(* A protected pod of the job leaves only when the requested checkpoint is *)
(* complete: between the two nothing the AIMaster, kruise, the informers   *)
(* or a failing call does can take the answer back.                        *)
(***************************************************************************)
THEOREM VictimsWait == Spec => VictimsLeaveAfterCheckpoint
<1>1. IInv /\ [Next]_vars =>
        [\A p \in Pods :
           /\ pods[p].up = "dying" /\ pods'[p].up = "none"
           /\ InRange(worker.job, p) /\ budget' = budget
           => job.req # 0 /\ job.done = job.req]_vars
  BY VictimsLeave
<1> QED BY <1>1, Invariance, PTL DEF Spec, VictimsLeaveAfterCheckpoint

-----------------------------------------------------------------------------
(***************************************************************************)
(* The order of restarts, when a sync starts from a cache that is up to    *)
(* date.  The inductive invariant is IInv and the parts below.             *)
(***************************************************************************)
(* The generation whose requests the next restart looks at. *)
Current == IF At("idle") THEN job.gen ELSE worker.job.gen

(* The job, and the worker's copy of it, ask for the size of their         *)
(* generation.                                                             *)
SizesTold ==
  /\ sizeOf \in [1..MaxGen -> Nat] /\ sizeOf[job.gen] = WorldSize(job)
  /\ ~At("idle") => sizeOf[worker.job.gen] = WorldSize(worker.job)

(* A request belongs to a pod and to a generation the worker knows; one of *)
(* the current generation was made for a pod that is annotated with its    *)
(* size, and its containers, once recreated, run with it.                  *)
RequestTold(p) ==
  /\ pods[p].up = "none" => crr[p] = NoCRR
  /\ ~At("idle") => crr[p].gen <= worker.job.gen
  /\ crr[p].gen = Current =>
       /\ pods[p].ws = sizeOf[Current]
       /\ crr[p].phase = "succeeded" => pods[p].env = pods[p].ws

(* The sync has not written to p yet. *)
Unvisited(p) ==
  \/ worker.pc \in {"checkpoint", "drain", "windup", "decide", "service", "mark", "master"}
  \/ At("workers") /\ p # Master

(* What the worker knows of such a pod and of its request. *)
Known(p) ==
  Unvisited(p) /\ pods[p].up # "none" =>
    /\ p = Master => worker.list[p].up # "none"
    /\ worker.list[p].up # "none" =>
         /\ worker.list[p].gen = pods[p].gen /\ worker.list[p].ws = pods[p].ws
         /\ worker.list[p].up = "dying" => pods[p].up = "dying"
    /\ seen.crr[p].gen = crr[p].gen
    /\ seen.crr[p].phase = "succeeded" => crr[p].phase = "succeeded"

(* Workers are restarted once the master is in the generation, or not live. *)
MasterTells == At("workers") /\ pods[Master].up = "live" => pods[Master].gen >= worker.job.gen

OrderInv == SizesTold /\ MasterTells /\ \A p \in Pods : RequestTold(p) /\ Known(p)

-----------------------------------------------------------------------------
(***************************************************************************)
(* One pod at a time.                                                      *)
(***************************************************************************)
LEMMA CurrentFacts ==
  ASSUME IInv
  PROVE  Current \in 1..MaxGen /\ Current <= job.gen /\ Current # 0
BY Given, JobFacts DEF Current

(* A later generation asks about none of the requests there are. *)
LEMMA StillTold ==
  ASSUME IInv, IInv', NEW p \in Pods, RequestTold(p), pods'[p] = pods[p], crr'[p] = crr[p],
         Current <= Current', Current' = Current => sizeOf'[Current] = sizeOf[Current]
  PROVE  RequestTold(p)'
<1>0. job' \in Job /\ worker'.job \in Job /\ crr[p] \in CRR
  BY DEF IInv, Typed, WorkerType
<1>1. Current \in Nat /\ Current' \in Nat /\ crr[p].gen \in Nat
  <2>1. job'.gen \in Nat /\ worker'.job.gen \in Nat
    BY <1>0, JobFacts, Numbers
  <2>2. Current' \in Nat
    BY <2>1 DEF Current
  <2> QED BY <1>0, <2>2, CurrentFacts, Numbers DEF CRR
<1>2. crr[p].gen <= Current
  BY Given DEF RequestTold, Current
<1>3. CASE Current' = Current
  <2>1. worker'.pc # "idle" => crr[p].gen <= worker'.job.gen
    BY <1>2, <1>3 DEF Current, At
  <2> QED BY <1>3, <2>1 DEF RequestTold, At
<1>4. CASE Current' # Current
  <2>0. ASSUME NEW a \in Nat, NEW b \in Nat, NEW c \in Nat, a <= b, b <= c, b # c PROVE a < c
    BY <2>0
  <2>1. crr'[p].gen < Current'
    BY <1>1, <1>2, <1>4, <2>0
  <2>2. worker'.pc # "idle" => crr'[p].gen <= worker'.job.gen
    BY <1>1, <2>1 DEF Current, At
  <2>3. crr'[p].gen # Current'
    BY <1>1, <2>1
  <2> QED BY <2>2, <2>3 DEF RequestTold, At
<1> QED BY <1>3, <1>4

(* The ways out of restartStalePod. *)
Way(p, r) ==
  LET there == pods[p].up # "none" /\ worker.list[p].ws = WorldSize(worker.job)
  IN  \/ r.pod = pods[p] /\ r.crr = crr[p] /\ worker.list[p].up = "dying"
      \/ r.pod = pods[p] /\ r.crr = crr[p] /\ r.completed = FALSE
      \/ /\ pods[p].up # "none" /\ worker.list[p].ws # WorldSize(worker.job)
         /\ r.pod = [pods[p] EXCEPT !.ws = WorldSize(worker.job)]
         /\ r.crr = crr[p] /\ r.completed = FALSE
      \/ /\ there /\ r.pod = pods[p] /\ r.completed = FALSE
         /\ r.crr = [gen |-> worker.job.gen, phase |-> "recreating"]
      \/ there /\ r.pod = [pods[p] EXCEPT !.up = "dying"] /\ r.crr = crr[p]
      \/ /\ there /\ seen.crr[p].gen = worker.job.gen /\ seen.crr[p].phase = "succeeded"
         /\ r.pod = [pods[p] EXCEPT !.gen = worker.job.gen] /\ r.crr = NoCRR

(* What a restart must leave behind: a pod that moves to the generation    *)
(* runs with its size, and so will one with a request of the generation.   *)
Right(p, r) ==
  /\ r.crr.gen <= worker.job.gen
  /\ pods[p].up = "none" => r.pod.up = "none" /\ r.crr = NoCRR
  /\ r.crr.gen = worker.job.gen => \A q \in {r.pod, pods[p]} :
       /\ q.ws = sizeOf[worker.job.gen]
       /\ r.crr.phase = "succeeded" => q.env = q.ws
  /\ r.pod.gen # pods[p].gen => r.pod.gen = worker.job.gen /\ r.pod.env = sizeOf[worker.job.gen]
  /\ r.completed = TRUE => r.pod.up # "live" \/ r.pod.gen = worker.job.gen

(* restartStalePod takes one of the ways. *)
LEMMA Branches == ASSUME NEW p \in Pods PROVE Way(p, restartStalePod(p))
BY DEF Way, restartStalePod, RestartDone

(* From what the worker knows, each way is right. *)
LEMMA RestartTells ==
  ASSUME IInv, OrderInv, ~At("idle"), NEW p \in Pods, Unvisited(p), worker.list[p].up # "none",
         NEW r, Way(p, r)
  PROVE  Right(p, r)
<1> USE Given
<1>1. /\ Current = worker.job.gen /\ worker.job.gen \in Nat \ {0}
      /\ sizeOf[worker.job.gen] = WorldSize(worker.job)
      /\ RequestTold(p) /\ Known(p)
  BY DEF OrderInv, SizesTold, Current
<1>2. /\ pods[p].up = "none" => crr[p] = NoCRR
      /\ crr[p].gen <= worker.job.gen
      /\ crr[p].gen = worker.job.gen =>
            /\ pods[p].ws = WorldSize(worker.job)
            /\ crr[p].phase = "succeeded" => pods[p].env = pods[p].ws
  BY <1>1 DEF RequestTold
<1>3. pods[p].up # "none" =>
        /\ worker.list[p].ws = pods[p].ws
        /\ worker.list[p].up = "dying" => pods[p].up = "dying"
        /\ seen.crr[p].gen = crr[p].gen
        /\ seen.crr[p].phase = "succeeded" => crr[p].phase = "succeeded"
  BY <1>1 DEF Known
<1>4. pods[p] \in Pod /\ crr[p] \in CRR
  OBVIOUS
<1>5. CASE r.pod = pods[p] /\ r.crr = crr[p] /\ worker.list[p].up = "dying"
  <2>1. pods[p].up # "live"
    BY <1>3, <1>5
  <2> QED BY <1>1, <1>2, <1>5, <2>1 DEF Right
<1>6. CASE r.pod = pods[p] /\ r.crr = crr[p] /\ r.completed = FALSE
  BY <1>1, <1>2, <1>6 DEF Right
<1>7. CASE /\ pods[p].up # "none" /\ worker.list[p].ws # WorldSize(worker.job)
           /\ r.pod = [pods[p] EXCEPT !.ws = WorldSize(worker.job)]
           /\ r.crr = crr[p] /\ r.completed = FALSE
  <2>1. crr[p].gen # worker.job.gen
    BY <1>2, <1>3, <1>7
  <2>2. r.pod.gen = pods[p].gen
    BY <1>4, <1>7 DEF Pod
  <2> QED BY <1>2, <1>7, <2>1, <2>2 DEF Right
<1> DEFINE there == pods[p].up # "none" /\ worker.list[p].ws = WorldSize(worker.job)
<1>8. CASE /\ there /\ r.pod = pods[p] /\ r.completed = FALSE
           /\ r.crr = [gen |-> worker.job.gen, phase |-> "recreating"]
  <2>1. r.crr.gen = worker.job.gen /\ r.crr.phase = "recreating" /\ worker.job.gen <= worker.job.gen
    BY <1>1, <1>8
  <2> QED BY <1>1, <1>3, <1>8, <2>1 DEF Right
<1>9. CASE there /\ r.pod = [pods[p] EXCEPT !.up = "dying"] /\ r.crr = crr[p]
  <2>1. /\ r.pod.gen = pods[p].gen /\ r.pod.ws = pods[p].ws /\ r.pod.env = pods[p].env
        /\ r.pod.up = "dying"
    BY <1>4, <1>9 DEF Pod
  <2> QED BY <1>1, <1>2, <1>9, <2>1 DEF Right
<1>10. CASE /\ there /\ seen.crr[p].gen = worker.job.gen /\ seen.crr[p].phase = "succeeded"
            /\ r.pod = [pods[p] EXCEPT !.gen = worker.job.gen] /\ r.crr = NoCRR
  <2>1. r.pod.gen = worker.job.gen /\ r.pod.env = pods[p].env
    BY <1>4, <1>10 DEF Pod
  <2>2. r.crr.gen = 0 /\ 0 <= worker.job.gen
    BY <1>1, <1>10, NothingType
  <2>3. pods[p].env = sizeOf[worker.job.gen]
    BY <1>1, <1>2, <1>3, <1>10
  <2> QED BY <1>1, <1>10, <2>1, <2>2, <2>3 DEF Right
<1> QED BY <1>5, <1>6, <1>7, <1>8, <1>9, <1>10 DEF Way

(* A restart keeps what is said of the request of a pod, also when its     *)
(* last call fails, and when the sync ends with it.                        *)
LEMMA RestartKeepsTold ==
  ASSUME IInv, OrderInv, ~At("idle"), NEW p \in Pods, NEW r, Right(p, r),
         pods'[p] \in {r.pod, pods[p]}, crr'[p] = r.crr, r.pod.up = "none" => pods[p].up = "none",
         sizeOf' = sizeOf, job' = job, worker' = Idle \/ (worker'.job = worker.job /\ worker'.pc # "idle")
  PROVE  RequestTold(p)'
<1> USE Given
<1>1. pods'[p].up = "none" => crr'[p] = NoCRR
  BY DEF Right
<1>2. crr'[p].gen <= worker.job.gen
  BY DEF Right
<1>3. worker'.pc # "idle" => crr'[p].gen <= worker'.job.gen
  BY <1>2, IdleType
<1>4. crr'[p].gen = Current' => crr'[p].gen = worker.job.gen /\ Current' = worker.job.gen
  <2>1. Current' \in {job.gen, worker.job.gen}
    BY IdleType DEF Current, At
  <2>2. ASSUME NEW c, c = crr'[p].gen, c \in {job.gen, worker.job.gen} PROVE c = worker.job.gen
    BY <1>2, <2>2, Numbers
  <2> QED BY <2>1, <2>2
<1>5. crr'[p].gen = worker.job.gen =>
        /\ pods'[p].ws = sizeOf[worker.job.gen]
        /\ crr'[p].phase = "succeeded" => pods'[p].env = pods'[p].ws
  BY DEF Right
<1> QED BY <1>1, <1>3, <1>4, <1>5 DEF RequestTold, At

(* A step that leaves pods and requests alone. *)
LEMMA Quiet ==
  ASSUME IInv, IInv', OrderInv, UNCHANGED <<pods, crr>>, SizesTold', MasterTells',
         Current <= Current', Current' = Current => sizeOf'[Current] = sizeOf[Current],
         \A p \in Pods : seen'.crr[p] \in {seen.crr[p], crr[p]},
         \A p \in Pods : Unvisited(p)' =>
           /\ Unvisited(p)
           /\ worker'.list[p] = worker.list[p] \/ (p # Master /\ worker'.list[p].up = "none")
  PROVE  OrderInv'
<1>1. ASSUME NEW p \in Pods PROVE RequestTold(p)'
  BY StillTold DEF OrderInv
<1>2. ASSUME NEW p \in Pods PROVE Known(p)'
  <2>1. CASE ~Unvisited(p)' \/ pods[p].up = "none"
    BY <2>1 DEF Known
  <2>2. CASE Unvisited(p)' /\ pods[p].up # "none"
    <3>1. Known(p) /\ Unvisited(p)
      BY <2>2 DEF OrderInv
    <3>2. /\ seen'.crr[p].gen = crr[p].gen
          /\ seen'.crr[p].phase = "succeeded" => crr[p].phase = "succeeded"
      BY <2>2, <3>1 DEF Known
    <3> QED BY <2>2, <3>1, <3>2 DEF Known
  <2> QED BY <2>1, <2>2
<1> QED BY <1>1, <1>2 DEF OrderInv

(* The worker goes on with the copy of the job it has. *)
LEMMA MovesOn ==
  ASSUME IInv, IInv', OrderInv, ~At("idle"), UNCHANGED <<pods, crr, seen, job, sizeOf>>,
         worker'.pc # "idle", worker'.job = worker.job, MasterTells',
         \A p \in Pods : Unvisited(p)' =>
           /\ Unvisited(p)
           /\ worker'.list[p] = worker.list[p] \/ (p # Master /\ worker'.list[p].up = "none")
  PROVE  OrderInv'
<1>1. Current' = Current /\ Current \in Nat
  BY CurrentFacts, Numbers DEF Current, At
<1>2. SizesTold'
  BY DEF OrderInv, SizesTold, At
<1> QED BY <1>1, <1>2, Quiet

(* The sync ends. *)
LEMMA Ends ==
  ASSUME IInv, IInv', OrderInv, UNCHANGED <<pods, crr, seen, job, sizeOf>>, worker' = Idle
  PROVE  OrderInv'
<1>1. Current' = job.gen /\ Current <= Current'
  BY CurrentFacts, IdleType DEF Current, At
<1>2. SizesTold' /\ MasterTells' /\ \A p \in Pods : ~Unvisited(p)'
  BY IdleType DEF OrderInv, SizesTold, MasterTells, Unvisited, At
<1> QED BY <1>1, <1>2, Quiet

(* A job is written, and sizes of later generations with it. *)
LEMMA NewSizes ==
  ASSUME IInv, IInv', OrderInv, UNCHANGED <<pods, crr, seen>>,
         job.gen <= job'.gen,
         sizeOf' \in [1..MaxGen -> Nat], sizeOf'[job'.gen] = WorldSize(job'),
         \A g \in 1..MaxGen : g <= job.gen => sizeOf'[g] = sizeOf[g],
         worker'.list = worker.list, \A p \in Pods : Unvisited(p)' => Unvisited(p),
         \/ /\ worker'.job = job' /\ ~At("idle") /\ worker'.pc \notin {"idle", "workers"}
         \/ worker'.job = worker.job /\ worker'.pc = worker.pc
  PROVE  OrderInv'
<1>0. job' \in Job /\ job'.gen \in Nat
  <2>1. job' \in Job
    BY DEF IInv, Typed
  <2> QED BY <2>1, JobFacts, Numbers
<1>1. Current <= Current'
  BY <1>0, Given, CurrentFacts DEF Current, At
<1>2. SizesTold'
  BY Given, JobFacts DEF OrderInv, SizesTold, At
<1>3. Current' = Current => sizeOf'[Current] = sizeOf[Current]
  BY CurrentFacts
<1>4. MasterTells'
  BY DEF OrderInv, MasterTells, At
<1> QED BY <1>1, <1>2, <1>3, <1>4, Quiet

(* A job is written that asks for the same number of workers. *)
LEMMA SameSizes ==
  ASSUME IInv, IInv', OrderInv, UNCHANGED <<pods, crr, seen, sizeOf>>,
         job'.gen = job.gen, job'.workers = job.workers,
         worker'.list = worker.list, \A p \in Pods : Unvisited(p)' => Unvisited(p),
         \/ /\ worker'.job = job' /\ ~At("idle") /\ worker'.pc \notin {"idle", "workers"}
         \/ worker'.job = worker.job /\ worker'.pc = worker.pc
  PROVE  OrderInv'
<1>1. sizeOf \in [1..MaxGen -> Nat] /\ sizeOf'[job'.gen] = WorldSize(job') /\ job.gen <= job'.gen
  BY Given DEF OrderInv, SizesTold, WorldSize
<1> QED BY <1>1, NewSizes

(* Nothing is left of a pod that is gone. *)
LEMMA Gone ==
  ASSUME IInv', NEW p \in Pods, pods'[p].up = "none", crr'[p] = NoCRR
  PROVE  RequestTold(p)' /\ Known(p)'
<1>1. job' \in Job /\ worker'.job \in Job
  BY DEF IInv, Typed, WorkerType
<1>2. job'.gen \in Nat \ {0} /\ worker'.job.gen \in Nat \ {0}
  BY <1>1, JobFacts, Numbers
<1>3. crr'[p].gen = 0 /\ Current' # 0 /\ 0 <= worker'.job.gen
  BY <1>2, NothingType DEF Current
<1> QED BY <1>3 DEF RequestTold, Known

-----------------------------------------------------------------------------
(***************************************************************************)
(* The order, action by action.                                            *)
(***************************************************************************)
LEMMA StartSyncOrders == ASSUME IInv, IInv', OrderInv, ~CacheLags, StartSync PROVE OrderInv'
<1>1. /\ At("idle") /\ worker'.pc = "checkpoint" /\ worker'.job = job /\ worker'.list = seen.pods
      /\ UNCHANGED <<job, pods, crr, seen, sizeOf>> /\ seen.pods = pods /\ seen.crr = crr
  BY DEF StartSync
<1>2. Current' = Current /\ Current <= Current'
  BY <1>1, CurrentFacts, Numbers DEF Current, At
<1>3. SizesTold' /\ MasterTells'
  BY <1>1 DEF OrderInv, SizesTold, MasterTells, At
<1>4. ASSUME NEW p \in Pods PROVE RequestTold(p)'
  BY <1>1, <1>2, StillTold DEF OrderInv
<1>5. ASSUME NEW p \in Pods PROVE Known(p)'
  BY <1>1 DEF Known
<1> QED BY <1>3, <1>4, <1>5 DEF OrderInv

(* SyncFails. *)
LEMMA SyncFailsOrders == ASSUME IInv, IInv', OrderInv, SyncFails PROVE OrderInv'
BY Ends DEF SyncFails

(* CheckpointIfNecessary. *)
LEMMA CheckpointOrders == ASSUME IInv, IInv', OrderInv, CheckpointIfNecessary PROVE OrderInv'
<1> USE Given
<1>1. At("checkpoint") /\ UNCHANGED <<pods, crr, seen, sizeOf>>
  BY DEF CheckpointIfNecessary
<1>2. \A p \in Pods : Unvisited(p)
  BY <1>1 DEF Unvisited, At
<1>3. ASSUME NEW pc \in {"decide", "pods", "drain"}, Goto(pc), UNCHANGED job PROVE OrderInv'
  <2>1. worker'.pc = pc /\ worker'.job = worker.job /\ worker'.list = worker.list
    BY <1>3, Gotos DEF PCs
  <2>2. MasterTells' /\ worker'.pc # "idle" /\ ~At("idle")
    BY <1>1, <2>1 DEF MasterTells, At
  <2> QED BY <1>1, <1>2, <1>3, <2>1, <2>2, MovesOn
<1>4. CASE Answer(CheckpointRequest(worker.job), "pods")
  <2>0. worker.job.gen \in Gens
    BY JobFacts
  <2>1. /\ CheckpointRequest(worker.job) \in Job /\ CheckpointRequest(worker.job).gen = job.gen
        /\ CheckpointRequest(worker.job).workers = job.workers
    BY <2>0 DEF CheckpointRequest, Job
  <2>2. worker'.pc = "pods" /\ worker'.job = job' /\ worker'.list = worker.list
    BY <1>4, <2>1, Answers DEF PCs
  <2>3. job' = CheckpointRequest(worker.job)
    BY <1>4 DEF Answer
  <2>4. ~At("idle") /\ worker'.pc \notin {"idle", "workers"}
    BY <1>1, <2>2 DEF At
  <2> QED BY <1>1, <1>2, <2>1, <2>2, <2>3, <2>4, SameSizes
<1> QED BY <1>3, <1>4 DEF CheckpointIfNecessary

(* increaseGenerationAndMarkAsSucceeded: no request is of the new generation. *)
LEMMA IncreaseOrders ==
  ASSUME IInv, IInv', OrderInv, increaseGenerationAndMarkAsSucceeded PROVE OrderInv'
<1> USE Given
<1>1. At("windup") /\ UNCHANGED <<pods, crr, svc, seen>> /\ ~At("idle")
  BY DEF increaseGenerationAndMarkAsSucceeded, At
<1>2. \A p \in Pods : Unvisited(p)
  BY <1>1 DEF Unvisited, At
<1>3. CASE /\ job.gen < MaxGen /\ sizeOf' = [sizeOf EXCEPT ![job.gen + 1] = WorldSize(job)]
           /\ Answer([job EXCEPT !.gen = @ + 1, !.wound = TRUE, !.ready = TRUE], "decide")
  <2> DEFINE j == [job EXCEPT !.gen = @ + 1, !.wound = TRUE, !.ready = TRUE]
  <2>1. job.gen + 1 \in 1..MaxGen
    BY <1>3, Numbers
  <2>2. j \in Job /\ j.gen = job.gen + 1 /\ j.workers = job.workers
    BY <2>1 DEF Job
  <2> HIDE DEF j
  <2>3. Answer(j, "decide")
    BY <1>3 DEF j
  <2>4. worker'.pc = "decide" /\ worker'.job = job' /\ worker'.list = worker.list /\ job' = j
    BY <2>2, <2>3, Answers DEF PCs
  <2>5. sizeOf \in [1..MaxGen -> Nat] /\ WorldSize(job) \in Nat /\ WorldSize(j) = WorldSize(job)
    <3>1. sizeOf \in [1..MaxGen -> Nat]
      BY DEF OrderInv, SizesTold
    <3>2. job \in Job
      BY DEF IInv, Typed
    <3>3. WorldSize(job) \in Nat
      BY <3>2, JobFacts, Numbers
    <3>4. WorldSize(j) = WorldSize(job)
      BY <2>2 DEF WorldSize
    <3> QED BY <3>1, <3>3, <3>4
  <2>6. /\ sizeOf' \in [1..MaxGen -> Nat] /\ sizeOf'[job'.gen] = WorldSize(job')
        /\ \A g \in 1..MaxGen : g <= job.gen => sizeOf'[g] = sizeOf[g]
    BY <1>3, <2>1, <2>2, <2>4, <2>5, Numbers
  <2>7. job.gen <= job'.gen
    BY <2>2, <2>4
  <2> QED BY <1>1, <1>2, <2>4, <2>6, <2>7, NewSizes
<1>4. CASE Goto("pods") /\ UNCHANGED <<job, sizeOf>>
  <2>1. worker'.pc = "pods" /\ worker'.job = worker.job /\ worker'.list = worker.list
    BY <1>4, Gotos DEF PCs
  <2>2. MasterTells' /\ worker'.pc # "idle"
    BY <2>1 DEF MasterTells, At
  <2> QED BY <1>1, <1>2, <1>4, <2>1, <2>2, MovesOn
<1> QED BY <1>3, <1>4 DEF increaseGenerationAndMarkAsSucceeded

(* ScaleDecision keeps the master in the list. *)
LEMMA DecisionOrders == ASSUME IInv, IInv', OrderInv, ScaleDecision PROVE OrderInv'
<1> USE Given
<1>1. At("decide") /\ UNCHANGED <<job, pods, crr, seen, sizeOf>> /\ ~At("idle")
  BY DEF ScaleDecision, At
<1> DEFINE active == NumReplicasForLatestGeneration(worker.list, worker.job.gen)
           short == [p \in Pods |-> IF worker.total > active \/ InRange(worker.job, p)
                                    THEN worker.list[p] ELSE NoPod]
<1>2. worker' \in {[worker EXCEPT !.pc = "pods"], [worker EXCEPT !.pc = "service", !.list = short]}
  BY DEF ScaleDecision, WorkerType
<1>3. InRange(worker.job, Master)
  BY JobFacts, Numbers DEF InRange, Master
<1>4. \A p \in Pods : short[p] = worker.list[p] \/ (p # Master /\ short[p].up = "none")
  BY <1>3 DEF NoPod
<1> HIDE DEF short
<1>5. /\ worker'.pc \in {"pods", "service"} /\ worker'.job = worker.job
      /\ worker'.list \in {worker.list, short}
  BY <1>2 DEF WorkerType
<1>6. \A p \in Pods : Unvisited(p)
  BY <1>1 DEF Unvisited, At
<1>7. MasterTells' /\ worker'.pc # "idle"
  BY <1>5 DEF MasterTells, At
<1> QED BY <1>1, <1>4, <1>5, <1>6, <1>7, MovesOn

(* refreshStaleService. *)
LEMMA ServiceOrders == ASSUME IInv, IInv', OrderInv, refreshStaleService PROVE OrderInv'
<1> USE Given
<1>1. At("service") /\ UNCHANGED <<job, pods, crr, seen, sizeOf>> /\ ~At("idle")
  BY DEF refreshStaleService, At
<1>2. PICK pc \in {"mark", "pods"} : Goto(pc)
  BY DEF refreshStaleService
<1>3. worker'.pc = pc /\ worker'.job = worker.job /\ worker'.list = worker.list
  BY <1>2, Gotos DEF PCs
<1>4. \A p \in Pods : Unvisited(p)
  BY <1>1 DEF Unvisited, At
<1>5. MasterTells' /\ worker'.pc # "idle"
  BY <1>3 DEF MasterTells, At
<1> QED BY <1>1, <1>3, <1>4, <1>5, MovesOn

(* MarkInflight: the answer may have a later generation. *)
LEMMA MarkOrders == ASSUME IInv, IInv', OrderInv, MarkInflight PROVE OrderInv'
<1> USE Given
<1>1. At("mark") /\ UNCHANGED <<pods, crr, seen, sizeOf>> /\ ~At("idle")
  BY DEF MarkInflight, At
<1>2. \A p \in Pods : Unvisited(p)
  BY <1>1 DEF Unvisited, At
<1>3. CASE Answer([job EXCEPT !.inflight = TRUE], "master")
  <2> DEFINE j == [job EXCEPT !.inflight = TRUE]
  <2>1. j \in Job /\ j.gen = job.gen /\ j.workers = job.workers
    BY DEF Job
  <2> HIDE DEF j
  <2>2. Answer(j, "master")
    BY <1>3 DEF j
  <2>3. worker'.pc = "master" /\ worker'.job = job' /\ worker'.list = worker.list /\ job' = j
    BY <2>1, <2>2, Answers DEF PCs
  <2> QED BY <1>1, <1>2, <2>1, <2>3, SameSizes
<1>4. CASE Goto("master") /\ UNCHANGED job
  <2>1. worker'.pc = "master" /\ worker'.job = worker.job /\ worker'.list = worker.list
    BY <1>4, Gotos DEF PCs
  <2>2. MasterTells' /\ worker'.pc # "idle"
    BY <2>1 DEF MasterTells, At
  <2> QED BY <1>1, <1>2, <1>4, <2>1, <2>2, MovesOn
<1> QED BY <1>3, <1>4 DEF MarkInflight

(* FinishScale. *)
LEMMA FinishOrders == ASSUME IInv, IInv', OrderInv, FinishScale PROVE OrderInv'
<1> USE Given
<1> DEFINE j == [job EXCEPT !.ready = FALSE, !.inflight = FALSE,
                            !.immediate = @ /\ ~worker.job.immediate]
<1>0. (job.immediate /\ ~worker.job.immediate) \in BOOLEAN
  OBVIOUS
<1>1. j \in Job /\ j.gen = job.gen /\ j.workers = job.workers
  BY <1>0 DEF Job
<1>2. At("finish") /\ UNCHANGED <<pods, crr, seen, sizeOf>> /\ ~At("idle") /\ Answer(j, "pods")
  BY DEF FinishScale, At
<1> HIDE DEF j
<1>3. worker'.pc = "pods" /\ worker'.job = job' /\ worker'.list = worker.list /\ job' = j
  BY <1>1, <1>2, Answers DEF PCs
<1>4. \A p \in Pods : ~Unvisited(p)'
  BY <1>3 DEF Unvisited, At
<1> QED BY <1>1, <1>2, <1>3, <1>4, SameSizes

(* AIMasterScales: no request is of the new generation. *)
LEMMA ScalesOrders ==
  ASSUME IInv, IInv', OrderInv, NEW n \in 0..MaxWorkers, AIMasterScales(n) PROVE OrderInv'
<1> USE Given
<1> DEFINE j == [job EXCEPT !.workers = n, !.gen = @ + 1]
<1>1. job.gen + 1 \in 1..MaxGen /\ n \in Nat
  BY Numbers DEF AIMasterScales
<1>2. j \in Job /\ j.gen = job.gen + 1 /\ j.workers = n
  BY <1>1 DEF Job
<1>3. /\ Written(j) /\ UNCHANGED <<pods, crr, seen>>
      /\ sizeOf' = [sizeOf EXCEPT ![job.gen + 1] = n + 1]
  BY DEF AIMasterScales
<1> HIDE DEF j
<1>4. worker'.pc = worker.pc /\ worker'.job = worker.job /\ worker'.list = worker.list /\ job' = j
  BY <1>2, <1>3, Others
<1>5. sizeOf \in [1..MaxGen -> Nat] /\ WorldSize(j) = n + 1
  BY <1>2 DEF OrderInv, SizesTold, WorldSize
<1>6. /\ sizeOf' \in [1..MaxGen -> Nat] /\ sizeOf'[job'.gen] = WorldSize(job')
      /\ \A g \in 1..MaxGen : g <= job.gen => sizeOf'[g] = sizeOf[g]
  BY SMTT(30), <1>1, <1>2, <1>3, <1>4, <1>5, Numbers
<1>7. job.gen <= job'.gen /\ \A p \in Pods : Unvisited(p)' => Unvisited(p)
  BY <1>2, <1>4 DEF Unvisited, At
<1> QED BY <1>3, <1>4, <1>6, <1>7, NewSizes

(* The AIMaster's flags and answers. *)
LEMMA AIMasterOrders ==
  ASSUME IInv, IInv', OrderInv, AIMasterReady \/ AIMasterCheckpoints PROVE OrderInv'
<1> USE Given
<1>1. PICK j \in {[job EXCEPT !.ready = TRUE], [job EXCEPT !.immediate = TRUE],
                  [job EXCEPT !.done = job.req]} : Written(j)
  BY DEF AIMasterReady, AIMasterCheckpoints
<1>2. job.req \in Gens
  BY JobFacts
<1>3. j \in Job /\ j.gen = job.gen /\ j.workers = job.workers
  BY <1>2 DEF Job
<1>4. worker'.pc = worker.pc /\ worker'.job = worker.job /\ worker'.list = worker.list /\ job' = j
  BY <1>1, <1>3, Others
<1>5. UNCHANGED <<pods, crr, seen, sizeOf>>
  BY DEF AIMasterReady, AIMasterCheckpoints
<1>6. \A p \in Pods : Unvisited(p)' => Unvisited(p)
  BY <1>4 DEF Unvisited, At
<1> QED BY <1>3, <1>4, <1>5, <1>6, SameSizes

(* The informers copy requests, and a request is not taken back. *)
LEMMA InformersOrder ==
  ASSUME IInv, IInv', OrderInv, Informers \/ Resync \/ UNCHANGED vars PROVE OrderInv'
<1> USE Given
<1>1. UNCHANGED <<job, pods, crr, worker, sizeOf>>
  BY DEF Informers, DeliverPod, DeliverCRR, Resync, vars
<1>2. ASSUME NEW p \in Pods PROVE seen'.crr[p] \in {seen.crr[p], crr[p]}
  <2>1. CASE Resync \/ UNCHANGED vars
    BY <2>1 DEF Resync, vars
  <2>2. CASE Informers
    <3>1. PICK q \in Pods : DeliverPod(q) \/ DeliverCRR(q)
      BY <2>2 DEF Informers
    <3> QED BY <3>1 DEF DeliverPod, DeliverCRR
  <2> QED BY <2>1, <2>2
<1>3. Current' = Current /\ Current \in Nat /\ SizesTold' /\ MasterTells'
  BY <1>1, CurrentFacts, Numbers DEF Current, At, OrderInv, SizesTold, MasterTells
<1>4. \A p \in Pods : Unvisited(p)' => Unvisited(p)
  BY <1>1 DEF Unvisited, At
<1> QED BY <1>1, <1>2, <1>3, <1>4, Quiet

(* cleanupVictimPods. *)
LEMMA CleanupOrders == ASSUME IInv, IInv', OrderInv, cleanupVictimPods PROVE OrderInv'
<1> USE Given
<1> DEFINE gone == filterVictimPods(worker.list)
<1>1. At("drain") /\ UNCHANGED <<job, seen, sizeOf>> /\ Removed(gone) /\ ~At("idle")
  BY DEF cleanupVictimPods, At
<1> HIDE DEF gone
<1>2. worker'.pc = "windup" /\ worker'.job = worker.job /\ worker'.list = worker.list
  BY Gotos DEF PCs, cleanupVictimPods
<1>3. Current' = Current /\ Current \in Nat /\ SizesTold' /\ MasterTells'
  BY <1>1, <1>2, CurrentFacts, Numbers DEF Current, At, OrderInv, SizesTold, MasterTells
<1>4. ASSUME NEW p \in Pods PROVE RequestTold(p)' /\ Known(p)'
  <2>1. CASE p \in gone
    BY <1>1, <2>1, Gone DEF Removed, NoPod
  <2>2. CASE p \notin gone
    <3>1. pods'[p] = pods[p] /\ crr'[p] = crr[p]
      BY <1>1, <2>2 DEF Removed
    <3>2. RequestTold(p)'
      BY <1>1, <1>3, <3>1, StillTold DEF OrderInv
    <3>3. Known(p)'
      BY <1>1, <1>2, <3>1 DEF OrderInv, Known, Unvisited, At
    <3> QED BY <3>2, <3>3
  <2> QED BY <2>1, <2>2
<1> QED BY <1>3, <1>4 DEF OrderInv

(* A pod that is replaced had no request. *)
LEMMA ReconcileOrders == ASSUME IInv, IInv', OrderInv, ReconcilePods PROVE OrderInv'
<1> USE Given
<1>1. UNCHANGED <<job, sizeOf>> /\ worker' = Idle
  BY DEF ReconcilePods
<1>2. Current' = job.gen /\ Current <= Current' /\ SizesTold' /\ MasterTells'
  BY <1>1, CurrentFacts, IdleType DEF Current, At, OrderInv, SizesTold, MasterTells
<1>3. ASSUME NEW p \in Pods PROVE Known(p)'
  BY <1>1, IdleType DEF Known, Unvisited, At
<1>4. ASSUME NEW p \in Pods PROVE RequestTold(p)'
  <2>1. \/ pods'[p] = NoPod /\ crr'[p] = NoCRR
        \/ pods'[p] = NewPod(worker.job) /\ pods[p].up = "none" /\ crr'[p] = crr[p]
        \/ pods'[p] = pods[p] /\ crr'[p] = crr[p]
    BY DEF ReconcilePods
  <2>2. CASE pods'[p] = NoPod /\ crr'[p] = NoCRR
    BY <2>2, Gone DEF NoPod
  <2>3. CASE pods'[p] = NewPod(worker.job) /\ pods[p].up = "none" /\ crr'[p] = crr[p]
    <3>1. crr'[p] = NoCRR
      BY <2>3 DEF OrderInv, RequestTold
    <3>2. crr'[p].gen = 0 /\ Current' # 0
      BY <1>2, <3>1, NothingType
    <3> QED BY <1>1, <3>1, <3>2, IdleType DEF RequestTold, At
  <2>4. CASE pods'[p] = pods[p] /\ crr'[p] = crr[p]
    BY <1>1, <1>2, <2>4, StillTold DEF OrderInv
  <2> QED BY <2>1, <2>2, <2>3, <2>4
<1> QED BY <1>2, <1>3, <1>4 DEF OrderInv

(* Crash. *)
LEMMA CrashOrders == ASSUME IInv, IInv', OrderInv, Crash PROVE OrderInv'
<1> USE Given
<1> DEFINE gone == {p \in Pods : pods[p].up = "dying"}
<1>1. UNCHANGED <<job, sizeOf>> /\ worker' = Idle /\ Removed(gone)
  BY DEF Crash
<1> HIDE DEF gone
<1>2. Current' = job.gen /\ Current <= Current' /\ SizesTold' /\ MasterTells'
  BY <1>1, CurrentFacts, IdleType DEF Current, At, OrderInv, SizesTold, MasterTells
<1>3. ASSUME NEW p \in Pods PROVE Known(p)'
  BY <1>1, IdleType DEF Known, Unvisited, At
<1>4. ASSUME NEW p \in Pods PROVE RequestTold(p)'
  <2>1. CASE p \in gone
    BY <1>1, <2>1, Gone DEF Removed, NoPod
  <2>2. CASE p \notin gone
    <3>1. pods'[p] = pods[p] /\ crr'[p] = crr[p]
      BY <1>1, <2>2 DEF Removed
    <3> QED BY <1>1, <1>2, <3>1, StillTold DEF OrderInv
  <2> QED BY <2>1, <2>2
<1> QED BY <1>2, <1>3, <1>4 DEF OrderInv

(* Kruise and evictions touch one pod; its labels stay. *)
LEMMA PodOrders ==
  ASSUME IInv, IInv', OrderInv, NEW q \in Pods, ContainersRecreated(q) \/ ContainersFail(q) \/ Evicted(q)
  PROVE  OrderInv'
<1> USE Given
<1>1. UNCHANGED <<job, seen, worker, sizeOf>>
  BY DEF ContainersRecreated, ContainersFail, Evicted
<1>2. Current' = Current /\ Current <= Current' /\ SizesTold'
  BY <1>1, CurrentFacts, Numbers DEF Current, At, OrderInv, SizesTold
<1>3. \A p \in Pods : p # q => pods'[p] = pods[p] /\ crr'[p] = crr[p]
  BY DEF ContainersRecreated, ContainersFail, Evicted
<1>4. \/ /\ crr[q].phase = "recreating" /\ crr'[q] = [crr[q] EXCEPT !.phase = "succeeded"]
         /\ pods'[q] = [pods[q] EXCEPT !.env = pods[q].ws]
      \/ /\ crr[q].phase = "recreating" /\ crr'[q] = [crr[q] EXCEPT !.phase = "failed"]
         /\ pods'[q] = pods[q]
      \/ /\ pods[q].up = "live" /\ pods'[q] = [pods[q] EXCEPT !.up = "dying"] /\ crr'[q] = crr[q]
  BY DEF ContainersRecreated, ContainersFail, Evicted
<1>5. pods[q] \in Pod /\ crr[q] \in CRR
  OBVIOUS
<1>6. /\ pods'[q].gen = pods[q].gen /\ pods'[q].ws = pods[q].ws /\ crr'[q].gen = crr[q].gen
      /\ pods'[q].up = pods[q].up \/ (pods[q].up = "live" /\ pods'[q].up = "dying")
      /\ crr'[q] = crr[q] \/ crr[q].phase = "recreating"
      /\ crr'[q].phase = "succeeded" => pods'[q].env = pods[q].ws
                                       \/ (crr[q].phase = "succeeded" /\ pods'[q].env = pods[q].env)
  BY <1>4, <1>5 DEF Pod, CRR
<1>7. RequestTold(q) /\ Known(q)
  BY DEF OrderInv
<1>8. RequestTold(q)'
  <2>1. pods'[q].up = "none" => crr'[q] = NoCRR
    BY <1>6, <1>7 DEF RequestTold, NoCRR
  <2>2. worker'.pc # "idle" => crr'[q].gen <= worker'.job.gen
    BY <1>1, <1>6, <1>7 DEF RequestTold, At
  <2>3. ASSUME crr'[q].gen = Current
        PROVE  /\ pods'[q].ws = sizeOf[Current]
               /\ crr'[q].phase = "succeeded" => pods'[q].env = pods'[q].ws
    BY <1>6, <1>7, <2>3 DEF RequestTold
  <2>4. sizeOf'[Current'] = sizeOf[Current]
    BY <1>1, <1>2
  <2> QED BY <1>2, <2>1, <2>2, <2>3, <2>4 DEF RequestTold, At
<1>9. Known(q)'
  <2>1. Unvisited(q)' => Unvisited(q)
    BY <1>1 DEF Unvisited, At
  <2> QED BY <1>1, <1>6, <1>7, <2>1 DEF Known
<1>10. ASSUME NEW p \in Pods PROVE RequestTold(p)' /\ Known(p)'
  <2>1. CASE p = q
    BY <1>8, <1>9, <2>1
  <2>2. CASE p # q
    <3>1. RequestTold(p)'
      BY <1>1, <1>2, <1>3, <2>2, StillTold DEF OrderInv
    <3>2. Known(p)'
      BY <1>1, <1>3, <2>2 DEF OrderInv, Known, Unvisited, At
    <3> QED BY <3>1, <3>2
  <2> QED BY <2>1, <2>2
<1>11. MasterTells'
  BY <1>1, <1>3, <1>6, Numbers DEF OrderInv, MasterTells, At
<1> QED BY <1>2, <1>10, <1>11 DEF OrderInv

(* RestartMaster: workers are next only if the master is done. *)
LEMMA RestartMasterOrders == ASSUME IInv, IInv', OrderInv, RestartMaster PROVE OrderInv'
<1> USE Given
<1>1. At("master") /\ ~At("idle") /\ UNCHANGED <<job, seen, sizeOf>>
  BY DEF RestartMaster, At
<1>2. \A p \in Pods : Unvisited(p)
  BY <1>1 DEF Unvisited, At
<1> DEFINE r == restartStalePod(Master)
<1>3. MasterStale => Right(Master, r)
  BY <1>1, <1>2, Numbers, Branches, RestartTells DEF MasterStale, IsStale
<1>4. pods[Master].up # "none" => r.pod.up # "none"
  BY Restarted, Numbers DEF IInv
<1> HIDE DEF r
<1>5. ASSUME NEW p \in Pods \ {Master}, NEW i, Restart({Master}, i) PROVE pods'[p] = pods[p] /\ crr'[p] = crr[p]
  BY <1>5 DEF Restart
<1>6. CASE /\ MasterStale /\ Restart({Master}, {}) /\ Goto(AfterMaster(r.completed))
  <2>1. PICK pc \in {"workers", "pods"} : Goto(pc) /\ (pc = "workers" => r.completed)
    BY <1>6 DEF AfterMaster
  <2>2. worker'.pc = pc /\ worker'.job = worker.job /\ worker'.list = worker.list
    BY <2>1, Gotos DEF PCs
  <2>3. pods'[Master] = r.pod /\ crr'[Master] = r.crr
    BY <1>6, Numbers DEF Restart, r
  <2>4. Current' = Current /\ Current <= Current' /\ SizesTold'
    BY <1>1, <2>2, CurrentFacts, Numbers DEF Current, At, OrderInv, SizesTold
  <2>5. MasterTells'
    BY <1>3, <1>6, <2>1, <2>2, <2>3, Numbers DEF Right, MasterTells, At
  <2>6. RequestTold(Master)' /\ Known(Master)'
    <3>1. RequestTold(Master)'
      BY <1>1, <1>3, <1>4, <1>6, <2>2, <2>3, Numbers, RestartKeepsTold
    <3>2. ~Unvisited(Master)'
      BY <2>2 DEF Unvisited, At
    <3> QED BY <3>1, <3>2 DEF Known
  <2>7. ASSUME NEW p \in Pods \ {Master} PROVE RequestTold(p)' /\ Known(p)'
    <3>1. pods'[p] = pods[p] /\ crr'[p] = crr[p]
      BY <1>5, <1>6
    <3>2. RequestTold(p)'
      BY <1>1, <2>4, <3>1, StillTold DEF OrderInv
    <3>3. Known(p)'
      BY <1>1, <1>2, <2>2, <3>1 DEF OrderInv, Known
    <3> QED BY <3>2, <3>3
  <2> QED BY <2>4, <2>5, <2>6, <2>7 DEF OrderInv
<1>7. CASE MasterStale /\ Restart({Master}, {Master}) /\ worker' = Idle
  <2>1. pods'[Master] = pods[Master] /\ crr'[Master] = r.crr
    BY <1>7, Numbers DEF Restart, r
  <2>2. Current' = job.gen /\ Current <= Current' /\ SizesTold' /\ MasterTells'
    BY <1>1, <1>7, CurrentFacts, IdleType DEF Current, At, OrderInv, SizesTold, MasterTells
  <2>3. RequestTold(Master)'
    BY <1>1, <1>3, <1>4, <1>7, <2>1, Numbers, RestartKeepsTold
  <2>4. ASSUME NEW p \in Pods \ {Master} PROVE RequestTold(p)'
    <3>1. pods'[p] = pods[p] /\ crr'[p] = crr[p]
      BY <1>5, <1>7
    <3> QED BY <1>1, <2>2, <3>1, StillTold DEF OrderInv
  <2>5. ASSUME NEW p \in Pods PROVE Known(p)'
    BY <1>7, IdleType DEF Known, Unvisited, At
  <2> QED BY <2>2, <2>3, <2>4, <2>5 DEF OrderInv
<1>8. CASE ~MasterStale /\ Goto("workers") /\ UNCHANGED <<pods, crr>>
  <2>1. worker'.pc = "workers" /\ worker'.job = worker.job /\ worker'.list = worker.list
    BY <1>8, Gotos DEF PCs
  <2>2. MasterTells'
    <3>1. SUFFICES ASSUME pods[Master].up = "live" PROVE pods[Master].gen >= worker.job.gen
      BY <1>8, <2>1 DEF MasterTells, At
    <3>2. worker.list[Master].up # "none" /\ worker.list[Master].gen = pods[Master].gen
      BY <1>2, <3>1, Numbers DEF OrderInv, Known
    <3>3. pods[Master].gen \in Nat /\ worker.job.gen \in Nat
      BY Numbers DEF Pod
    <3> QED BY <1>8, <3>2, <3>3 DEF MasterStale, IsStale
  <2> QED BY <1>1, <1>2, <1>8, <2>1, <2>2, MovesOn
<1> QED BY <1>6, <1>7, <1>8 DEF RestartMaster, r

(* RestartWorkers. *)
LEMMA RestartWorkersOrder == ASSUME IInv, IInv', OrderInv, RestartWorkers PROVE OrderInv'
<1> USE Given
<1>1. At("workers") /\ ~At("idle") /\ UNCHANGED <<job, seen, sizeOf>>
  BY DEF RestartWorkers, At
<1>2. PICK interrupted \in SUBSET StaleWorkers :
        Restart(StaleWorkers, interrupted) /\ (Goto("finish") \/ Goto("pods"))
  BY DEF RestartWorkers
<1>3. PICK pc \in {"finish", "pods"} : Goto(pc)
  BY <1>2
<1>4. worker'.pc = pc /\ worker'.job = worker.job
  BY <1>3, Gotos DEF PCs
<1>5. Current' = Current /\ Current <= Current' /\ SizesTold' /\ MasterTells'
  BY <1>1, <1>4, CurrentFacts, Numbers DEF Current, At, OrderInv, SizesTold, MasterTells
<1>6. ASSUME NEW p \in Pods PROVE Known(p)'
  BY <1>4 DEF Known, Unvisited, At
<1>7. ASSUME NEW p \in Pods PROVE RequestTold(p)'
  <2>1. CASE p \in StaleWorkers
    <3> DEFINE r == restartStalePod(p)
    <3>1. Unvisited(p) /\ worker.list[p].up # "none"
      BY <1>1, <2>1 DEF StaleWorkers, IsStale, Unvisited
    <3>2. Right(p, r)
      BY <1>1, <3>1, Branches, RestartTells
    <3>3. pods[p].up # "none" => r.pod.up # "none"
      BY Restarted DEF IInv
    <3>4. pods'[p] \in {r.pod, pods[p]} /\ crr'[p] = r.crr
      BY <1>2, <2>1 DEF Restart
    <3> HIDE DEF r
    <3> QED BY <1>1, <1>4, <3>2, <3>3, <3>4, RestartKeepsTold
  <2>2. CASE p \notin StaleWorkers
    <3>1. pods'[p] = pods[p] /\ crr'[p] = crr[p]
      BY <1>2, <2>2 DEF Restart
    <3> QED BY <1>1, <1>5, <3>1, StillTold DEF OrderInv
  <2> QED BY <2>1, <2>2
<1> QED BY <1>5, <1>6, <1>7 DEF OrderInv

-----------------------------------------------------------------------------
(* At the start. *)
LEMMA InitOrders == Init => OrderInv
<1> SUFFICES ASSUME Init PROVE OrderInv
  OBVIOUS
<1>0. IInv
  BY InitHolds
<1> USE Given, Numbers, IdleType
<1>1. worker.pc = "idle" /\ job.gen = 1
  BY DEF Init
<1>2. WorldSize(job) \in Nat
  BY <1>0, JobFacts
<1>3. SizesTold
  <2>1. sizeOf \in [1..MaxGen -> Nat]
    BY <1>2 DEF Init
  <2>2. sizeOf[1] = WorldSize(job)
    <3>1. 1 \in 1..MaxGen
      OBVIOUS
    <3> QED BY <3>1 DEF Init
  <2> QED BY <1>1, <2>1, <2>2 DEF SizesTold, At
<1>4. MasterTells /\ \A p \in Pods : Known(p)
  BY <1>1 DEF MasterTells, Known, Unvisited, At
<1>5. ASSUME NEW p \in Pods PROVE RequestTold(p)
  <2>1. crr[p] = NoCRR /\ Current = 1
    BY <1>1 DEF Init, Current, At
  <2> QED BY <1>1, <2>1, NothingType DEF RequestTold, At
<1> QED BY <1>3, <1>4, <1>5 DEF OrderInv

(* Every step keeps the order. *)
LEMMA StepOrders == ~CacheLags /\ IInv /\ OrderInv /\ [Next]_vars => OrderInv'
<1> SUFFICES ASSUME ~CacheLags, IInv, OrderInv, [Next]_vars PROVE OrderInv'
  OBVIOUS
<1>0. IInv'
  BY StepKeeps
<1>1. CASE Worker
  BY <1>0, <1>1, StartSyncOrders, SyncFailsOrders, CheckpointOrders, CleanupOrders, IncreaseOrders,
     DecisionOrders, ServiceOrders, MarkOrders, RestartMasterOrders, RestartWorkersOrder, FinishOrders,
     ReconcileOrders DEF Worker
<1>2. CASE \E p \in Pods : ContainersRecreated(p) \/ ContainersFail(p) \/ Evicted(p)
  BY <1>0, <1>2, PodOrders
<1>3. CASE \E n \in 0..MaxWorkers : AIMasterScales(n)
  BY <1>0, <1>3, ScalesOrders
<1> QED BY <1>0, <1>1, <1>2, <1>3, InformersOrder, AIMasterOrders, CrashOrders DEF Next

(* Who brings a live pod to a later generation. *)
LEMMA RestartsOrdered ==
  ASSUME IInv, OrderInv, Next, NEW p \in Pods,
         pods[p].up = "live", pods'[p].up = "live", pods[p].gen < pods'[p].gen
  PROVE  /\ p # Master /\ pods[Master].up = "live" => pods[Master].gen >= pods'[p].gen
         /\ pods'[p].env = sizeOf[pods'[p].gen]
<1> USE Given
<1>0. pods' # pods /\ pods'[p].gen # pods[p].gen
  <2>1. pods' \in [Pods -> Pod]
    BY StepKeeps DEF IInv, Typed
  <2>2. pods[p].gen \in Nat /\ pods'[p].gen \in Nat
    BY <2>1, Numbers DEF Pod
  <2> QED BY <2>2
<1>1. ASSUME NEW set, NEW i, Restart(set, i), ~At("idle"), Unvisited(p),
             p \in set => worker.list[p].up # "none"
      PROVE  pods'[p].gen = worker.job.gen /\ pods'[p].env = sizeOf[worker.job.gen] /\ p \in set
  <2>1. p \in set /\ pods'[p] = restartStalePod(p).pod
    BY <1>0, <1>1 DEF Restart
  <2>2. Right(p, restartStalePod(p))
    BY <1>1, <2>1, Branches, RestartTells
  <2> QED BY <1>0, <2>1, <2>2 DEF Right
<1>2. CASE RestartMaster
  <2>1. MasterStale /\ (Restart({Master}, {}) \/ Restart({Master}, {Master})) /\ ~At("idle") /\ Unvisited(p)
    BY <1>0, <1>2 DEF RestartMaster, At, Unvisited
  <2> QED BY <1>1, <2>1 DEF MasterStale, IsStale
<1>3. CASE RestartWorkers
  <2>1. PICK i \in SUBSET StaleWorkers : Restart(StaleWorkers, i)
    BY <1>3 DEF RestartWorkers
  <2>2. At("workers") /\ ~At("idle")
    BY <1>3 DEF RestartWorkers, At
  <2>3. p \in StaleWorkers
    BY <1>0, <2>1 DEF Restart
  <2>4. Unvisited(p) /\ worker.list[p].up # "none"
    BY <2>2, <2>3 DEF Unvisited, StaleWorkers, IsStale
  <2>5. pods'[p].gen = worker.job.gen /\ pods'[p].env = sizeOf[worker.job.gen]
    BY <1>1, <2>1, <2>2, <2>4
  <2> QED BY <2>2, <2>5 DEF OrderInv, MasterTells
<1>4. CASE ReconcilePods
  <2>1. pods'[p] \in {NoPod, pods[p]}
    BY <1>4 DEF ReconcilePods
  <2> QED BY <1>0, <2>1 DEF NoPod
<1>5. ASSUME NEW gone, Removed(gone) PROVE FALSE
  <2>1. pods'[p] \in {NoPod, pods[p]}
    BY <1>5 DEF Removed
  <2> QED BY <1>0, <2>1 DEF NoPod
<1>6. CASE cleanupVictimPods \/ Crash
  BY <1>5, <1>6 DEF cleanupVictimPods, Crash
<1>7. ASSUME NEW q \in Pods, ContainersRecreated(q) \/ ContainersFail(q) \/ Evicted(q) PROVE FALSE
  <2>1. \/ pods' = [pods EXCEPT ![q] = [pods[q] EXCEPT !.env = pods[q].ws]]
        \/ pods' = [pods EXCEPT ![q] = [pods[q] EXCEPT !.up = "dying"]]
        \/ pods' = pods
    BY <1>7 DEF ContainersRecreated, ContainersFail, Evicted
  <2>2. pods[q] \in Pod
    OBVIOUS
  <2>3. /\ [pods[q] EXCEPT !.env = pods[q].ws].gen = pods[q].gen
        /\ [pods[q] EXCEPT !.up = "dying"].gen = pods[q].gen
    BY <2>2 DEF Pod
  <2>4. pods'[p].gen = pods[p].gen
    BY <2>1, <2>3
  <2> QED BY <1>0, <2>4
<1>8. CASE /\ Worker /\ ~cleanupVictimPods /\ ~RestartMaster /\ ~RestartWorkers /\ ~ReconcilePods
  BY <1>0, <1>8 DEF Worker, StartSync, SyncFails, CheckpointIfNecessary, ScaleDecision,
       increaseGenerationAndMarkAsSucceeded, refreshStaleService, MarkInflight, FinishScale
<1>9. CASE Informers \/ Resync \/ AIMasterReady \/ AIMasterCheckpoints
  BY <1>0, <1>9 DEF Informers, DeliverPod, DeliverCRR, Resync, AIMasterReady, AIMasterCheckpoints
<1>10. CASE \E n \in 0..MaxWorkers : AIMasterScales(n)
  BY <1>0, <1>10 DEF AIMasterScales
<1> QED BY <1>2, <1>3, <1>4, <1>6, <1>7, <1>8, <1>9, <1>10 DEF Next, Worker

(***************************************************************************)
(* The order of the restarts and the world size of a restarted pod, for a  *)
(* manager whose syncs start from an up-to-date cache: workers follow the  *)
(* master, and what runs in a generation runs with its size, although      *)
(* requests outlive the sync that made them and the job may be scaled,     *)
(* pods evicted and calls fail in between.                                 *)
(***************************************************************************)
THEOREM OrderHolds == ASSUME ~CacheLags PROVE Spec => RestartsAreInOrder
<1>1. Spec => []OrderInv
  <2>1. IInv /\ OrderInv /\ [Next]_vars => OrderInv'
    BY StepOrders
  <2> QED BY <2>1, InitOrders, Invariance, PTL DEF Spec
<1>2. IInv /\ OrderInv /\ [Next]_vars =>
        [\A p \in Pods : pods[p].up = "live" /\ pods'[p].up = "live" /\ pods[p].gen < pods'[p].gen =>
           /\ p # Master /\ pods[Master].up = "live" => pods[Master].gen >= pods'[p].gen
           /\ pods'[p].env = sizeOf[pods'[p].gen]]_vars
  BY RestartsOrdered
<1> QED BY <1>1, <1>2, Invariance, PTL DEF Spec, RestartsAreInOrder
=============================================================================
