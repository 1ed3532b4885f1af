-------------------------- MODULE JobHistoryProofs --------------------------
(***************************************************************************)
(* Theorems about JobController and JobHistory, for every job, every bound *)
(* and every number of faults, crashes and edits: first those about the    *)
(* engine alone, then that what the worker decides from its copies of the  *)
(* cache really happened.                                                  *)
(***************************************************************************)
EXTENDS JobHistory, FiniteSetTheorems, TLAPS

-----------------------------------------------------------------------------
(* Data: the constants and the helpers have the types they should have. *)

(* There is a slot, so that the idle worker's cursor can name one. *)
LEMMA SlotsLemma == Slots # {}
<1>1. PICK rt \in RTypes : TRUE
  BY JobAssumption
<1>2. 0 \in 0..MaxReplicas - 1
  BY JobAssumption
<1>3. <<rt, 0>> \in Slots
  BY <1>1, <1>2 DEF Slots
<1> QED BY <1>3

(* The pods the worker and the kubelet write. *)
LEMMA PodLemma == NoPod \in Pod /\ NewPod \in Pod
<1>1. 0 \in 0..MaxRestarts
  BY JobAssumption
<1>2. NoPod \in Pod
  BY <1>1 DEF NoPod, Pod
<1>3. NewPod \in Pod
  BY <1>2 DEF NewPod, Pod
<1> QED BY <1>2, <1>3

(* Setting a condition gives conditions. *)
LEMMA SetConditionType ==
  ASSUME NEW conds \in Conditions, NEW t \in ConditionType
  PROVE  setCondition(conds, t) \in Conditions
<1>1. ASSUME NEW u \in ConditionType
      PROVE  filterOutCondition(conds, t, u) \in ConditionStatus
  BY DEF filterOutCondition, Conditions, ConditionStatus
<1> QED BY <1>1 DEF setCondition, Conditions, ConditionStatus

(* What a job, a worker and its cursor start from. *)
LEMMA IdleLemma == NoStatus \in Status /\ NoSnap \in SnapType /\ Start \in CursorType
<1>1. NoConditions \in Conditions
  BY DEF NoConditions, Conditions, ConditionStatus
<1>2. NoReplicaStatus \in ReplicaStatus
  BY DEF NoReplicaStatus, ReplicaStatus
<1>3. NoStatus \in Status
  BY <1>1, <1>2, JobAssumption DEF NoStatus, Status, Time
<1>4. NoSnap \in SnapType
  BY <1>3, PodLemma, JobAssumption DEF NoSnap, SnapType
<1>5. Start \in CursorType
  BY SlotsLemma, JobAssumption DEF Start, CursorType
<1> QED BY <1>3, <1>4, <1>5

(* The worker's loop only looks at types that Order names. *)
CursorInRange == pc \in {"pods", "failover", "services"} => cursor.k <= Len(Order)

TypeInv == TypeOK /\ CursorInRange

(* An idle worker is well typed. *)
LEMMA WorkerIdleType == WorkerIdle => WorkerOK' /\ CursorInRange'
  BY IdleLemma DEF WorkerIdle, WorkerOK, CursorInRange, Steps

(* A retry leaves the worker idle and the counter below its bound. *)
LEMMA RetryType ==
  ASSUME TypeOK, Retry
  PROVE  /\ WorkerOK' /\ CursorInRange'
         /\ queued' \in BOOLEAN /\ timer' \in BOOLEAN /\ retries' \in 0..MaxRetries
<1>1. retries' \in 0..MaxRetries
  BY JobAssumption DEF Retry, TypeOK, MemoryOK
<1> QED BY <1>1, WorkerIdleType DEF Retry, TypeOK, MemoryOK

(* So does the regular end of a sync. *)
LEMMA DoneType ==
  ASSUME TypeOK, Done
  PROVE  /\ WorkerOK' /\ CursorInRange'
         /\ queued' \in BOOLEAN /\ timer' \in BOOLEAN /\ retries' \in 0..MaxRetries
<1>1. retries' \in 0..MaxRetries
  BY JobAssumption DEF Done, TypeOK, MemoryOK
<1>2. timer' \in BOOLEAN /\ queued' \in BOOLEAN
  BY DEF Done, TypeOK, MemoryOK
<1>3. WorkerOK' /\ CursorInRange'
  BY WorkerIdleType DEF Done
<1> QED BY <1>1, <1>2, <1>3

(* The API server keeps its pods, and the watch its events, well typed. *)
LEMMA WritePodType ==
  ASSUME TypeOK, NEW p \in Slots, NEW pod \in Pod, WritePod(p, pod)
  PROVE  /\ pods' \in [Slots -> Pod]
         /\ podWatch' \in Seq([slot : Slots, pod : Pod])
  BY DEF WritePod, TypeOK, ServerOK, InformerOK

(* A failed call takes one from the budget, any other leaves it alone. *)
LEMMA FaultType == ASSUME TypeOK, Fault \/ NoFault PROVE budget' \in BudgetType
<1>1. budget \in BudgetType
  BY DEF TypeOK
<1>2. CASE Fault
  <2>1. budget.faults - 1 \in Nat
    BY <1>1, <1>2 DEF Fault, BudgetType
  <2> QED BY <1>1, <1>2, <2>1 DEF Fault, BudgetType
<1>3. CASE NoFault
  BY <1>1, <1>3 DEF NoFault
<1> QED BY <1>2, <1>3

(* DeletePod, whether it succeeds or fails. *)
LEMMA DeletePodType ==
  ASSUME TypeOK, NEW p \in Slots, DeletePodOK(p) \/ DeletePodFails(p)
  PROVE  /\ pods' \in [Slots -> Pod]
         /\ podWatch' \in Seq([slot : Slots, pod : Pod])
         /\ budget' \in BudgetType
<1>1. Terminating(pods[p]) \in Pod
  BY DEF Terminating, Pod, TypeOK, ServerOK
<1>2. budget' \in BudgetType
  BY FaultType DEF DeletePodOK, DeletePodFails
<1>3. UNCHANGED <<pods, podWatch>> \/ WritePod(p, Terminating(pods[p]))
  BY DEF DeletePodOK, DeletePodFails
<1> QED BY <1>1, <1>2, <1>3, WritePodType DEF TypeOK, ServerOK, InformerOK

(* DeleteService, whether it succeeds or fails. *)
LEMMA DeleteServiceType ==
  ASSUME TypeOK, NEW p \in Slots, DeleteServiceOK(p) \/ DeleteServiceFails(p)
  PROVE  /\ svcs' \subseteq Slots
         /\ svcWatch' \in Seq([slot : Slots, present : BOOLEAN])
         /\ budget' \in BudgetType
<1>1. budget' \in BudgetType
  BY FaultType DEF DeleteServiceOK, DeleteServiceFails
<1>2. CASE DeleteServiceOK(p)
  BY <1>1, <1>2 DEF DeleteServiceOK, TypeOK, ServerOK, InformerOK
<1>3. CASE DeleteServiceFails(p)
  BY <1>1, <1>3 DEF DeleteServiceFails, TypeOK, ServerOK, InformerOK
<1> QED BY <1>2, <1>3

(* The operators that change a status give a status. *)
LEMMA CompleteType ==
  ASSUME NEW s \in Status, NEW t \in ConditionType, now \in Time
  PROVE  Complete(s, t) \in Status
  BY SetConditionType DEF Complete, Status

(* Adding a condition to a status gives a status. *)
LEMMA MarkType ==
  ASSUME NEW s \in Status, NEW t \in ConditionType
  PROVE  Mark(s, t) \in Status
  BY SetConditionType DEF Mark, Status

(* So does restarting or failing a job. *)
LEMMA SettleType ==
  ASSUME NEW s \in Status
  PROVE  SettleReplicas(s) \in Status
<1>1. ASSUME NEW rs \in ReplicaStatus
      PROVE  [rs EXCEPT !.succeeded = @ + rs.active, !.active = 0] \in ReplicaStatus
  <2>1. rs.succeeded + rs.active \in Nat
    BY DEF ReplicaStatus
  <2> QED BY <2>1 DEF ReplicaStatus
<1> QED BY <1>1 DEF SettleReplicas, Status

(* Counting a pod under its replica type keeps the counts natural numbers. *)
LEMMA CountType ==
  ASSUME NEW rs \in ReplicaStatus, NEW pod \in Pod, NEW launched \in BOOLEAN
  PROVE  updateJobReplicaStatuses(rs, pod, launched) \in ReplicaStatus
  BY DEF updateJobReplicaStatuses, ReplicaStatus

(* Every status that UpdateJobStatus can compute is a status. *)
LEMMA UpdateStatusType ==
  ASSUME NEW s \in Status, NEW rt \in RTypes, now \in Time
  PROVE  /\ updateRunningOrSucceeded(rt, s) \in Status
         /\ updateRestartingOrFailed(rt, s) \in Status
<1>1. {"Running", "Succeeded", "Restarting", "Failed"} \subseteq ConditionType
  BY DEF ConditionType
<1>2. updateRunningOrSucceeded(rt, s) \in Status
  BY <1>1, CompleteType, MarkType DEF updateRunningOrSucceeded
<1>3. updateRestartingOrFailed(rt, s) \in Status
  BY <1>1, CompleteType, MarkType DEF updateRestartingOrFailed
<1> QED BY <1>2, <1>3

(* The slices of pods and services keep some of what was read. *)
LEMMA SlicesType ==
  ASSUME NEW sn \in SnapType, NEW rt
  PROVE  /\ \A x \in GetPodSlices(sn, rt) : x \in SnapType /\ x.old = sn.old
         /\ \A x \in GetServiceSlices(sn, rt) : x \in SnapType /\ x.old = sn.old
<1>1. ASSUME NEW kept
      PROVE  [p \in Slots |-> IF p \in kept THEN sn.pods[p] ELSE NoPod] \in [Slots -> Pod]
  BY PodLemma DEF SnapType
<1>2. ASSUME NEW x \in GetPodSlices(sn, rt)
      PROVE  x \in SnapType /\ x.old = sn.old
  <2>1. PICK kept : x = [sn EXCEPT !.pods =
                           [p \in Slots |-> IF p \in kept THEN sn.pods[p] ELSE NoPod]]
    BY <1>2 DEF GetPodSlices
  <2> QED BY <1>1, <2>1 DEF SnapType
<1>3. ASSUME NEW x \in GetServiceSlices(sn, rt)
      PROVE  x \in SnapType /\ x.old = sn.old
  <2>1. PICK kept \in Slices(sn.svcs, rt, sn.replicas[rt]) : x = [sn EXCEPT !.svcs = kept]
    BY <1>3 DEF GetServiceSlices
  <2>2. kept \subseteq sn.svcs
    BY DEF Slices
  <2> QED BY <2>1, <2>2 DEF SnapType
<1> QED BY <1>2, <1>3

(* Entering a replica type, or leaving the loop over them. *)
LEMMA EnterTypeType ==
  ASSUME TypeOK, NEW c \in CursorType, NEW s \in Status, NEW sn \in SnapType,
         EnterType(c, s, sn)
  PROVE  /\ pc' \in Steps /\ cursor' \in CursorType /\ st' \in Status
         /\ snap' \in SnapType /\ snap'.old = sn.old
         /\ CursorInRange'
<1>0. snap' \in SnapType /\ snap'.old = sn.old
  BY SlicesType DEF EnterType
<1>1. CASE c.k <= Len(Order)
  <2>1. Order[c.k] \in RTypes
    BY <1>1, JobAssumption DEF CursorType
  <2>2. [NoReplicaStatus EXCEPT !.seen = TRUE] \in ReplicaStatus
    BY DEF NoReplicaStatus, ReplicaStatus
  <2>3. st' \in Status
    <3> DEFINE rs == [NoReplicaStatus EXCEPT !.seen = TRUE]
    <3>1. [s.replicas EXCEPT ![Order[c.k]] = rs] \in [RTypes -> ReplicaStatus]
      BY <2>2 DEF Status
    <3>2. st' = [s EXCEPT !.replicas = [s.replicas EXCEPT ![Order[c.k]] = rs]]
      BY <1>1 DEF EnterType
    <3> QED BY <3>1, <3>2 DEF Status
  <2>4. pc' = "pods" /\ cursor' = [c EXCEPT !.i = 0]
    BY <1>1 DEF EnterType
  <2>5. 0 \in 0..MaxReplicas
    BY JobAssumption
  <2>6. cursor' \in CursorType /\ cursor'.k = c.k
    BY <2>4, <2>5 DEF CursorType
  <2> QED BY <1>0, <1>1, <2>3, <2>4, <2>6 DEF Steps, CursorInRange
<1>2. CASE ~(c.k <= Len(Order))
  <2>1. worker0Completed \in BOOLEAN
    BY DEF worker0Completed
  <2>2. cursor' \in CursorType
    BY <1>2, <2>1 DEF EnterType, CursorType
  <2>3. st' \in Status
    BY <1>2 DEF EnterType, Status, TypeOK
  <2> QED BY <1>0, <1>2, <2>2, <2>3 DEF EnterType, Steps, CursorInRange
<1> QED BY <1>1, <1>2

-----------------------------------------------------------------------------
(* Type correctness.  One step per action; CursorInRange is needed because *)
(* the worker writes to the slot that its cursor names.                    *)

(* The initial state satisfies the inductive invariant. *)
LEMMA InitType == Init => TypeInv
<1> SUFFICES ASSUME Init PROVE TypeInv
  OBVIOUS
<1>1. ServerOK
  BY IdleLemma, PodLemma, JobAssumption DEF Init, ServerOK, JobType
<1>2. InformerOK
  <2>1. podCache \in [Slots -> Pod] /\ svcCache \subseteq Slots /\ jobWatch \in BOOLEAN
    BY PodLemma DEF Init
  <2>2. /\ podWatch \in Seq([slot : Slots, pod : Pod])
        /\ svcWatch \in Seq([slot : Slots, present : BOOLEAN])
    BY DEF Init
  <2> QED BY <2>1, <2>2 DEF InformerOK
<1>3. MemoryOK
  <2>1. podExp \in [RTypes -> BOOLEAN] /\ svcExp \in [RTypes -> BOOLEAN]
    BY DEF Init
  <2>2. queued \in BOOLEAN /\ timer \in BOOLEAN
    BY DEF Init
  <2>3. retries \in 0..MaxRetries
    BY JobAssumption DEF Init
  <2> QED BY <2>1, <2>2, <2>3 DEF MemoryOK
<1>4. WorkerOK /\ CursorInRange
  BY IdleLemma DEF Init, WorkerOK, Steps, CursorInRange
<1>5. now \in Time \ {0}
  BY JobAssumption DEF Init, Time
<1>6. budget \in BudgetType
  BY JobAssumption DEF Init, BudgetType
<1> QED BY <1>1, <1>2, <1>3, <1>4, <1>5, <1>6 DEF TypeInv, TypeOK

(* The slot at which the worker's loop is. *)
LEMMA CurrentSlotType ==
  ASSUME TypeInv, AtPod \/ AtService
  PROVE  CurrentType \in RTypes /\ CurrentSlot \in Slots
<1>1. cursor \in CursorType
  BY DEF TypeInv, TypeOK, WorkerOK
<1>2. cursor.k \in 1..Len(Order)
  BY <1>1, JobAssumption DEF TypeInv, CursorInRange, AtPod, AtService, CursorType
<1>3. CurrentType \in RTypes
  BY <1>2, JobAssumption DEF CurrentType
<1>4. cursor.i \in 0..MaxReplicas - 1
  BY <1>1, JobAssumption DEF CursorType, AtPod, AtService
<1> QED BY <1>3, <1>4 DEF CurrentSlot, Slots

(* Moving on to the next index keeps the cursor in range. *)
LEMMA NextIndexType ==
  ASSUME TypeInv, AtPod \/ AtService, NextIndex
  PROVE  cursor' \in CursorType /\ cursor'.k = cursor.k
<1>1. cursor \in CursorType
  BY DEF TypeInv, TypeOK, WorkerOK
<1>2. cursor.i + 1 \in 0..MaxReplicas
  BY <1>1, JobAssumption DEF CursorType, AtPod, AtService
<1> QED BY <1>1, <1>2 DEF NextIndex, CursorType

(* What a sync reads when it starts is well typed. *)
LEMMA SnapshotType == TypeOK => Snapshot \in SnapType
  BY DEF TypeOK, ServerOK, InformerOK, Snapshot, SnapType, JobType

(* The worker: beginning of a sync. *)
LEMMA BeginType ==
  ASSUME TypeInv,
         \/ ReconcileReadFails \/ ReconcileCancelled
         \/ ReconcileTerminated \/ ReconcileReplicas
  PROVE  TypeInv'
<1> USE DEF TypeInv
<1>1. CASE ReconcileReadFails
  <2>1. budget' \in BudgetType
    BY <1>1, FaultType DEF ReconcileReadFails
  <2>2. MemoryOK'
    BY <1>1, JobAssumption DEF ReconcileReadFails, TypeOK, MemoryOK
  <2> QED BY <1>1, <2>1, <2>2 DEF ReconcileReadFails, server, informer, worker,
             TypeOK, ServerOK, InformerOK, WorkerOK, CursorInRange
<1>2. CASE ReconcileCancelled
  BY <1>2 DEF ReconcileCancelled, Dequeue, server, informer, worker,
              TypeOK, ServerOK, InformerOK, MemoryOK, WorkerOK, CursorInRange
<1>3. CASE ReconcileTerminated
  <2>1. snap' \in SnapType
    <3>1. jobExceedsLimit \in BOOLEAN
      BY DEF jobExceedsLimit, exceedsBackoffLimit, pastBackoffLimit, pastActiveDeadline
    <3> QED BY <1>3, <3>1, SnapshotType DEF ReconcileTerminated, SnapType
  <2>2. st' \in Status
    BY <1>3 DEF ReconcileTerminated, TypeOK, ServerOK, JobType, Status
  <2>3. todo' \subseteq Slots
    BY <1>3 DEF ReconcileTerminated, podsToDelete
  <2>4. WorkerOK' /\ CursorInRange'
    BY <1>3, <2>1, <2>2, <2>3
       DEF ReconcileTerminated, TypeOK, WorkerOK, Steps, CursorInRange
  <2> QED BY <1>3, <2>4 DEF ReconcileTerminated, Dequeue, server, informer,
             TypeOK, ServerOK, InformerOK, MemoryOK
<1>4. CASE ReconcileReplicas
  <2>1. /\ pc' \in Steps /\ cursor' \in CursorType /\ st' \in Status
        /\ snap' \in SnapType /\ CursorInRange'
    BY <1>4, EnterTypeType, IdleLemma, SnapshotType
       DEF ReconcileReplicas, TypeOK, ServerOK, JobType
  <2>2. WorkerOK'
    BY <1>4, <2>1 DEF ReconcileReplicas, TypeOK, WorkerOK
  <2> QED BY <1>4, <2>1, <2>2 DEF ReconcileReplicas, Dequeue, server, informer,
             TypeOK, ServerOK, InformerOK, MemoryOK
<1> QED BY <1>1, <1>2, <1>3, <1>4

(* The worker: the terminated branch, and the write that ends both. *)
LEMMA TerminatedType ==
  ASSUME TypeInv,
         CleanPod \/ CleanService \/ cleanupJob \/ RecordVerdict \/ WriteStatus
  PROVE  TypeInv'
<1> USE DEF TypeInv
<1>1. CASE CleanPod
  <2>1. PICK p \in todo :
          \/ /\ DeletePodOK(p)
             /\ pc' = "cleanService" /\ cursor' = [cursor EXCEPT !.slot = p]
             /\ UNCHANGED <<snap, st, todo, queued, timer, retries>>
          \/ DeletePodFails(p) /\ Retry
    BY <1>1 DEF CleanPod
  <2>2. p \in Slots
    BY DEF TypeOK, WorkerOK
  <2>3. /\ pods' \in [Slots -> Pod]
        /\ podWatch' \in Seq([slot : Slots, pod : Pod])
        /\ budget' \in BudgetType
    BY <2>1, <2>2, DeletePodType
  <2>4. /\ WorkerOK' /\ CursorInRange'
        /\ queued' \in BOOLEAN /\ timer' \in BOOLEAN /\ retries' \in 0..MaxRetries
    <3>1. CASE DeletePodFails(p) /\ Retry
      BY <3>1, RetryType
    <3>2. CASE /\ pc' = "cleanService" /\ cursor' = [cursor EXCEPT !.slot = p]
               /\ UNCHANGED <<snap, st, todo, queued, timer, retries>>
      BY <3>2, <2>2 DEF TypeOK, WorkerOK, MemoryOK, Steps, CursorInRange, CursorType
    <3> QED BY <2>1, <3>1, <3>2
  <2> QED BY <1>1, <2>3, <2>4 DEF CleanPod, TypeOK, ServerOK, InformerOK, MemoryOK
<1>2. CASE CleanService
  <2>1. cursor.slot \in Slots
    BY DEF TypeOK, WorkerOK, CursorType
  <2>2. /\ svcs' \subseteq Slots
        /\ svcWatch' \in Seq([slot : Slots, present : BOOLEAN])
        /\ budget' \in BudgetType
    BY <1>2, <2>1, DeleteServiceType DEF CleanService
  <2>3. /\ WorkerOK' /\ CursorInRange'
        /\ queued' \in BOOLEAN /\ timer' \in BOOLEAN /\ retries' \in 0..MaxRetries
    <3>1. CASE Retry
      BY <3>1, RetryType
    <3>2. CASE /\ pc' = "clean" /\ todo' = todo \ {cursor.slot}
               /\ UNCHANGED <<snap, st, cursor, queued, timer, retries>>
      BY <3>2 DEF TypeOK, WorkerOK, MemoryOK, Steps, CursorInRange
    <3> QED BY <1>2, <3>1, <3>2 DEF CleanService
  <2> QED BY <1>2, <2>2, <2>3 DEF CleanService, TypeOK, ServerOK, InformerOK, MemoryOK
<1>3. CASE cleanupJob
  <2>1. budget' \in BudgetType
    BY <1>3, FaultType DEF cleanupJob, NoFault
  <2>2. job' \in JobType /\ jobWatch' \in BOOLEAN
    BY <1>3 DEF cleanupJob, TypeOK, ServerOK, InformerOK, JobType
  <2>3. /\ WorkerOK' /\ CursorInRange'
        /\ queued' \in BOOLEAN /\ timer' \in BOOLEAN /\ retries' \in 0..MaxRetries
    <3>1. CASE Retry
      BY <3>1, RetryType
    <3>2. CASE /\ pc' = "verdict"
               /\ UNCHANGED <<queued, timer, retries, snap, st, cursor, todo>>
      BY <3>2 DEF TypeOK, WorkerOK, MemoryOK, Steps, CursorInRange
    <3>3. CASE /\ pc' = "verdict" /\ cursor' = [cursor EXCEPT !.requeue = TRUE]
               /\ UNCHANGED <<queued, timer, retries, snap, st, todo>>
      BY <3>3 DEF TypeOK, WorkerOK, MemoryOK, Steps, CursorInRange, CursorType
    <3> QED BY <1>3, <3>1, <3>2, <3>3 DEF cleanupJob
  <2> QED BY <1>3, <2>1, <2>2, <2>3 DEF cleanupJob, TypeOK, ServerOK, InformerOK, MemoryOK
<1>4. CASE RecordVerdict
  <2>1. Complete(st, "Failed") \in Status
    BY CompleteType DEF TypeOK, WorkerOK, ConditionType
  <2>2. st' \in Status
    BY <1>4, <2>1, SettleType DEF RecordVerdict, TypeOK, WorkerOK
  <2> QED BY <1>4, <2>2 DEF RecordVerdict, server, informer, memory,
             TypeOK, ServerOK, InformerOK, MemoryOK, WorkerOK, Steps, CursorInRange
<1>5. CASE WriteStatus
  <2>1. budget' \in BudgetType
    BY <1>5, FaultType DEF WriteStatus, NoFault
  <2>2. job' \in JobType /\ jobWatch' \in BOOLEAN
    BY <1>5 DEF WriteStatus, TypeOK, ServerOK, InformerOK, WorkerOK, JobType
  <2>3. /\ WorkerOK' /\ CursorInRange'
        /\ queued' \in BOOLEAN /\ timer' \in BOOLEAN /\ retries' \in 0..MaxRetries
    BY <1>5, RetryType, DoneType DEF WriteStatus
  <2> QED BY <1>5, <2>1, <2>2, <2>3 DEF WriteStatus, TypeOK, ServerOK, InformerOK, MemoryOK
<1> QED BY <1>1, <1>2, <1>3, <1>4, <1>5

(* The worker: pods and services of the replica types. *)
LEMMA PodsType ==
  ASSUME TypeInv,
         \/ SkipIndex \/ CreatePod \/ CreatePodAlreadyExists \/ CreatePodFails
         \/ CreatePodTimesOut \/ ScaleInPod \/ reconcileOnePod
         \/ ReconcilePodsEnd \/ RecreatePods \/ PatchFailoverTimestamp
  PROVE  TypeInv'
<1> USE DEF TypeInv
<1>1. CASE SkipIndex
  BY <1>1, NextIndexType DEF SkipIndex, MissingPod, server, informer, memory,
     TypeOK, ServerOK, InformerOK, MemoryOK, WorkerOK, CursorInRange
<1>2. CASE CreatePod
  <2>1. AtPod
    BY <1>2 DEF CreatePod, MissingPod
  <2>2. CurrentSlot \in Slots /\ cursor' \in CursorType /\ cursor'.k = cursor.k
    BY <1>2, <2>1, CurrentSlotType, NextIndexType DEF CreatePod
  <2>3. /\ pods' \in [Slots -> Pod]
        /\ podWatch' \in Seq([slot : Slots, pod : Pod])
    BY <1>2, <2>2, WritePodType, PodLemma DEF CreatePod, createPods
  <2>4. budget' \in BudgetType /\ podExp' \in [RTypes -> BOOLEAN]
    BY <1>2 DEF CreatePod, NoFault, TypeOK, MemoryOK
  <2> QED BY <1>2, <2>2, <2>3, <2>4 DEF CreatePod,
             TypeOK, ServerOK, InformerOK, MemoryOK, WorkerOK, CursorInRange
<1>3. CASE CreatePodAlreadyExists
  <2>1. podExp' \in [RTypes -> BOOLEAN] /\ svcExp' \in [RTypes -> BOOLEAN]
    BY <1>3 DEF CreatePodAlreadyExists, TypeOK, MemoryOK
  <2> QED BY <1>3, <2>1, RetryType DEF CreatePodAlreadyExists, server, informer,
             TypeOK, ServerOK, InformerOK, MemoryOK
<1>4. CASE CreatePodFails
  <2>1. podExp' \in [RTypes -> BOOLEAN] /\ budget' \in BudgetType
    BY <1>4, FaultType DEF CreatePodFails, TypeOK, MemoryOK
  <2> QED BY <1>4, <2>1, RetryType DEF CreatePodFails, server, informer,
             TypeOK, ServerOK, InformerOK, MemoryOK
<1>5. CASE CreatePodTimesOut
  <2>1. AtPod
    BY <1>5 DEF CreatePodTimesOut, MissingPod
  <2>2. CurrentSlot \in Slots /\ cursor' \in CursorType /\ cursor'.k = cursor.k
    BY <1>5, <2>1, CurrentSlotType, NextIndexType DEF CreatePodTimesOut
  <2>3. /\ pods' \in [Slots -> Pod]
        /\ podWatch' \in Seq([slot : Slots, pod : Pod])
    BY <1>5, <2>2, WritePodType, PodLemma DEF CreatePodTimesOut, createPods, TypeOK, ServerOK, InformerOK
  <2>4. budget' \in BudgetType /\ podExp' \in [RTypes -> BOOLEAN]
    BY <1>5, FaultType DEF CreatePodTimesOut, TypeOK, MemoryOK
  <2> QED BY <1>5, <2>2, <2>3, <2>4 DEF CreatePodTimesOut,
             TypeOK, ServerOK, InformerOK, MemoryOK, WorkerOK, CursorInRange
<1>6. CASE ScaleInPod
  <2>1. CurrentSlot \in Slots /\ cursor' \in CursorType /\ cursor'.k = cursor.k
    BY <1>6, CurrentSlotType, NextIndexType DEF ScaleInPod
  <2>2. /\ pods' \in [Slots -> Pod]
        /\ podWatch' \in Seq([slot : Slots, pod : Pod])
        /\ budget' \in BudgetType
    BY <1>6, <2>1, DeletePodType DEF ScaleInPod
  <2> QED BY <1>6, <2>1, <2>2 DEF ScaleInPod, memory,
             TypeOK, ServerOK, InformerOK, MemoryOK, WorkerOK, CursorInRange
<1>7. CASE reconcileOnePod
  <2>1. CurrentType \in RTypes /\ CurrentSlot \in Slots
    BY <1>7, CurrentSlotType DEF reconcileOnePod
  <2>2. st' \in Status
    <3>1. snap.pods[CurrentSlot] \in Pod /\ st.replicas[CurrentType] \in ReplicaStatus
      BY <2>1 DEF TypeOK, WorkerOK, SnapType, Status
    <3>2. PICK launched \in BOOLEAN :
            st' = [st EXCEPT !.replicas[CurrentType] =
                     updateJobReplicaStatuses(@, snap.pods[CurrentSlot], launched)]
      BY <1>7 DEF reconcileOnePod
    <3> DEFINE rs == updateJobReplicaStatuses(st.replicas[CurrentType],
                                              snap.pods[CurrentSlot], launched)
    <3>3. rs \in ReplicaStatus
      BY <3>1, CountType
    <3>4. st' = [st EXCEPT !.replicas = [st.replicas EXCEPT ![CurrentType] = rs]]
      BY <3>2
    <3> HIDE DEF rs
    <3>5. [st.replicas EXCEPT ![CurrentType] = rs] \in [RTypes -> ReplicaStatus]
      BY <3>3 DEF TypeOK, WorkerOK, Status
    <3> QED BY <3>4, <3>5 DEF TypeOK, WorkerOK, Status
  <2>3. todo' \subseteq Slots
    BY <1>7, <2>1 DEF reconcileOnePod, TypeOK, WorkerOK
  <2>4. cursor' \in CursorType /\ cursor'.k = cursor.k
    <3>1. cursor.i + 1 \in 0..MaxReplicas
      BY SMTT(30), <1>7, JobAssumption DEF reconcileOnePod, AtPod, TypeOK, WorkerOK, CursorType
    <3>2. PICK b \in BOOLEAN : cursor' = [cursor EXCEPT !.i = @ + 1, !.restart = @ \/ b]
      BY <1>7 DEF reconcileOnePod, ShouldPodFailOver
    <3> QED BY <3>1, <3>2 DEF TypeOK, WorkerOK, CursorType
  <2> QED BY <1>7, <2>2, <2>3, <2>4 DEF reconcileOnePod, server, informer, memory,
             TypeOK, ServerOK, InformerOK, MemoryOK, WorkerOK, CursorInRange
<1>8. CASE ReconcilePodsEnd
  <2>1. cursor' \in CursorType /\ cursor'.k = cursor.k
    <3>1. 0 \in 0..MaxReplicas
      BY JobAssumption
    <3> QED BY <1>8, <3>1 DEF ReconcilePodsEnd, TypeOK, WorkerOK, CursorType
  <2>2. snap' \in SnapType
    BY <1>8, SlicesType DEF ReconcilePodsEnd, TypeOK, WorkerOK
  <2> QED BY <1>8, <2>1, <2>2 DEF ReconcilePodsEnd, server, informer, memory, Steps,
             TypeOK, ServerOK, InformerOK, MemoryOK, WorkerOK, CursorInRange
<1>9. CASE RecreatePods
  <2>1. PICK p \in todo : (DeletePodOK(p) \/ DeletePodFails(p)) /\ todo' = todo \ {p}
    BY <1>9 DEF RecreatePods
  <2>2. p \in Slots
    BY DEF TypeOK, WorkerOK
  <2>3. /\ pods' \in [Slots -> Pod]
        /\ podWatch' \in Seq([slot : Slots, pod : Pod])
        /\ budget' \in BudgetType
    BY <2>1, <2>2, DeletePodType
  <2> QED BY <1>9, <2>1, <2>3 DEF RecreatePods, memory,
             TypeOK, ServerOK, InformerOK, MemoryOK, WorkerOK, CursorInRange
<1>10. CASE PatchFailoverTimestamp
  <2>1. budget' \in BudgetType
    BY <1>10, FaultType DEF PatchFailoverTimestamp
  <2>2. jobWatch' \in BOOLEAN
    BY <1>10 DEF PatchFailoverTimestamp, TypeOK, InformerOK
  <2>3. snap' \in SnapType
    BY <1>10 DEF PatchFailoverTimestamp, TypeOK, ServerOK, JobType, WorkerOK, SnapType
  <2>4. st' \in Status
    <3>1. \A rt \in RTypes : /\ job.st.replicas[rt] \in ReplicaStatus
                            /\ st.replicas[rt] \in ReplicaStatus
      BY DEF TypeOK, ServerOK, JobType, WorkerOK, Status
    <3>2. DecodeReplicaStatuses(st) \in Status
      BY <3>1 DEF DecodeReplicaStatuses, TypeOK, WorkerOK, Status
    <3> QED BY <1>10, <3>2 DEF PatchFailoverTimestamp, TypeOK, WorkerOK
  <2> QED BY <1>10, <2>1, <2>2, <2>3, <2>4 DEF PatchFailoverTimestamp, server, memory, Steps,
             TypeOK, ServerOK, InformerOK, MemoryOK, WorkerOK, CursorInRange
<1> QED BY <1>1, <1>2, <1>3, <1>4, <1>5, <1>6, <1>7, <1>8, <1>9, <1>10

(* The worker: services of the replica types, and the status update. *)
LEMMA ServicesType ==
  ASSUME TypeInv,
         \/ SkipService \/ CreateService \/ ScaleInService
         \/ ReconcileServicesEnd \/ UpdateJobStatus
  PROVE  TypeInv'
<1> USE DEF TypeInv
<1>1. CASE SkipService
  BY <1>1, NextIndexType DEF SkipService, server, informer, memory,
     TypeOK, ServerOK, InformerOK, MemoryOK, WorkerOK, CursorInRange
<1>2. CASE CreateService
  <2>1. CurrentSlot \in Slots
    BY <1>2, CurrentSlotType DEF CreateService
  <2>2. /\ svcs' \subseteq Slots
        /\ svcWatch' \in Seq([slot : Slots, present : BOOLEAN])
    <3>1. CASE UNCHANGED <<svcs, svcWatch>>
      BY <3>1 DEF TypeOK, ServerOK, InformerOK
    <3>2. CASE /\ svcs' = svcs \cup {CurrentSlot}
               /\ svcWatch' = Append(svcWatch, [slot |-> CurrentSlot, present |-> TRUE])
      <4>1. [slot |-> CurrentSlot, present |-> TRUE] \in [slot : Slots, present : BOOLEAN]
        BY <2>1
      <4> QED BY <2>1, <3>2, <4>1 DEF TypeOK, ServerOK, InformerOK
    <3> QED BY <1>2, <3>1, <3>2 DEF CreateService, createServices
  <2>3. svcExp' \in [RTypes -> BOOLEAN]
    BY <1>2 DEF CreateService, TypeOK, MemoryOK
  <2>5. budget' \in BudgetType
    BY <1>2, FaultType DEF CreateService
  <2>4. /\ WorkerOK' /\ CursorInRange'
        /\ queued' \in BOOLEAN /\ timer' \in BOOLEAN /\ retries' \in 0..MaxRetries
    <3>1. CASE Retry
      BY <3>1, RetryType
    <3>2. CASE NextIndex /\ UNCHANGED <<queued, timer, retries, pc, snap, st, todo>>
      BY <1>2, <3>2, NextIndexType
         DEF CreateService, TypeOK, WorkerOK, MemoryOK, CursorInRange
    <3> QED BY <1>2, <3>1, <3>2 DEF CreateService
  <2> QED BY <1>2, <2>2, <2>3, <2>4, <2>5
             DEF CreateService, TypeOK, ServerOK, InformerOK, MemoryOK
<1>3. CASE ScaleInService
  <2>1. CurrentSlot \in Slots
    BY <1>3, CurrentSlotType DEF ScaleInService
  <2>2. /\ svcs' \subseteq Slots
        /\ svcWatch' \in Seq([slot : Slots, present : BOOLEAN])
        /\ budget' \in BudgetType
    BY <1>3, <2>1, DeleteServiceType DEF ScaleInService
  <2>3. /\ WorkerOK' /\ CursorInRange'
        /\ queued' \in BOOLEAN /\ timer' \in BOOLEAN /\ retries' \in 0..MaxRetries
    <3>1. CASE Retry
      BY <3>1, RetryType
    <3>2. CASE NextIndex /\ UNCHANGED <<queued, timer, retries, pc, snap, st, todo>>
      BY <1>3, <3>2, NextIndexType
         DEF ScaleInService, TypeOK, WorkerOK, MemoryOK, CursorInRange
    <3> QED BY <1>3, <3>1, <3>2 DEF ScaleInService
  <2> QED BY <1>3, <2>2, <2>3 DEF ScaleInService, TypeOK, ServerOK, InformerOK, MemoryOK
<1>4. CASE ReconcileServicesEnd
  <2>1. [cursor EXCEPT !.k = @ + 1] \in CursorType
    <3>1. cursor.k + 1 \in Nat \ {0}
      BY DEF TypeOK, WorkerOK, CursorType
    <3> QED BY <3>1 DEF TypeOK, WorkerOK, CursorType
  <2>2. [snap EXCEPT !.replicas = snap.next] \in SnapType
    BY DEF TypeOK, WorkerOK, SnapType
  <2>3. /\ pc' \in Steps /\ cursor' \in CursorType /\ st' \in Status
        /\ snap' \in SnapType /\ CursorInRange'
    BY <1>4, <2>1, <2>2, EnterTypeType DEF ReconcileServicesEnd, TypeOK, WorkerOK
  <2> QED BY <1>4, <2>3 DEF ReconcileServicesEnd, server, informer, memory,
             TypeOK, ServerOK, InformerOK, MemoryOK, WorkerOK
<1>5. CASE UpdateJobStatus
  <2>1. WorkerOK' /\ CursorInRange'
    <3>1. CASE cursor.types = {} /\ pc' = "write" /\ UNCHANGED <<st, cursor>>
      BY <1>5, <3>1 DEF UpdateJobStatus, TypeOK, WorkerOK, Steps, CursorInRange
    <3>2. ASSUME NEW rt \in cursor.types,
                 st' = IF st.replicas[rt].seen
                       THEN updateRestartingOrFailed(rt, updateRunningOrSucceeded(rt, st))
                       ELSE st,
                 cursor' = [cursor EXCEPT !.types = @ \ {rt}],
                 UNCHANGED pc
          PROVE  WorkerOK' /\ CursorInRange'
      <4>1. rt \in RTypes /\ st \in Status /\ now \in Time
        BY DEF TypeOK, WorkerOK, CursorType
      <4>2. st' \in Status
        BY <3>2, <4>1, UpdateStatusType
      <4>3. cursor' \in CursorType
        BY <3>2 DEF TypeOK, WorkerOK, CursorType
      <4> QED BY <1>5, <3>2, <4>2, <4>3
                 DEF UpdateJobStatus, TypeOK, WorkerOK, CursorInRange
    <3> QED BY <1>5, <3>1, <3>2 DEF UpdateJobStatus
  <2> QED BY <1>5, <2>1 DEF UpdateJobStatus, server, informer, memory,
             TypeOK, ServerOK, InformerOK, MemoryOK
<1> QED BY <1>1, <1>2, <1>3, <1>4, <1>5

(* The next event of a watch, and what is left. *)
LEMMA WatchLemma ==
  ASSUME NEW S, NEW s \in Seq(S), s # << >>
  PROVE  Head(s) \in S /\ Tail(s) \in Seq(S)
  OBVIOUS

(* The informers, the timers and a restart of the manager. *)
LEMMA ManagerType ==
  ASSUME TypeInv,
         \/ DeliverPod \/ DeliverService \/ DeliverJob
         \/ Resync \/ ExpectationExpires \/ TimerFires \/ Crash
  PROVE  TypeInv'
<1> USE DEF TypeInv
<1>1. CASE DeliverPod
  <2>1. Head(podWatch) \in [slot : Slots, pod : Pod]
    BY <1>1, WatchLemma DEF DeliverPod, TypeOK, InformerOK
  <2>2. Tail(podWatch) \in Seq([slot : Slots, pod : Pod])
    BY <1>1, WatchLemma DEF DeliverPod, TypeOK, InformerOK
  <2>3. podCache' \in [Slots -> Pod]
    BY <1>1, <2>1 DEF DeliverPod, TypeOK, InformerOK
  <2>4. podExp' \in [RTypes -> BOOLEAN] /\ queued' \in BOOLEAN
    BY <1>1 DEF DeliverPod, OnPodCreateFunc, OnPodUpdateFunc, OnPodDeleteFunc,
                TypeOK, MemoryOK
  <2> QED BY <1>1, <2>2, <2>3, <2>4 DEF DeliverPod, server, worker,
             TypeOK, ServerOK, InformerOK, MemoryOK, WorkerOK, CursorInRange
<1>2. CASE DeliverService
  <2>1. Head(svcWatch) \in [slot : Slots, present : BOOLEAN]
    BY <1>2, WatchLemma DEF DeliverService, TypeOK, InformerOK
  <2>2. Tail(svcWatch) \in Seq([slot : Slots, present : BOOLEAN])
    BY <1>2, WatchLemma DEF DeliverService, TypeOK, InformerOK
  <2>3. svcCache' \subseteq Slots
    BY <1>2, <2>1 DEF DeliverService, TypeOK, InformerOK
  <2>4. svcExp' \in [RTypes -> BOOLEAN] /\ queued' \in BOOLEAN
    BY <1>2 DEF DeliverService, OnServiceCreateFunc, OnServiceDeleteFunc,
                TypeOK, MemoryOK
  <2> QED BY <1>2, <2>2, <2>3, <2>4 DEF DeliverService, server, worker,
             TypeOK, ServerOK, InformerOK, MemoryOK, WorkerOK, CursorInRange
<1>3. CASE DeliverJob
  <2>1. podExp' \in [RTypes -> BOOLEAN] /\ svcExp' \in [RTypes -> BOOLEAN]
    BY <1>3 DEF DeliverJob, DeleteExpectations, TypeOK, MemoryOK
  <2> QED BY <1>3, <2>1 DEF DeliverJob, server, worker,
             TypeOK, ServerOK, InformerOK, MemoryOK, WorkerOK, CursorInRange
<1>4. CASE Resync
  BY <1>4 DEF Resync, server, informer, worker,
     TypeOK, ServerOK, InformerOK, MemoryOK, WorkerOK, CursorInRange
<1>5. CASE ExpectationExpires
  <2>1. podExp' \in [RTypes -> BOOLEAN] /\ svcExp' \in [RTypes -> BOOLEAN]
    BY <1>5 DEF ExpectationExpires, TypeOK, MemoryOK
  <2> QED BY <1>5, <2>1 DEF ExpectationExpires, server, informer, worker,
             TypeOK, ServerOK, InformerOK, MemoryOK, WorkerOK, CursorInRange
<1>6. CASE TimerFires
  BY <1>6 DEF TimerFires, server, informer, worker,
     TypeOK, ServerOK, InformerOK, MemoryOK, WorkerOK, CursorInRange
<1>7. CASE Crash
  <2>1. budget' \in BudgetType
    <3>1. budget.crashes - 1 \in Nat
      BY <1>7 DEF Crash, TypeOK, BudgetType
    <3> QED BY <1>7, <3>1 DEF Crash, TypeOK, BudgetType
  <2>2. InformerOK'
    <3>1. podWatch' \in Seq([slot : Slots, pod : Pod])
      BY <1>7 DEF Crash
    <3>2. svcWatch' \in Seq([slot : Slots, present : BOOLEAN])
      BY <1>7 DEF Crash
    <3> QED BY <1>7, <3>1, <3>2 DEF Crash, TypeOK, ServerOK, InformerOK
  <2>3. MemoryOK'
    <3>1. retries' \in 0..MaxRetries
      BY <1>7, JobAssumption DEF Crash
    <3>2. podExp' \in [RTypes -> BOOLEAN] /\ svcExp' \in [RTypes -> BOOLEAN]
      BY <1>7 DEF Crash
    <3>3. queued' \in BOOLEAN /\ timer' \in BOOLEAN
      BY <1>7 DEF Crash, TypeOK, ServerOK, JobType
    <3> QED BY <3>1, <3>2, <3>3 DEF MemoryOK
  <2>4. WorkerOK' /\ CursorInRange'
    BY <1>7, WorkerIdleType DEF Crash
  <2> QED BY <1>7, <2>1, <2>2, <2>3, <2>4 DEF Crash, server, TypeOK, ServerOK
<1> QED BY <1>1, <1>2, <1>3, <1>4, <1>5, <1>6, <1>7

(* Everyone else. *)
LEMMA OutsideType ==
  ASSUME TypeInv, Kubelet \/ User \/ Tick
  PROVE  TypeInv'
<1> USE DEF TypeInv
<1>1. ASSUME NEW p \in Slots, NEW pod \in Pod, WritePod(p, pod),
             UNCHANGED rest, budget' \in BudgetType
      PROVE  TypeInv'
  <2>1. /\ pods' \in [Slots -> Pod]
        /\ podWatch' \in Seq([slot : Slots, pod : Pod])
    BY <1>1, WritePodType
  <2> QED BY <1>1, <2>1 DEF rest, memory, worker,
             TypeOK, ServerOK, InformerOK, MemoryOK, WorkerOK, CursorInRange
<1>2. ASSUME NEW p \in Slots,
             \/ PodStarts(p) \/ MainContainerExits(p) \/ SidecarExits(p)
             \/ PodEvicted(p) \/ PodGone(p) \/ UserDeletesPod(p)
      PROVE  \E pod \in Pod : WritePod(p, pod) /\ UNCHANGED rest
  <2>1. pods[p] \in Pod
    BY DEF TypeOK, ServerOK
  <2>2. CASE PodStarts(p)
    <3>1. [pods[p] EXCEPT !.phase = "Running"] \in Pod
      BY <2>1 DEF Pod
    <3> QED BY <2>2, <3>1 DEF PodStarts
  <2>3. CASE MainContainerExits(p)
    <3>1. PICK exit \in {"ok", "retry", "perm"} :
            IF ContainerRestarts(p[1], exit)
            THEN /\ pods[p].restarts < MaxRestarts
                 /\ WritePod(p, [pods[p] EXCEPT !.restarts = @ + 1])
            ELSE WritePod(p, [pods[p] EXCEPT !.exit = exit,
                                !.phase = IF Sidecars THEN @ ELSE FinalPhase(exit)])
      BY <2>3 DEF MainContainerExits
    <3>2. [pods[p] EXCEPT !.exit = exit,
                          !.phase = IF Sidecars THEN @ ELSE FinalPhase(exit)] \in Pod
      BY <2>1 DEF Pod, FinalPhase
    <3>3. ASSUME pods[p].restarts < MaxRestarts
          PROVE  [pods[p] EXCEPT !.restarts = @ + 1] \in Pod
      <4>1. pods[p].restarts + 1 \in 0..MaxRestarts
        BY <2>1, <3>3, JobAssumption DEF Pod
      <4> QED BY <2>1, <4>1 DEF Pod
    <3> QED BY <2>3, <3>1, <3>2, <3>3 DEF MainContainerExits
  <2>4. CASE SidecarExits(p)
    <3>1. [pods[p] EXCEPT !.phase = FinalPhase(pods[p].exit)] \in Pod
      BY <2>1 DEF Pod, FinalPhase
    <3> QED BY <2>4, <3>1 DEF SidecarExits
  <2>5. CASE PodEvicted(p)
    <3>1. [pods[p] EXCEPT !.phase = "Failed", !.exit = "retry"] \in Pod
      BY <2>1 DEF Pod
    <3> QED BY <2>5, <3>1 DEF PodEvicted
  <2>6. CASE PodGone(p)
    BY <2>6, PodLemma DEF PodGone
  <2>7. CASE UserDeletesPod(p)
    <3>1. Terminating(pods[p]) \in Pod
      BY <2>1 DEF Terminating, Pod
    <3> QED BY <2>7, <3>1 DEF UserDeletesPod
  <2> QED BY <1>2, <2>2, <2>3, <2>4, <2>5, <2>6, <2>7
<1>3. ASSUME NEW p \in Slots, PodStarts(p) \/ MainContainerExits(p) \/ SidecarExits(p)
                              \/ PodEvicted(p) \/ PodGone(p)
      PROVE  TypeInv'
  <2>1. budget' \in BudgetType
    BY <1>3 DEF PodStarts, MainContainerExits, SidecarExits, PodEvicted, PodGone, TypeOK
  <2> QED BY <1>1, <1>2, <1>3, <2>1
<1>4. ASSUME NEW p \in Slots, UserDeletesPod(p)
      PROVE  TypeInv'
  <2>1. budget.kills - 1 \in Nat
    BY <1>4 DEF UserDeletesPod, TypeOK, BudgetType
  <2>2. budget' \in BudgetType
    BY <1>4, <2>1 DEF UserDeletesPod, TypeOK, BudgetType
  <2> QED BY <1>1, <1>2, <1>4, <2>2
<1>5. ASSUME NEW p \in Slots, ServiceCollected(p)
      PROVE  TypeInv'
  <2>1. /\ svcs' \subseteq Slots
        /\ svcWatch' \in Seq([slot : Slots, present : BOOLEAN])
    BY <1>5 DEF ServiceCollected, TypeOK, ServerOK, InformerOK
  <2> QED BY <1>5, <2>1 DEF ServiceCollected, memory, worker,
             TypeOK, ServerOK, InformerOK, MemoryOK, WorkerOK, CursorInRange
<1>6. CASE UserEditsJob
  <2>1. budget' \in BudgetType
    <3>1. budget.edits - 1 \in Nat
      BY <1>6 DEF UserEditsJob, TypeOK, BudgetType
    <3> QED BY <1>6, <3>1 DEF UserEditsJob, TypeOK, BudgetType
  <2>2. job' \in JobType
    <3>1. PICK rt \in RTypes, n \in 1..MaxReplicas : job' = [job EXCEPT !.replicas[rt] = n]
      BY <1>6 DEF UserEditsJob
    <3>2. n \in 0..MaxReplicas
      BY JobAssumption
    <3>3. [job.replicas EXCEPT ![rt] = n] \in [RTypes -> 0..MaxReplicas]
      BY <3>2 DEF TypeOK, ServerOK, JobType
    <3> QED BY <3>1, <3>3 DEF TypeOK, ServerOK, JobType
  <2>3. snap' \in SnapType
    BY <1>6 DEF UserEditsJob, TypeOK, WorkerOK, SnapType
  <2> QED BY <1>6, <2>1, <2>2, <2>3 DEF UserEditsJob, memory,
             TypeOK, ServerOK, InformerOK, MemoryOK, WorkerOK, CursorInRange
<1>7. CASE UserDeletesJob
  <2>1. job' \in JobType
    BY <1>7 DEF UserDeletesJob, TypeOK, ServerOK, JobType
  <2> QED BY <1>7, <2>1 DEF UserDeletesJob, memory, worker,
             TypeOK, ServerOK, InformerOK, MemoryOK, WorkerOK, CursorInRange
<1>8. CASE Tick
  <2>1. now' \in Time \ {0}
    BY <1>8, JobAssumption DEF Tick, TypeOK, Time
  <2> QED BY <1>8, <2>1 DEF Tick, server, informer, memory, worker,
             TypeOK, ServerOK, InformerOK, MemoryOK, WorkerOK, CursorInRange
<1> QED BY <1>3, <1>4, <1>5, <1>6, <1>7, <1>8 DEF Kubelet, User

(* A stuttering step keeps the inductive invariant. *)
LEMMA StutterType == ASSUME TypeInv, UNCHANGED vars PROVE TypeInv'
  BY DEF TypeInv, vars, server, informer, memory, worker,
         TypeOK, ServerOK, InformerOK, MemoryOK, WorkerOK, CursorInRange

(* Every step keeps the inductive invariant. *)
LEMMA NextType == ASSUME TypeInv, [Next]_vars PROVE TypeInv'
<1>1. CASE Sync
  BY <1>1, BeginType, TerminatedType, PodsType, ServicesType DEF Sync
<1>2. CASE Deliver \/ Resync \/ ExpectationExpires \/ TimerFires \/ Crash
  BY <1>2, ManagerType DEF Deliver
<1>3. CASE Kubelet \/ User \/ Tick
  BY <1>3, OutsideType
<1>4. CASE UNCHANGED vars
  BY <1>4, StutterType
<1> QED BY <1>1, <1>2, <1>3, <1>4 DEF Next

(* The inductive invariant holds in every reachable state. *)
LEMMA TypeInvInvariant == Spec => []TypeInv
<1>1. Init => TypeInv
  BY InitType
<1>2. TypeInv /\ [Next]_vars => TypeInv'
  BY NextType
<1> QED BY <1>1, <1>2, PTL DEF Spec

(***************************************************************************)
(* Every variable of the engine keeps its type in every behaviour.         *)
(***************************************************************************)
THEOREM TypeCorrect == Spec => []TypeOK
<1>1. TypeInv => TypeOK
  BY DEF TypeInv
<1> QED BY <1>1, TypeInvInvariant, PTL

-----------------------------------------------------------------------------
(***************************************************************************)
(* The verdict.  Nothing but the worker writes the job's status, so what   *)
(* the worker read is what the API server still holds; the loop over the   *)
(* replica types runs only for a job without a verdict; and setCondition   *)
(* refuses to touch one.                                                   *)
(***************************************************************************)
VerdictInv ==
  /\ Busy => job.st = snap.old
  /\ Reconciling => ~Finished(snap.old.conds)
  /\ Busy /\ Finished(snap.old.conds) => st.conds = snap.old.conds

(* A step that ends the sync keeps VerdictInv. *)
LEMMA VerdictIdle == pc' = "idle" => VerdictInv'
  BY DEF VerdictInv, Busy, Reconciling

(* So does one that goes on with the same job. *)
LEMMA VerdictFrame ==
  ASSUME VerdictInv, job'.st = job.st, snap'.old = snap.old,
         Busy' => Busy, Reconciling' => Reconciling,
         st'.conds = st.conds \/ Reconciling
  PROVE  VerdictInv'
  BY DEF VerdictInv, Busy, Reconciling

(* A finished job's conditions do not change. *)
LEMMA FrozenConditions ==
  ASSUME NEW s \in Status, NEW t \in ConditionType, Finished(s.conds)
  PROVE  Complete(s, t).conds = s.conds
<1>1. Complete(s, t).conds = setCondition(s.conds, t)
  BY DEF Complete, Status
<1> QED BY <1>1 DEF setCondition

(* The steps of the worker keep VerdictInv. *)
LEMMA SyncVerdict ==
  ASSUME TypeInv, VerdictInv, Sync
  PROVE  VerdictInv'
<1> USE DEF Busy, Reconciling
<1>1. CASE ReconcileReadFails \/ ReconcileCancelled
  BY <1>1, VerdictFrame DEF ReconcileReadFails, ReconcileCancelled, server, worker
<1>2. CASE ReconcileTerminated
  <2>1. job' = job /\ pc' = "clean" /\ snap'.old = job.st
    BY <1>2 DEF ReconcileTerminated, server, Snapshot
  <2>2. st'.conds = job.st.conds
    BY <1>2 DEF ReconcileTerminated, TypeInv, TypeOK, ServerOK, JobType, Status
  <2> QED BY <2>1, <2>2 DEF VerdictInv
<1>3. CASE ReconcileReplicas
  <2>1. job' = job /\ ~Finished(job.st.conds)
    BY <1>3 DEF ReconcileReplicas, Terminated, server
  <2>2. pc' \in {"pods", "status"}
    BY <1>3 DEF ReconcileReplicas, EnterType
  <2>3. snap'.old = job.st
    BY <1>3, EnterTypeType, IdleLemma, SnapshotType
       DEF ReconcileReplicas, TypeInv, TypeOK, ServerOK, JobType, Snapshot
  <2> QED BY <2>1, <2>2, <2>3 DEF VerdictInv
<1>4. CASE CleanPod
  <2>1. CASE Retry
    BY <2>1, VerdictIdle DEF Retry, WorkerIdle
  <2>2. CASE ~Retry
    BY <1>4, <2>2, VerdictFrame DEF CleanPod
  <2> QED BY <2>1, <2>2
<1>5. CASE CleanService
  <2>1. CASE Retry
    BY <2>1, VerdictIdle DEF Retry, WorkerIdle
  <2>2. CASE ~Retry
    BY <1>5, <2>2, VerdictFrame DEF CleanService
  <2> QED BY <2>1, <2>2
<1>6. CASE cleanupJob
  <2>1. CASE Retry
    BY <2>1, VerdictIdle DEF Retry, WorkerIdle
  <2>2. CASE ~Retry
    <3>1. job'.st = job.st
      BY <1>6 DEF cleanupJob, TypeInv, TypeOK, ServerOK, JobType
    <3> QED BY <1>6, <2>2, <3>1, VerdictFrame DEF cleanupJob
  <2> QED BY <2>1, <2>2
<1>7. CASE RecordVerdict
  <2>1. pc = "verdict" /\ pc' = "write" /\ job' = job /\ snap' = snap
    BY <1>7 DEF RecordVerdict, server
  <2>2. st \in Status /\ now \in Time
    BY DEF TypeInv, TypeOK, WorkerOK
  <2>3. ASSUME Finished(snap.old.conds)
        PROVE  st'.conds = snap.old.conds
    <3>1. st.conds = snap.old.conds
      BY <2>1, <2>3 DEF VerdictInv
    <3>2. Complete(st, "Failed").conds = st.conds /\ Complete(st, "Failed") \in Status
      BY <2>2, <2>3, <3>1, FrozenConditions, CompleteType DEF ConditionType
    <3>3. ASSUME NEW s \in Status
          PROVE  SettleReplicas(s).conds = s.conds
      BY DEF SettleReplicas, Status
    <3> QED BY <1>7, <2>2, <3>1, <3>2, <3>3 DEF RecordVerdict
  <2> QED BY <2>1, <2>3 DEF VerdictInv
<1>8. CASE WriteStatus
  BY <1>8, VerdictIdle DEF WriteStatus, Done, Retry, WorkerIdle
<1>9. CASE SkipIndex \/ CreatePod \/ CreatePodTimesOut \/ ScaleInPod
  BY <1>9, VerdictFrame DEF SkipIndex, CreatePod, CreatePodTimesOut, ScaleInPod, server
<1>10. CASE CreatePodAlreadyExists \/ CreatePodFails
  BY <1>10, VerdictIdle DEF CreatePodAlreadyExists, CreatePodFails, Retry, WorkerIdle
<1>11. CASE reconcileOnePod
  BY <1>11, VerdictFrame DEF reconcileOnePod, AtPod, server
<1>12. CASE ReconcilePodsEnd \/ RecreatePods
  <2>1. snap'.old = snap.old
    BY <1>12, SlicesType DEF ReconcilePodsEnd, RecreatePods, TypeInv, TypeOK, WorkerOK
  <2> QED BY <1>12, <2>1, VerdictFrame DEF ReconcilePodsEnd, RecreatePods, server
<1>13. CASE PatchFailoverTimestamp
  <2>1. snap'.old = snap.old
    BY <1>13 DEF PatchFailoverTimestamp, TypeInv, TypeOK, WorkerOK, SnapType
  <2>2. pc = "failover" /\ pc' = "services" /\ job' = job
    BY <1>13 DEF PatchFailoverTimestamp, server
  <2> QED BY <2>1, <2>2, VerdictFrame DEF Busy, Reconciling
<1>14. CASE SkipService
  BY <1>14, VerdictFrame DEF SkipService, server
<1>15. CASE CreateService \/ ScaleInService
  <2>1. CASE Retry
    BY <2>1, VerdictIdle DEF Retry, WorkerIdle
  <2>2. CASE ~Retry
    BY <1>15, <2>2, VerdictFrame DEF CreateService, ScaleInService
  <2> QED BY <2>1, <2>2
<1>16. CASE ReconcileServicesEnd
  <2>1. pc = "services" /\ job' = job
    BY <1>16 DEF ReconcileServicesEnd, server
  <2>2. pc' \in {"pods", "status"}
    BY <1>16 DEF ReconcileServicesEnd, EnterType
  <2>3. snap'.old = snap.old
    <3> DEFINE sn == [snap EXCEPT !.replicas = snap.next]
    <3>1. sn \in SnapType /\ sn.old = snap.old
      BY DEF TypeInv, TypeOK, WorkerOK, SnapType
    <3>2. snap' = sn \/ \E rt : snap' \in GetPodSlices(sn, rt)
      BY <1>16 DEF ReconcileServicesEnd, EnterType
    <3> HIDE DEF sn
    <3>3. CASE snap' = sn
      BY <3>1, <3>3
    <3>4. ASSUME NEW rt, snap' \in GetPodSlices(sn, rt)
          PROVE  snap'.old = snap.old
      BY <3>1, <3>4, SlicesType, Zenon
    <3> QED BY <3>2, <3>3, <3>4
  <2> QED BY <2>1, <2>2, <2>3, VerdictFrame
<1>17. CASE UpdateJobStatus
  BY <1>17, VerdictFrame DEF UpdateJobStatus, server
<1> QED BY <1>1, <1>2, <1>3, <1>4, <1>5, <1>6, <1>7, <1>8, <1>9, <1>10, <1>11, <1>12,
           <1>13, <1>14, <1>15, <1>16, <1>17 DEF Sync

(* So do the steps of everyone else. *)
LEMMA OtherVerdict ==
  ASSUME TypeInv, VerdictInv,
         \/ Deliver \/ Resync \/ ExpectationExpires \/ TimerFires \/ Crash
         \/ Kubelet \/ User \/ Tick \/ UNCHANGED vars
  PROVE  VerdictInv'
<1>1. CASE Crash
  BY <1>1, VerdictIdle DEF Crash, WorkerIdle
<1>2. CASE UserEditsJob
  <2>1. job'.st = job.st
    BY <1>2 DEF UserEditsJob, TypeInv, TypeOK, ServerOK, JobType
  <2>2. snap'.old = snap.old
    BY <1>2 DEF UserEditsJob, TypeInv, TypeOK, WorkerOK, SnapType
  <2> QED BY <1>2, <2>1, <2>2, VerdictFrame DEF UserEditsJob, Busy, Reconciling
<1>3. CASE UserDeletesJob
  <2>1. job'.st = job.st
    BY <1>3 DEF UserDeletesJob, TypeInv, TypeOK, ServerOK, JobType
  <2> QED BY <1>3, <2>1, VerdictFrame DEF UserDeletesJob, worker, Busy, Reconciling
<1>4. CASE job' = job /\ UNCHANGED worker
  BY <1>4, VerdictFrame DEF worker, Busy, Reconciling
<1>5. Deliver \/ Resync \/ ExpectationExpires \/ TimerFires \/ Tick \/ UNCHANGED vars
      => job' = job /\ UNCHANGED worker
  BY DEF Deliver, DeliverPod, DeliverService, DeliverJob, Resync, ExpectationExpires,
         TimerFires, Tick, vars, server
<1>6. Kubelet \/ (\E p \in Slots : UserDeletesPod(p)) => job' = job /\ UNCHANGED worker
  BY DEF Kubelet, PodStarts, MainContainerExits, SidecarExits, PodEvicted, PodGone,
         ServiceCollected, UserDeletesPod, rest
<1> QED BY <1>1, <1>2, <1>3, <1>4, <1>5, <1>6 DEF User

(* VerdictInv holds in every reachable state. *)
LEMMA VerdictInvInvariant == Spec => []VerdictInv
<1>1. Init => VerdictInv
  BY DEF Init, VerdictInv, Busy, Reconciling
<1>2. TypeInv /\ VerdictInv /\ [Next]_vars => VerdictInv'
  BY SyncVerdict, OtherVerdict DEF Next
<1> QED BY <1>1, <1>2, TypeInvInvariant, PTL DEF Spec

(* Only WriteStatus changes the status of the job. *)
LEMMA StatusWrites ==
  ASSUME TypeInv, [Next]_vars, job'.st # job.st
  PROVE  pc = "write" /\ job'.st = st
<1>1. CASE WriteStatus
  BY <1>1 DEF WriteStatus, TypeInv, TypeOK, ServerOK, JobType
<1>2. CASE cleanupJob \/ UserEditsJob \/ UserDeletesJob
  BY <1>2 DEF cleanupJob, UserEditsJob, UserDeletesJob, TypeInv, TypeOK, ServerOK, JobType
<1>3. Sync /\ ~WriteStatus /\ ~cleanupJob => job' = job
  BY DEF Sync, ReconcileReadFails, ReconcileCancelled, ReconcileTerminated,
         ReconcileReplicas, CleanPod, CleanService, RecordVerdict, SkipIndex, CreatePod,
         CreatePodAlreadyExists, CreatePodFails, CreatePodTimesOut, ScaleInPod,
         reconcileOnePod, ReconcilePodsEnd, RecreatePods, PatchFailoverTimestamp,
         SkipService, CreateService, ScaleInService, ReconcileServicesEnd,
         UpdateJobStatus, server
<1>4. Deliver \/ Resync \/ ExpectationExpires \/ TimerFires \/ Crash \/ Tick => job' = job
  BY DEF Deliver, DeliverPod, DeliverService, DeliverJob, Resync, ExpectationExpires,
         TimerFires, Crash, Tick, server
<1>5. Kubelet \/ (\E p \in Slots : UserDeletesPod(p)) => job' = job
  BY DEF Kubelet, PodStarts, MainContainerExits, SidecarExits, PodEvicted, PodGone,
         ServiceCollected, UserDeletesPod, rest
<1>6. UNCHANGED vars => job' = job
  BY DEF vars, server
<1> QED BY <1>1, <1>2, <1>3, <1>4, <1>5, <1>6 DEF Next, User

(***************************************************************************)
(* No execution of the engine, whatever fails, crashes or is edited, takes *)
(* a verdict back or adds a condition to a job that has one.               *)
(***************************************************************************)
THEOREM VerdictFinal == Spec => VerdictIsFinal
<1>1. TypeInv /\ VerdictInv /\ [Next]_vars
        => (Finished(job.st.conds) => job'.st.conds = job.st.conds)
  <2> SUFFICES ASSUME TypeInv, VerdictInv, [Next]_vars, Finished(job.st.conds),
                      job'.st # job.st
               PROVE  job'.st.conds = job.st.conds
    OBVIOUS
  <2>1. pc = "write" /\ job'.st = st
    BY StatusWrites
  <2> QED BY <2>1 DEF VerdictInv, Busy
<1> QED BY <1>1, TypeInvInvariant, VerdictInvInvariant, PTL DEF Spec, VerdictIsFinal

-----------------------------------------------------------------------------
(* Nobody but the worker's loop over the replica types creates a pod. *)

Creates == \E p \in Slots : Exists(pods'[p]) /\ ~Exists(pods[p])

(* Rewriting a pod that exists creates none. *)
LEMMA WriteExisting ==
  ASSUME TypeInv, NEW p \in Slots, NEW pod, WritePod(p, pod),
         Exists(pods[p]) \/ ~Exists(pod)
  PROVE  ~Creates
  BY DEF Creates, WritePod, TypeInv, TypeOK, ServerOK

(* Neither does DeletePod, whether it succeeds or fails. *)
LEMMA DeleteCreatesNothing ==
  ASSUME TypeInv, NEW p \in Slots, DeletePodOK(p) \/ DeletePodFails(p)
  PROVE  ~Creates
<1>1. CASE UNCHANGED pods
  BY <1>1 DEF Creates
<1>2. CASE Exists(pods[p]) /\ WritePod(p, Terminating(pods[p]))
  BY <1>2, WriteExisting
<1> QED BY <1>1, <1>2 DEF DeletePodOK, DeletePodFails

(* Only the loop over the replica types, which a finished job never enters, creates pods. *)
LEMMA OnlyLoopCreates ==
  ASSUME TypeInv, [Next]_vars, Creates
  PROVE  Reconciling
<1>1. CASE CreatePod \/ CreatePodTimesOut
  BY <1>1 DEF CreatePod, CreatePodTimesOut, MissingPod, AtPod, Reconciling
<1>2. CASE CleanPod
  <2>1. PICK p \in todo : DeletePodOK(p) \/ DeletePodFails(p)
    BY <1>2 DEF CleanPod
  <2> QED BY <2>1, DeleteCreatesNothing DEF TypeInv, TypeOK, WorkerOK
<1>3. CASE ScaleInPod
  BY <1>3 DEF ScaleInPod, AtPod, Reconciling
<1>4. CASE RecreatePods
  BY <1>4 DEF RecreatePods, Reconciling
<1>5. ASSUME NEW p \in Slots,
             \/ PodStarts(p) \/ MainContainerExits(p) \/ SidecarExits(p)
             \/ PodEvicted(p) \/ PodGone(p) \/ UserDeletesPod(p)
      PROVE  FALSE
  <2>1. PICK pod : WritePod(p, pod) /\ (Exists(pods[p]) \/ ~Exists(pod))
    BY <1>5 DEF PodStarts, MainContainerExits, SidecarExits, PodEvicted, PodGone,
                UserDeletesPod, Exists, NoPod
  <2> QED BY <2>1, WriteExisting
<1>6. UNCHANGED pods => FALSE
  BY DEF Creates
<1>7. CASE Sync /\ ~CreatePod /\ ~CreatePodTimesOut /\ ~CleanPod /\ ~ScaleInPod /\ ~RecreatePods
  <2>1. UNCHANGED pods
    BY <1>7 DEF Sync, ReconcileReadFails, ReconcileCancelled, ReconcileTerminated,
         ReconcileReplicas, CleanService, cleanupJob, RecordVerdict, WriteStatus, SkipIndex,
         CreatePodAlreadyExists, CreatePodFails, reconcileOnePod, ReconcilePodsEnd,
         PatchFailoverTimestamp, SkipService, CreateService, ScaleInService,
         ReconcileServicesEnd, UpdateJobStatus, server
  <2> QED BY <1>6, <2>1
<1>8. CASE \/ Deliver \/ Resync \/ ExpectationExpires \/ TimerFires \/ Crash \/ Tick
           \/ UserEditsJob \/ UserDeletesJob \/ (\E p \in Slots : ServiceCollected(p))
           \/ UNCHANGED vars
  <2>1. UNCHANGED pods
    BY <1>8 DEF Deliver, DeliverPod, DeliverService, DeliverJob, Resync,
         ExpectationExpires, TimerFires, Crash, Tick, UserEditsJob, UserDeletesJob,
         ServiceCollected, vars, server
  <2> QED BY <1>6, <2>1
<1> QED BY <1>1, <1>2, <1>3, <1>4, <1>5, <1>7, <1>8 DEF Next, Kubelet, User

(***************************************************************************)
(* Once a verdict is on the API server, no pod of the job is created any   *)
(* more, however far the caches, the expectations or the edits of the      *)
(* replicas have run ahead or behind.                                      *)
(***************************************************************************)
THEOREM NothingAfterVerdict == Spec => NoPodAfterVerdict
<1>1. TypeInv /\ VerdictInv /\ [Next]_vars
        => (Finished(job.st.conds) =>
              \A p \in Slots : Exists(pods'[p]) => Exists(pods[p]))
  <2> SUFFICES ASSUME TypeInv, VerdictInv, [Next]_vars, Creates
               PROVE  ~Finished(job.st.conds)
    BY DEF Creates
  <2>1. Reconciling
    BY OnlyLoopCreates
  <2> QED BY <2>1 DEF VerdictInv, Busy, Reconciling
<1> QED BY <1>1, TypeInvInvariant, VerdictInvInvariant, PTL DEF Spec, NoPodAfterVerdict

-----------------------------------------------------------------------------
(***************************************************************************)
(* What a copy of a pod says has happened to the pod of its slot.  Copies  *)
(* are on the watch, in the cache and in the hands of the worker.          *)
(***************************************************************************)
Tells(pod, p) ==
  /\ pod.exit = "retry" => p \in retryable
  /\ pod.phase = "Succeeded" => p \in won
  /\ pod.phase = "Failed" => p \in lost

(* The same of the state after a step. *)
TellsNext(pod, p) ==
  /\ pod.exit = "retry" => p \in retryable'
  /\ pod.phase = "Succeeded" => p \in won'
  /\ pod.phase = "Failed" => p \in lost'

Copied ==
  /\ \A p \in Slots : Tells(podCache[p], p)
  /\ \A i \in DOMAIN podWatch : Tells(podWatch[i].pod, podWatch[i].slot)
  /\ \A p \in Slots : Tells(snap.pods[p], p)

Stored == \A p \in Slots : Tells(pods[p], p)

(* The pods an idle worker holds, and those it fails over. *)
Chosen ==
  /\ pc = "idle" => todo = {}
  /\ Reconciling => \A p \in todo : p \in retryable /\ RestartPolicy[p[1]] = "ExitCode"

(* Where the events, the cache and the worker's pods come from. *)
WatchFollows ==
  \/ podWatch' = podWatch \/ podWatch' = << >>
  \/ podWatch # << >> /\ podWatch' = Tail(podWatch)
  \/ \E p \in Slots : podWatch' = Append(podWatch, [slot |-> p, pod |-> pods'[p]])

CacheFollows ==
  \/ podCache' = podCache \/ podCache' = pods'
  \/ /\ podWatch # << >>
     /\ podCache' = [podCache EXCEPT ![Head(podWatch).slot] = Head(podWatch).pod]

SnapFollows == \A p \in Slots : snap'.pods[p] \in {snap.pods[p], podCache[p], NoPod}

(* A write to a pod puts the pod it wrote on the watch. *)
LEMMA WriteFollows ==
  ASSUME TypeInv, NEW p \in Slots, NEW pod, WritePod(p, pod)
  PROVE  WatchFollows
<1>1. pods'[p] = pod
  BY DEF WritePod, TypeInv, TypeOK, ServerOK
<1> QED BY <1>1 DEF WritePod, WatchFollows

(* So does DeletePod, or it leaves the watch alone. *)
LEMMA DeleteFollows ==
  ASSUME TypeInv, NEW p \in Slots, DeletePodOK(p) \/ DeletePodFails(p)
  PROVE  WatchFollows
<1>1. UNCHANGED podWatch \/ WritePod(p, Terminating(pods[p]))
  BY DEF DeletePodOK, DeletePodFails
<1> QED BY <1>1, WriteFollows DEF WatchFollows

(* GetPodSlices and GetServiceSlices keep some of the pods that were read. *)
LEMMA SlicesFollow ==
  ASSUME NEW sn \in SnapType, NEW rt, NEW x \in GetPodSlices(sn, rt) \cup GetServiceSlices(sn, rt)
  PROVE  \A p \in Slots : x.pods[p] \in {sn.pods[p], NoPod}
<1>1. CASE x \in GetPodSlices(sn, rt)
  <2>1. PICK kept : x = [sn EXCEPT !.pods =
                           [p \in Slots |-> IF p \in kept THEN sn.pods[p] ELSE NoPod]]
    BY <1>1 DEF GetPodSlices
  <2>2. x.pods = [p \in Slots |-> IF p \in kept THEN sn.pods[p] ELSE NoPod]
    BY <2>1 DEF SnapType
  <2> QED BY <2>2
<1>2. CASE x \in GetServiceSlices(sn, rt)
  <2>1. PICK kept : x = [sn EXCEPT !.svcs = kept]
    BY <1>2 DEF GetServiceSlices
  <2>2. x.pods = sn.pods
    BY <2>1 DEF SnapType
  <2> QED BY <2>2
<1> QED BY <1>1, <1>2

(* An idle worker holds no pods. *)
LEMMA IdleFollows == WorkerIdle => SnapFollows
  BY DEF WorkerIdle, SnapFollows, NoSnap

(* The steps of the worker make no other copies. *)
LEMMA SyncFollows ==
  ASSUME TypeInv, Sync
  PROVE  WatchFollows /\ CacheFollows /\ SnapFollows
<1>0. CurrentSlot \in Slots \/ ~(AtPod \/ AtService)
  BY CurrentSlotType
<1>1. CacheFollows
  BY DEF Sync, CacheFollows, ReconcileReadFails, ReconcileCancelled, ReconcileTerminated,
         ReconcileReplicas, CleanPod, CleanService, cleanupJob, RecordVerdict, WriteStatus,
         SkipIndex, CreatePod, CreatePodAlreadyExists, CreatePodFails, CreatePodTimesOut,
         ScaleInPod, reconcileOnePod, ReconcilePodsEnd, RecreatePods, PatchFailoverTimestamp,
         SkipService, CreateService, ScaleInService, ReconcileServicesEnd,
         UpdateJobStatus, informer
<1>2. WatchFollows
  <2>1. CASE CleanPod \/ RecreatePods
    <3>1. PICK p \in todo : DeletePodOK(p) \/ DeletePodFails(p)
      BY <2>1 DEF CleanPod, RecreatePods
    <3> QED BY <3>1, DeleteFollows DEF TypeInv, TypeOK, WorkerOK
  <2>2. CASE ScaleInPod
    BY <1>0, <2>2, DeleteFollows DEF ScaleInPod
  <2>3. CASE CreatePod \/ CreatePodTimesOut
    <3>1. CurrentSlot \in Slots
      BY <1>0, <2>3 DEF CreatePod, CreatePodTimesOut, MissingPod
    <3>2. UNCHANGED podWatch \/ WritePod(CurrentSlot, NewPod)
      BY <2>3 DEF CreatePod, CreatePodTimesOut, createPods
    <3> QED BY <3>1, <3>2, WriteFollows DEF WatchFollows
  <2>4. CASE ~CleanPod /\ ~RecreatePods /\ ~ScaleInPod /\ ~CreatePod /\ ~CreatePodTimesOut
    BY <2>4 DEF Sync, WatchFollows, ReconcileReadFails, ReconcileCancelled, ReconcileTerminated,
         ReconcileReplicas, CleanService, cleanupJob, RecordVerdict, WriteStatus,
         SkipIndex, CreatePodAlreadyExists, CreatePodFails, reconcileOnePod, ReconcilePodsEnd,
         PatchFailoverTimestamp, SkipService, CreateService, ScaleInService,
         ReconcileServicesEnd, UpdateJobStatus, informer
  <2> QED BY <2>1, <2>2, <2>3, <2>4
<1>3. SnapFollows
  <2>0. snap \in SnapType /\ Snapshot \in SnapType /\ Snapshot.pods = podCache
    BY SnapshotType DEF TypeInv, TypeOK, WorkerOK, Snapshot
  <2>1. CASE WorkerIdle
    BY <2>1, IdleFollows
  <2>2. CASE snap' = snap
    BY <2>2 DEF SnapFollows
  <2>3. CASE ReconcileTerminated
    <3>1. snap'.pods = podCache
      BY <2>3 DEF ReconcileTerminated, Snapshot
    <3> QED BY <3>1 DEF SnapFollows
  <2>4. CASE ReconcileReplicas
    <3>1. snap' = Snapshot \/ \E rt : snap' \in GetPodSlices(Snapshot, rt)
      BY <2>4 DEF ReconcileReplicas, EnterType
    <3> QED BY <2>0, <3>1, SlicesFollow DEF SnapFollows
  <2>5. CASE ReconcilePodsEnd
    <3>1. snap' \in GetServiceSlices(snap, CurrentType)
      BY <2>5 DEF ReconcilePodsEnd
    <3> QED BY <2>0, <3>1, SlicesFollow DEF SnapFollows
  <2>6. CASE PatchFailoverTimestamp
    <3>1. snap'.pods = snap.pods
      BY <2>0, <2>6 DEF PatchFailoverTimestamp, SnapType
    <3> QED BY <3>1 DEF SnapFollows
  <2>7. CASE ReconcileServicesEnd
    <3> DEFINE sn == [snap EXCEPT !.replicas = snap.next]
    <3>1. sn \in SnapType /\ sn.pods = snap.pods
      BY <2>0 DEF SnapType
    <3>2. snap' = sn \/ \E rt : snap' \in GetPodSlices(sn, rt)
      BY <2>7 DEF ReconcileServicesEnd, EnterType
    <3> HIDE DEF sn
    <3> QED BY <3>1, <3>2, SlicesFollow DEF SnapFollows
  <2>8. \/ ReconcileTerminated \/ ReconcileReplicas \/ ReconcilePodsEnd
        \/ PatchFailoverTimestamp \/ ReconcileServicesEnd
        \/ WorkerIdle \/ snap' = snap
    BY DEF Sync, ReconcileReadFails, ReconcileCancelled, CleanPod, CleanService, cleanupJob,
         RecordVerdict, WriteStatus, SkipIndex, CreatePod, CreatePodAlreadyExists,
         CreatePodFails, CreatePodTimesOut, ScaleInPod, reconcileOnePod, RecreatePods,
         SkipService, CreateService, ScaleInService, UpdateJobStatus, worker, Retry, Done
  <2> QED BY <2>1, <2>2, <2>3, <2>4, <2>5, <2>6, <2>7, <2>8
<1> QED BY <1>1, <1>2, <1>3

(* Neither do the steps of everyone else. *)
LEMMA OthersFollow ==
  ASSUME TypeInv,
         \/ Deliver \/ Resync \/ ExpectationExpires \/ TimerFires \/ Crash
         \/ Kubelet \/ User \/ Tick \/ UNCHANGED vars
  PROVE  WatchFollows /\ CacheFollows /\ SnapFollows
<1> USE DEF WatchFollows, CacheFollows, SnapFollows
<1>1. CASE DeliverPod
  BY <1>1 DEF DeliverPod, worker
<1>2. CASE Crash
  BY <1>2, IdleFollows DEF Crash, server
<1>3. CASE UserEditsJob
  <2>1. snap'.pods = snap.pods
    BY <1>3 DEF UserEditsJob, TypeInv, TypeOK, WorkerOK, SnapType
  <2> QED BY <1>3, <2>1 DEF UserEditsJob
<1>4. CASE \/ DeliverService \/ DeliverJob \/ Resync \/ ExpectationExpires \/ TimerFires
           \/ UserDeletesJob \/ Tick \/ UNCHANGED vars \/ \E p \in Slots : ServiceCollected(p)
  BY <1>4 DEF DeliverService, DeliverJob, Resync, ExpectationExpires, TimerFires,
         UserDeletesJob, Tick, vars, informer, worker, ServiceCollected
<1>5. ASSUME NEW p \in Slots,
             \/ PodStarts(p) \/ MainContainerExits(p) \/ SidecarExits(p)
             \/ PodEvicted(p) \/ PodGone(p) \/ UserDeletesPod(p)
      PROVE  WatchFollows /\ CacheFollows /\ SnapFollows
  <2>1. PICK pod : WritePod(p, pod)
    BY <1>5 DEF PodStarts, MainContainerExits, SidecarExits, PodEvicted, PodGone, UserDeletesPod
  <2>2. podCache' = podCache /\ snap' = snap
    BY <1>5 DEF PodStarts, MainContainerExits, SidecarExits, PodEvicted, PodGone,
                UserDeletesPod, rest, worker
  <2> QED BY <2>1, <2>2, WriteFollows
<1> QED BY <1>1, <1>2, <1>3, <1>4, <1>5 DEF Deliver, Kubelet, User

-----------------------------------------------------------------------------
(* What happened has happened. *)
LEMMA Remembered ==
  ASSUME HNext \/ UNCHANGED HVars
  PROVE  /\ won \subseteq won' /\ lost \subseteq lost' /\ retryable \subseteq retryable'
         /\ HNext \/ (UNCHANGED vars /\ won' = won /\ lost' = lost /\ retryable' = retryable)
  BY DEF HNext, HVars

(* So a copy that told the truth tells it after every step. *)
LEMMA TellsStays ==
  ASSUME HNext \/ UNCHANGED HVars, NEW pod, NEW p, Tells(pod, p)
  PROVE  TellsNext(pod, p)
  BY Remembered DEF Tells, TellsNext

(* The history sees every pod of the API server. *)
LEMMA StoredStep ==
  ASSUME Stored, HNext \/ UNCHANGED HVars
  PROVE  Stored'
<1>1. CASE HNext
  BY <1>1 DEF HNext, Having, Stored, Tells
<1>2. CASE UNCHANGED HVars
  BY <1>2 DEF HVars, vars, server, Stored, Tells
<1> QED BY <1>1, <1>2

(* Copies are made of copies and of the pods of the API server. *)
LEMMA CopiedStep ==
  ASSUME TypeInv, TypeInv', Stored, Copied, HNext \/ UNCHANGED HVars
  PROVE  Copied'
<1>0. WatchFollows /\ CacheFollows /\ SnapFollows
  BY SyncFollows, OthersFollow, Remembered DEF HNext, Next
<1>1. \A p \in Slots : TellsNext(pods'[p], p)
  BY StoredStep DEF Stored, Tells, TellsNext
<1>2. podWatch \in Seq([slot : Slots, pod : Pod])
  BY DEF TypeInv, TypeOK, InformerOK
<1>3. \A p \in Slots : TellsNext(podCache'[p], p)
  <2>1. CASE podCache' = podCache
    BY <2>1, TellsStays DEF Copied
  <2>2. CASE podCache' = pods'
    BY <1>1, <2>2
  <2>3. CASE /\ podWatch # << >>
             /\ podCache' = [podCache EXCEPT ![Head(podWatch).slot] = Head(podWatch).pod]
    <3>1. 1 \in DOMAIN podWatch /\ Head(podWatch) = podWatch[1]
      BY <1>2, <2>3
    <3>2. podCache \in [Slots -> Pod]
      BY DEF TypeInv, TypeOK, InformerOK
    <3>3. TAKE p \in Slots
    <3>4. CASE p = Head(podWatch).slot
      BY <2>3, <3>1, <3>2, <3>4, TellsStays DEF Copied
    <3>5. CASE p # Head(podWatch).slot
      BY <2>3, <3>2, <3>5, TellsStays DEF Copied
    <3> QED BY <3>4, <3>5
  <2> QED BY <1>0, <2>1, <2>2, <2>3 DEF CacheFollows
<1>4. \A i \in DOMAIN podWatch' : TellsNext(podWatch'[i].pod, podWatch'[i].slot)
  <2>1. CASE podWatch' = podWatch \/ podWatch' = << >>
    BY <2>1, TellsStays DEF Copied
  <2>2. CASE podWatch # << >> /\ podWatch' = Tail(podWatch)
    <3>1. \A i \in DOMAIN podWatch' : i + 1 \in DOMAIN podWatch /\ podWatch'[i] = podWatch[i + 1]
      BY <1>2, <2>2
    <3> QED BY <3>1, TellsStays DEF Copied
  <2>3. CASE \E p \in Slots : podWatch' = Append(podWatch, [slot |-> p, pod |-> pods'[p]])
    <3>1. PICK p \in Slots : podWatch' = Append(podWatch, [slot |-> p, pod |-> pods'[p]])
      BY <2>3
    <3>2. ASSUME NEW i \in DOMAIN podWatch'
          PROVE  \/ i \in DOMAIN podWatch /\ podWatch'[i] = podWatch[i]
                 \/ podWatch'[i].slot = p /\ podWatch'[i].pod = pods'[p]
      <4>1. pods' \in [Slots -> Pod]
        BY DEF TypeInv, TypeOK, ServerOK
      <4> QED BY <1>2, <3>1, <4>1
    <3>3. TellsNext(pods'[p], p)
      BY <1>1
    <3> QED BY <3>2, <3>3, TellsStays DEF Copied
  <2> QED BY <1>0, <2>1, <2>2, <2>3 DEF WatchFollows
<1>5. \A p \in Slots : TellsNext(snap'.pods[p], p)
  <2>1. \A p : TellsNext(NoPod, p)
    BY DEF NoPod, TellsNext
  <2> QED BY <1>0, <2>1, TellsStays DEF SnapFollows, Copied
<1> QED BY <1>3, <1>4, <1>5 DEF Copied, Tells, TellsNext

(* The worker fails over what its copies say has ended with a retryable code. *)
LEMMA ChosenStep ==
  ASSUME TypeInv, Copied, Chosen, HNext \/ UNCHANGED HVars
  PROVE  Chosen'
<1> USE DEF Reconciling
<1>0. retryable \subseteq retryable' /\ ([Next]_vars)
  BY Remembered DEF HNext
<1>1. CASE WorkerIdle
  BY <1>1 DEF WorkerIdle, Chosen
<1>2. CASE (Reconciling' => Reconciling) /\ todo' \subseteq todo /\ pc' # "idle"
  BY <1>0, <1>2 DEF Chosen
<1>3. CASE UNCHANGED <<pc, todo>>
  BY <1>0, <1>3 DEF Chosen
<1>4. CASE ReconcileReplicas
  <2>1. todo' = {} /\ pc' # "idle"
    BY <1>4 DEF ReconcileReplicas, Dequeue, Chosen, EnterType
  <2> QED BY <2>1 DEF Chosen
<1>5. CASE ReconcileTerminated
  BY <1>5 DEF ReconcileTerminated, Chosen
<1>6. CASE reconcileOnePod
  <2>1. CurrentSlot \in Slots /\ CurrentSlot[1] = CurrentType
    BY <1>6, CurrentSlotType DEF reconcileOnePod, CurrentSlot
  <2>2. pc' = "pods" /\ pc = "pods"
    BY <1>6 DEF reconcileOnePod, AtPod
  <2>3. \/ todo' = todo
        \/ todo' = todo \cup {CurrentSlot} /\ ShouldPodFailOver(CurrentType, snap.pods[CurrentSlot])
    BY <1>6 DEF reconcileOnePod
  <2>4. CASE todo' = todo
    BY <1>0, <2>2, <2>4 DEF Chosen
  <2>5. CASE todo' = todo \cup {CurrentSlot} /\ ShouldPodFailOver(CurrentType, snap.pods[CurrentSlot])
    <3>1. CurrentSlot \in retryable /\ RestartPolicy[CurrentSlot[1]] = "ExitCode"
      BY <2>1, <2>5 DEF ShouldPodFailOver, Copied, Tells
    <3> QED BY <1>0, <2>2, <2>5, <3>1 DEF Chosen
  <2> QED BY <2>3, <2>4, <2>5
<1>7. CASE Sync
  <2>1. \/ WorkerIdle \/ UNCHANGED <<pc, todo>>
        \/ ReconcileReplicas \/ ReconcileTerminated \/ reconcileOnePod
        \/ (Reconciling' => Reconciling) /\ todo' \subseteq todo /\ pc' # "idle"
    BY <1>7 DEF Sync, ReconcileReadFails, ReconcileCancelled, CleanPod, CleanService, cleanupJob,
         RecordVerdict, WriteStatus, SkipIndex, CreatePod, CreatePodAlreadyExists,
         CreatePodFails, CreatePodTimesOut, ScaleInPod, ReconcilePodsEnd, RecreatePods,
         PatchFailoverTimestamp, SkipService, CreateService, ScaleInService,
         ReconcileServicesEnd, EnterType, UpdateJobStatus, worker, Retry, Done
  <2> QED BY <1>1, <1>2, <1>3, <1>4, <1>5, <1>6, <2>1
<1>8. CASE ~Sync
  <2>1. WorkerIdle \/ UNCHANGED <<pc, todo>>
    BY <1>0, <1>8 DEF Next, Deliver, DeliverPod, DeliverService, DeliverJob, Resync,
         ExpectationExpires, TimerFires, Crash, Kubelet, PodStarts, MainContainerExits,
         SidecarExits, PodEvicted, PodGone, ServiceCollected, User, UserEditsJob,
         UserDeletesJob, UserDeletesPod, Tick, rest, worker, vars
  <2> QED BY <1>1, <1>3, <2>1
<1> QED BY <1>7, <1>8

(* The history variables record a behaviour of the engine. *)
LEMMA HistoryOnly == HSpec => Spec
<1>1. HInit => Init
  BY DEF HInit
<1>2. [HNext]_HVars => [Next]_vars
  BY DEF HNext, HVars
<1> QED BY <1>1, <1>2, PTL DEF HSpec, Spec

(* What is told has happened, in every reachable state. *)
LEMMA TruthInvariant == HSpec => [](Stored /\ Copied /\ Chosen)
<1>1. HInit => Stored /\ Copied /\ Chosen
  BY DEF HInit, Init, Stored, Copied, Chosen, Tells, NoPod, NoSnap, Reconciling
<1>2. TypeInv /\ TypeInv' /\ Stored /\ Copied /\ Chosen /\ [HNext]_HVars
        => (Stored /\ Copied /\ Chosen)'
  BY StoredStep, CopiedStep, ChosenStep
<1> QED BY <1>1, <1>2, HistoryOnly, TypeInvInvariant, PTL DEF HSpec

(* While it reconciles, the worker takes pods away only by a failover or out of range. *)
LEMMA TakesAway ==
  ASSUME TypeInv, [Next]_vars, Reconciling, worker' # worker,
         NEW p \in Slots, pods'[p].del, ~pods[p].del
  PROVE  p \in todo \/ p[2] >= snap.replicas[p[1]]
<1> USE DEF Reconciling
<1>1. CASE RecreatePods
  <2>1. PICK q \in todo : DeletePodOK(q) \/ DeletePodFails(q)
    BY <1>1 DEF RecreatePods
  <2>2. UNCHANGED pods \/ WritePod(q, Terminating(pods[q]))
    BY <2>1 DEF DeletePodOK, DeletePodFails
  <2> QED BY <2>2 DEF WritePod, TypeInv, TypeOK, ServerOK
<1>2. CASE ScaleInPod
  <2>1. UNCHANGED pods \/ WritePod(CurrentSlot, Terminating(pods[CurrentSlot]))
    BY <1>2 DEF ScaleInPod, DeletePodOK, DeletePodFails
  <2>2. p = CurrentSlot
    BY <2>1 DEF WritePod, TypeInv, TypeOK, ServerOK
  <2> QED BY <1>2, <2>2 DEF ScaleInPod, CurrentSlot
<1>3. CASE CreatePod \/ CreatePodTimesOut
  <2>1. UNCHANGED pods \/ WritePod(CurrentSlot, NewPod)
    BY <1>3 DEF CreatePod, CreatePodTimesOut, createPods
  <2> QED BY <2>1 DEF WritePod, NewPod, NoPod, TypeInv, TypeOK, ServerOK
<1>4. CASE /\ Sync /\ ~RecreatePods /\ ~ScaleInPod /\ ~CreatePod /\ ~CreatePodTimesOut
  <2>1. pods' = pods
    BY <1>4 DEF Sync, ReconcileReadFails, ReconcileCancelled, ReconcileTerminated,
         ReconcileReplicas, CleanPod, CleanService, cleanupJob, RecordVerdict, WriteStatus,
         SkipIndex, CreatePodAlreadyExists, CreatePodFails, reconcileOnePod, ReconcilePodsEnd,
         PatchFailoverTimestamp, SkipService, CreateService, ScaleInService,
         ReconcileServicesEnd, UpdateJobStatus, server
  <2> QED BY <2>1
<1>5. CASE ~Sync
  <2>1. UNCHANGED worker \/ UNCHANGED pods
    BY <1>5 DEF Next, Deliver, DeliverPod, DeliverService, DeliverJob, Resync,
         ExpectationExpires, TimerFires, Crash, Kubelet, PodStarts, MainContainerExits,
         SidecarExits, PodEvicted, PodGone, ServiceCollected, User, UserEditsJob,
         UserDeletesJob, UserDeletesPod, Tick, rest, server, vars
  <2> QED BY <2>1
<1> QED BY <1>1, <1>2, <1>3, <1>4, <1>5

(***************************************************************************)
(* Whatever is late, lost or done twice, a failover takes away a pod only  *)
(* from a slot whose pod has ended with a retryable code under the policy  *)
(* ExitCode, or from one that is out of range.                             *)
(***************************************************************************)
THEOREM FailOverEarned == HSpec => FailOverIsEarned
<1>1. TypeInv /\ Chosen /\ [HNext]_HVars => DeletesEarned
  <2> SUFFICES ASSUME TypeInv, Chosen, [HNext]_HVars, Reconciling, worker' # worker,
                      NEW p \in Slots, pods'[p].del, ~pods[p].del
               PROVE  \/ p \in retryable /\ RestartPolicy[p[1]] = "ExitCode"
                      \/ p[2] >= snap.replicas[p[1]]
    BY DEF DeletesEarned
  <2>1. [Next]_vars
    BY DEF HNext, HVars
  <2> QED BY <2>1, TakesAway DEF Chosen
<1> QED BY <1>1, HistoryOnly, TypeInvInvariant, TruthInvariant, PTL DEF HSpec, FailOverIsEarned

-----------------------------------------------------------------------------
(***************************************************************************)
(* Verdicts.  The worker counts pods; what it counts is compared here with *)
(* the indexes below n whose pod has succeeded, w being the slots that     *)
(* ever did.                                                               *)
(***************************************************************************)
WonIndexes(w, rt, n) == {i \in 0..n - 1 : i < Replicas[rt] /\ <<rt, i>> \in w}
Won(w, rt, n) == Cardinality(WonIndexes(w, rt, n))

(* The replica counts of a status are covered by what happened. *)
Counts(status, w) ==
  \A rt \in RTypes : status.replicas[rt].succeeded <= Won(w, rt, MaxReplicas)
Fails(status, l) == \A rt \in RTypes : status.replicas[rt].failed # 0 => l # {}

(* Every replica of a type has succeeded. *)
AllWon(w, rt) == \A p \in Slots : p[1] = rt /\ p[2] < Replicas[rt] => p \in w

(* What entitles a job to succeed. *)
Deserved(w) ==
  /\ AllWorkers => AllWon(w, "Worker")
  /\ IF HasMaster
     THEN \E m \in RTypes \cap {"Chief", "Master"} : AllWon(w, m)
     ELSE \A p \in Slots : p = <<"Worker", 0>> /\ p[2] < Replicas[p[1]] => p \in w

Unscaled == job.replicas = Replicas

RepsTold == snap.replicas = Replicas /\ snap.next = Replicas
FailsTold == Fails(st, lost) /\ Fails(job.st, lost)
CountsTold ==
  /\ ~Finished(job.st.conds) => Counts(job.st, won)
  /\ Busy /\ (Reconciling \/ ~Finished(st.conds)) => Counts(st, won)
CursorTold ==
  /\ pc = "pods" => st.replicas[CurrentType].succeeded <= Won(won, CurrentType, cursor.i)
  /\ pc = "status" /\ cursor.worker0 => <<"Worker", 0>> \in won
EarnedTold ==
  Busy /\ ~Finished(snap.old.conds) =>
    /\ IsSucceeded(st.conds) => Deserved(won)
    /\ IsFailed(st.conds) => snap.exceeds \/ lost # {}

Tallied == RepsTold /\ FailsTold /\ CountsTold /\ CursorTold /\ EarnedTold

(* Counts grow with the range and with what happens. *)
LEMMA WonGrows ==
  ASSUME NEW w, NEW x, w \subseteq x, NEW rt, NEW n \in Nat, NEW m \in Nat, n <= m
  PROVE  /\ Won(w, rt, n) \in Nat /\ Won(x, rt, m) \in Nat
         /\ Won(w, rt, n) <= Won(x, rt, m)
<1>1. IsFiniteSet(0..n - 1) /\ IsFiniteSet(0..m - 1)
  BY FS_Interval
<1>2. WonIndexes(w, rt, n) \subseteq 0..n - 1 /\ WonIndexes(x, rt, m) \subseteq 0..m - 1
  BY DEF WonIndexes
<1>3. IsFiniteSet(WonIndexes(w, rt, n)) /\ IsFiniteSet(WonIndexes(x, rt, m))
  BY <1>1, <1>2, FS_Subset
<1>4. WonIndexes(w, rt, n) \subseteq WonIndexes(x, rt, m)
  BY DEF WonIndexes
<1>5. Cardinality(WonIndexes(w, rt, n)) \in Nat /\ Cardinality(WonIndexes(x, rt, m)) \in Nat
  BY <1>3, FS_CardinalityType
<1>6. Cardinality(WonIndexes(w, rt, n)) <= Cardinality(WonIndexes(x, rt, m))
  BY <1>3, <1>4, FS_Subset
<1> QED BY <1>5, <1>6 DEF Won

(* One more pod that succeeded. *)
LEMMA WonOneMore ==
  ASSUME NEW w, NEW rt, NEW i \in Nat, i < Replicas[rt], <<rt, i>> \in w
  PROVE  Won(w, rt, i) + 1 <= Won(w, rt, i + 1)
<1>1. IsFiniteSet(0..i - 1) /\ IsFiniteSet(0..i)
  BY FS_Interval
<1>2. /\ WonIndexes(w, rt, i) \subseteq 0..i - 1 /\ i \notin WonIndexes(w, rt, i)
      /\ WonIndexes(w, rt, i + 1) \subseteq 0..i
  BY DEF WonIndexes
<1>3. IsFiniteSet(WonIndexes(w, rt, i)) /\ IsFiniteSet(WonIndexes(w, rt, i + 1))
  BY <1>1, <1>2, FS_Subset
<1>4. WonIndexes(w, rt, i) \cup {i} \subseteq WonIndexes(w, rt, i + 1)
  BY DEF WonIndexes
<1>5. Cardinality(WonIndexes(w, rt, i) \cup {i}) = Cardinality(WonIndexes(w, rt, i)) + 1
  BY <1>2, <1>3, FS_AddElement
<1>6. Cardinality(WonIndexes(w, rt, i) \cup {i}) <= Cardinality(WonIndexes(w, rt, i + 1))
  BY <1>3, <1>4, FS_Subset
<1> QED BY <1>5, <1>6 DEF Won

(* As many successes as replicas: every replica has succeeded. *)
LEMMA WonEverything ==
  ASSUME NEW w, NEW rt \in RTypes, Replicas[rt] <= Won(w, rt, MaxReplicas)
  PROVE  AllWon(w, rt)
<1> SUFFICES ASSUME NEW p \in Slots, p[1] = rt, p[2] < Replicas[rt], p \notin w
             PROVE  FALSE
  BY DEF AllWon
<1>1. PICK n \in Nat : n = Replicas[rt]
  BY JobAssumption
<1>2. n \in 0..MaxReplicas /\ MaxReplicas \in Nat
  BY <1>1, JobAssumption
<1>3. p[2] \in 0..n - 1 /\ p = <<rt, p[2]>> /\ 0 <= n - 1
  BY <1>1, <1>2 DEF Slots
<1>4. IsFiniteSet((0..n - 1) \ {p[2]}) /\ Cardinality((0..n - 1) \ {p[2]}) = n - 1
  <2>1. IsFiniteSet(0..n - 1) /\ Cardinality(0..n - 1) = n
    <3>1. Cardinality(0..n - 1) = IF 0 > n - 1 THEN 0 ELSE n - 1 - 0 + 1
      BY FS_Interval, n - 1 \in Int
    <3> QED BY <1>3, <3>1, FS_Interval
  <2> DEFINE S == 0..n - 1
  <2>2. p[2] \in S /\ IsFiniteSet(S) /\ Cardinality(S) = n
    BY <1>3, <2>1
  <2> HIDE DEF S
  <2>3. IsFiniteSet(S \ {p[2]}) /\ Cardinality(S \ {p[2]}) = Cardinality(S) - 1
    BY <2>2, FS_RemoveElement
  <2>4. IsFiniteSet(S \ {p[2]}) /\ Cardinality(S \ {p[2]}) = n - 1
    BY <2>2, <2>3
  <2> QED BY <2>4 DEF S
<1>5. WonIndexes(w, rt, MaxReplicas) \subseteq (0..n - 1) \ {p[2]}
  BY <1>1, <1>3 DEF WonIndexes
<1>6. Cardinality(WonIndexes(w, rt, MaxReplicas)) <= n - 1
  BY <1>4, <1>5, FS_Subset
<1>7. Won(w, rt, MaxReplicas) \in Nat
  BY <1>2, WonGrows
<1> QED BY <1>1, <1>6, <1>7 DEF Won

(* What is deserved stays deserved. *)
LEMMA DeservedStays ==
  ASSUME NEW w, NEW x, w \subseteq x, Deserved(w)
  PROVE  Deserved(x)
<1>1. \A rt : AllWon(w, rt) => AllWon(x, rt)
  BY DEF AllWon
<1> QED BY <1>1 DEF Deserved

(* What a job deserves to succeed for is what Deciding asks for. *)
LEMMA DeservedDecides ==
  ASSUME snap.replicas = Replicas, Deserved(won)
  PROVE  \E D \in Deciding : D \subseteq won
<1> DEFINE InSpec(T) == {p \in Slots : p[1] \in T /\ p[2] < snap.replicas[p[1]]}
           workers == IF AllWorkers THEN InSpec({"Worker"}) ELSE {}
<1>1. workers \subseteq won
  BY DEF Deserved, AllWon
<1>2. CASE HasMaster
  <2>1. PICK m \in RTypes \cap {"Chief", "Master"} : AllWon(won, m)
    BY <1>2 DEF Deserved
  <2>2. InSpec({m}) \cup workers \subseteq won
    BY <1>1, <2>1 DEF AllWon
  <2>3. InSpec({m}) \cup workers \in Deciding
    BY <1>2 DEF Deciding
  <2> QED BY <2>2, <2>3
<1>3. CASE ~HasMaster
  <2>1. (InSpec({"Worker"}) \cap {<<"Worker", 0>>}) \cup workers \subseteq won
    BY <1>1, <1>3 DEF Deserved
  <2>2. (InSpec({"Worker"}) \cap {<<"Worker", 0>>}) \cup workers \in Deciding
    BY <1>3 DEF Deciding
  <2> QED BY <2>1, <2>2
<1> QED BY <1>2, <1>3

(* Counts that are covered stay covered. *)
LEMMA CountsStay ==
  ASSUME NEW s \in Status, NEW w, NEW x, w \subseteq x, Counts(s, w)
  PROVE  Counts(s, x)
<1> SUFFICES ASSUME NEW rt \in RTypes
             PROVE  s.replicas[rt].succeeded <= Won(x, rt, MaxReplicas)
  BY DEF Counts
<1>1. MaxReplicas \in Nat
  BY JobAssumption
<1>2. /\ Won(w, rt, MaxReplicas) \in Nat /\ Won(x, rt, MaxReplicas) \in Nat
      /\ Won(w, rt, MaxReplicas) <= Won(x, rt, MaxReplicas)
  BY <1>1, WonGrows
<1>3. s.replicas[rt].succeeded \in Nat
  BY DEF Status, ReplicaStatus
<1>4. s.replicas[rt].succeeded <= Won(w, rt, MaxReplicas)
  BY DEF Counts
<1> QED BY <1>2, <1>3, <1>4

(* A failure that has happened stays one. *)
LEMMA FailsStay ==
  ASSUME NEW s, NEW l, NEW m, l \subseteq m, Fails(s, l)
  PROVE  Fails(s, m)
  BY DEF Fails

(* A status without counts is covered by anything. *)
LEMMA NothingCounted == \A w : Counts(NoStatus, w) /\ Fails(NoStatus, w)
<1> TAKE w
<1>1. ASSUME NEW rt \in RTypes
      PROVE  0 <= Won(w, rt, MaxReplicas)
  BY JobAssumption, WonGrows
<1>2. \A rt \in RTypes : NoStatus.replicas[rt].succeeded = 0 /\ NoStatus.replicas[rt].failed = 0
  BY DEF NoStatus, NoReplicaStatus
<1> QED BY <1>1, <1>2 DEF Counts, Fails

(* A step that goes on with the same status and the same counts. *)
LEMMA TallyFrame ==
  ASSUME TypeInv, TypeInv', Tallied, won \subseteq won', lost \subseteq lost',
         job'.st = job.st, st' = st, snap'.replicas = snap.replicas,
         snap'.next = snap.next, snap'.old = snap.old, snap'.exceeds = snap.exceeds,
         Busy' => Busy, Reconciling' => Reconciling,
         pc' = "pods" => pc = "pods" /\ cursor'.k = cursor.k /\ cursor'.i >= cursor.i,
         pc' = "status" => pc = "status" /\ (cursor'.worker0 => cursor.worker0)
  PROVE  Tallied'
<1>0. st \in Status /\ job.st \in Status
  BY DEF TypeInv, TypeOK, WorkerOK, ServerOK, JobType
<1>1. RepsTold'
  BY DEF Tallied, RepsTold
<1>2. FailsTold'
  <2>1. Fails(st, lost') /\ Fails(job.st, lost')
    BY FailsStay DEF Tallied, FailsTold
  <2> QED BY <2>1 DEF FailsTold, Fails
<1>3. CountsTold'
  <2>1. /\ ~Finished(job.st.conds) => Counts(job.st, won')
        /\ Busy /\ (Reconciling \/ ~Finished(st.conds)) => Counts(st, won')
    BY <1>0, CountsStay DEF Tallied, CountsTold
  <2>2. /\ ~Finished(job'.st.conds) => Counts(job'.st, won')
        /\ Busy' /\ (Reconciling' \/ ~Finished(st'.conds)) => Counts(st', won')
    BY <2>1
  <2> QED BY <2>2 DEF CountsTold, Counts, Finished, IsSucceeded, IsFailed, HasCondition,
                      Won, WonIndexes
<1>4. CursorTold'
  <2>1. ASSUME pc' = "pods"
        PROVE  st'.replicas[CurrentType'].succeeded <= Won(won', CurrentType', cursor'.i)
    <3>1. CurrentType' = CurrentType /\ pc = "pods"
      BY <2>1 DEF CurrentType
    <3>2. cursor.i \in Nat /\ cursor'.i \in Nat /\ cursor.i <= cursor'.i
      BY <2>1, JobAssumption DEF TypeInv, TypeOK, WorkerOK, CursorType
    <3>3. CurrentType \in RTypes
      BY <3>1, JobAssumption DEF TypeInv, TypeOK, WorkerOK, CursorInRange, CurrentType, CursorType
    <3>4. st.replicas[CurrentType].succeeded \in Nat
      BY <1>0, <3>3 DEF Status, ReplicaStatus
    <3>5. st.replicas[CurrentType].succeeded <= Won(won, CurrentType, cursor.i)
      BY <3>1 DEF Tallied, CursorTold
    <3>6. /\ Won(won, CurrentType, cursor.i) \in Nat /\ Won(won', CurrentType, cursor'.i) \in Nat
          /\ Won(won, CurrentType, cursor.i) <= Won(won', CurrentType, cursor'.i)
      BY <3>2, WonGrows
    <3> QED BY <3>1, <3>4, <3>5, <3>6
  <2>2. pc' = "status" /\ cursor'.worker0 => <<"Worker", 0>> \in won'
    BY DEF Tallied, CursorTold
  <2> QED BY <2>1, <2>2 DEF CursorTold, CurrentType, Won, WonIndexes
<1>5. EarnedTold'
  <2>1. Deserved(won) => Deserved(won')
    BY DeservedStays
  <2>2. Busy' /\ ~Finished(snap'.old.conds) =>
          /\ IsSucceeded(st'.conds) => Deserved(won')
          /\ IsFailed(st'.conds) => snap'.exceeds \/ lost' # {}
    BY <2>1 DEF Tallied, EarnedTold
  <2> QED BY <2>2 DEF EarnedTold, Deserved, AllWon, Finished, IsSucceeded, IsFailed, HasCondition
<1> QED BY <1>1, <1>2, <1>3, <1>4, <1>5 DEF Tallied

(* A step that ends the sync, with the job's status as it was. *)
LEMMA TallyIdle ==
  ASSUME TypeInv, Tallied, won \subseteq won', lost \subseteq lost',
         Fails(job'.st, lost'), ~Finished(job'.st.conds) => Counts(job'.st, won'),
         WorkerIdle
  PROVE  Tallied'
<1>1. Fails(st', lost')
  BY NothingCounted DEF WorkerIdle
<1> QED BY <1>1 DEF WorkerIdle, NoSnap, Tallied, RepsTold, FailsTold, CountsTold, CursorTold,
         EarnedTold, Busy, Reconciling, Fails, Counts, Finished, IsSucceeded, IsFailed,
         HasCondition, Won, WonIndexes

(* What the API server holds is covered as long as it stays the same. *)
LEMMA JobStays ==
  ASSUME TypeInv, Tallied, won \subseteq won', lost \subseteq lost', job'.st = job.st
  PROVE  Fails(job'.st, lost') /\ (~Finished(job'.st.conds) => Counts(job'.st, won'))
<1>1. job.st \in Status
  BY DEF TypeInv, TypeOK, ServerOK, JobType
<1> QED BY <1>1, FailsStay, CountsStay DEF Tallied, FailsTold, CountsTold

-----------------------------------------------------------------------------
(* What setting a condition can and cannot do to the verdict. *)
LEMMA ConditionsSet ==
  ASSUME NEW conds \in Conditions, NEW t \in ConditionType
  PROVE  /\ IsSucceeded(setCondition(conds, t)) => IsSucceeded(conds) \/ t = "Succeeded"
         /\ IsFailed(setCondition(conds, t)) => IsFailed(conds) \/ t = "Failed"
         /\ t = "Failed" => Finished(setCondition(conds, t))
<1>1. {"Succeeded", "Failed"} \subseteq ConditionType
  BY DEF ConditionType
<1>2. \A u \in {"Succeeded", "Failed"} : filterOutCondition(conds, t, u) \in {"absent", conds[u]}
  BY DEF filterOutCondition
<1> QED BY <1>1, <1>2 DEF setCondition, IsSucceeded, IsFailed, Finished, HasCondition, Conditions

(* A condition leaves the counts alone. *)
LEMMA CompleteFields ==
  ASSUME NEW s \in Status, NEW t
  PROVE  /\ Complete(s, t).conds = setCondition(s.conds, t) /\ Complete(s, t).replicas = s.replicas
         /\ Mark(s, t).conds = setCondition(s.conds, t) /\ Mark(s, t).replicas = s.replicas
  BY DEF Complete, Mark, Status

(* When the code of updateGeneralJobStatus lets a job succeed. *)
Entitles(rt, s) ==
  \/ /\ rt \in {"Chief", "Master"}
     /\ snap.replicas[rt] = s.replicas[rt].succeeded
     /\ AllWorkers => allWorkersSucceed
  \/ /\ rt = "Worker" /\ ~HasMaster
     /\ snap.replicas[rt] = s.replicas[rt].succeeded \/ (cursor.worker0 /\ ~AllWorkers)

(* updateRunningOrSucceeded: no success without that reason, and no failure. *)
LEMMA SucceedsOnlyEntitled ==
  ASSUME NEW s \in Status, NEW rt \in RTypes, now \in Time,
         NEW u, u = updateRunningOrSucceeded(rt, s)
  PROVE  /\ u \in Status /\ u.replicas = s.replicas
         /\ IsFailed(u.conds) => IsFailed(s.conds)
         /\ IsSucceeded(u.conds) => IsSucceeded(s.conds) \/ Entitles(rt, s)
<1> DEFINE r == Mark(s, "Running")
<1>0. {"Running", "Succeeded"} \subseteq ConditionType
  BY DEF ConditionType
<1>1. \/ u = s \/ u = r
      \/ Entitles(rt, s) /\ (u = Complete(s, "Succeeded") \/ u = Complete(r, "Succeeded"))
  BY DEF updateRunningOrSucceeded, Entitles
<1>2. r \in Status /\ r.replicas = s.replicas /\ r.conds = setCondition(s.conds, "Running")
  BY <1>0, MarkType, CompleteFields
<1>3. s.conds \in Conditions /\ r.conds \in Conditions
  BY <1>2 DEF Status
<1>4. /\ IsFailed(r.conds) => IsFailed(s.conds)
      /\ IsSucceeded(r.conds) => IsSucceeded(s.conds)
  <2>1. "Running" # "Failed" /\ "Running" # "Succeeded"
    OBVIOUS
  <2> QED BY <1>0, <1>2, <1>3, <2>1, ConditionsSet
<1> HIDE DEF r
<1>5. ASSUME NEW x \in Status, u = Complete(x, "Succeeded"), x.replicas = s.replicas,
             IsFailed(x.conds) => IsFailed(s.conds)
      PROVE  u.replicas = s.replicas /\ (IsFailed(u.conds) => IsFailed(s.conds))
  <2>1. x.conds \in Conditions /\ "Succeeded" # "Failed"
    BY DEF Status
  <2> QED BY <1>0, <1>5, <2>1, CompleteFields, ConditionsSet
<1>6. u \in Status
  BY UpdateStatusType
<1> QED BY <1>1, <1>2, <1>4, <1>5, <1>6

(* updateRestartingOrFailed: no failure without a failed pod in the counts. *)
LEMMA FailsOnlyCounted ==
  ASSUME NEW s \in Status, NEW rt \in RTypes, now \in Time,
         NEW u, u = updateRestartingOrFailed(rt, s)
  PROVE  /\ u \in Status /\ u.replicas = s.replicas
         /\ IsSucceeded(u.conds) => IsSucceeded(s.conds)
         /\ IsFailed(u.conds) => IsFailed(s.conds) \/ s.replicas[rt].failed # 0
<1>0. {"Restarting", "Failed"} \subseteq ConditionType /\ s.conds \in Conditions
  BY DEF ConditionType, Status
<1>1. u \in Status
  BY UpdateStatusType
<1>2. CASE s.replicas[rt].failed = 0
  BY <1>1, <1>2 DEF updateRestartingOrFailed
<1>3. CASE s.replicas[rt].failed # 0
  <2>1. PICK t \in {"Restarting", "Failed"} : u = Mark(s, t) \/ u = Complete(s, t)
    BY <1>3 DEF updateRestartingOrFailed
  <2>2. t \in ConditionType /\ t # "Succeeded"
    BY <1>0
  <2> QED BY <1>0, <1>1, <1>3, <2>1, <2>2, CompleteFields, ConditionsSet
<1> QED BY <1>2, <1>3

(* The code's reasons to succeed are real. *)
LEMMA EntitledDeserves ==
  ASSUME TypeInv, Tallied, pc = "status", NEW rt \in RTypes, Entitles(rt, st)
  PROVE  Deserved(won)
<1>1. snap.replicas = Replicas /\ Counts(st, won)
  BY DEF Tallied, RepsTold, CountsTold, Busy, Reconciling
<1>2. \A x \in RTypes : snap.replicas[x] = st.replicas[x].succeeded => AllWon(won, x)
  BY <1>1, WonEverything DEF Counts
<1>3. allWorkersSucceed => AllWon(won, "Worker")
  <2>1. CASE "Worker" \in RTypes
    BY <1>2, <2>1 DEF allWorkersSucceed
  <2>2. CASE "Worker" \notin RTypes
    BY <2>2 DEF AllWon, Slots
  <2> QED BY <2>1, <2>2
<1>4. CASE rt \in {"Chief", "Master"}
  BY <1>2, <1>3, <1>4 DEF Entitles, Deserved, HasMaster
<1>5. CASE rt = "Worker" /\ ~HasMaster
  <2>1. CASE AllWon(won, "Worker")
    BY <1>5, <2>1 DEF Deserved, AllWon
  <2>2. CASE cursor.worker0 /\ ~AllWorkers
    BY <1>5, <2>2 DEF Tallied, CursorTold, Deserved
  <2> QED BY <1>2, <1>5, <2>1, <2>2 DEF Entitles
<1> QED BY <1>4, <1>5 DEF Entitles

-----------------------------------------------------------------------------
(* The parts of Tallied in the state after a step. *)
LEMMA TallyParts ==
  ASSUME snap'.replicas = Replicas, snap'.next = Replicas,
         Fails(st', lost'), Fails(job'.st, lost'),
         ~Finished(job'.st.conds) => Counts(job'.st, won'),
         Busy' /\ (Reconciling' \/ ~Finished(st'.conds)) => Counts(st', won'),
         pc' = "pods" => st'.replicas[Order[cursor'.k]].succeeded
                           <= Won(won', Order[cursor'.k], cursor'.i),
         pc' = "status" /\ cursor'.worker0 => <<"Worker", 0>> \in won',
         Busy' /\ ~Finished(snap'.old.conds) =>
           /\ IsSucceeded(st'.conds) => Deserved(won')
           /\ IsFailed(st'.conds) => snap'.exceeds \/ lost' # {}
  PROVE  Tallied'
<1>1. RepsTold'
  BY DEF RepsTold
<1>2. FailsTold'
  BY DEF FailsTold, Fails
<1>3. CountsTold'
  BY DEF CountsTold, Counts, Finished, IsSucceeded, IsFailed, HasCondition, Won, WonIndexes
<1>4. CursorTold'
  BY DEF CursorTold, CurrentType, Won, WonIndexes
<1>5. EarnedTold'
  BY DEF EarnedTold, Deserved, AllWon, Finished, IsSucceeded, IsFailed, HasCondition
<1> QED BY <1>1, <1>2, <1>3, <1>4, <1>5 DEF Tallied

(* Slices keep everything but pods and services. *)
LEMMA SlicesKeep ==
  ASSUME NEW sn \in SnapType, NEW rt, NEW x \in GetPodSlices(sn, rt) \cup GetServiceSlices(sn, rt)
  PROVE  x.replicas = sn.replicas /\ x.next = sn.next /\ x.exceeds = sn.exceeds /\ x.old = sn.old
<1>1. CASE x \in GetPodSlices(sn, rt)
  <2>1. PICK kept : x = [sn EXCEPT !.pods =
                           [p \in Slots |-> IF p \in kept THEN sn.pods[p] ELSE NoPod]]
    BY <1>1 DEF GetPodSlices
  <2> QED BY <2>1 DEF SnapType
<1>2. CASE x \in GetServiceSlices(sn, rt)
  <2>1. PICK kept : x = [sn EXCEPT !.svcs = kept]
    BY <1>2 DEF GetServiceSlices
  <2> QED BY <2>1 DEF SnapType
<1> QED BY <1>1, <1>2

(* Entering a replica type resets its counts; the loop ends with a look at *)
(* the cached pod of worker 0.                                             *)
LEMMA TallyEnter ==
  ASSUME TypeInv, TypeInv', Tallied, Copied, won \subseteq won', lost \subseteq lost',
         NEW c \in CursorType, NEW s \in Status, NEW sn \in SnapType, EnterType(c, s, sn),
         sn.replicas = Replicas, sn.next = Replicas, job'.st = job.st,
         Counts(s, won), Fails(s, lost),
         ~Finished(sn.old.conds) =>
           /\ IsSucceeded(s.conds) => Deserved(won)
           /\ IsFailed(s.conds) => sn.exceeds \/ lost # {}
  PROVE  Tallied'
<1>0. Counts(s, won') /\ Fails(s, lost') /\ (Deserved(won) => Deserved(won'))
  BY CountsStay, FailsStay, DeservedStays
<1>1. Fails(job'.st, lost') /\ (~Finished(job'.st.conds) => Counts(job'.st, won'))
  BY JobStays
<1>2. CASE c.k <= Len(Order)
  <2>1. /\ pc' = "pods" /\ cursor' = [c EXCEPT !.i = 0] /\ snap' \in GetPodSlices(sn, Order[c.k])
        /\ st' = [s EXCEPT !.replicas[Order[c.k]] = [NoReplicaStatus EXCEPT !.seen = TRUE]]
    BY <1>2 DEF EnterType
  <2>2. /\ snap'.replicas = Replicas /\ snap'.next = Replicas
        /\ snap'.exceeds = sn.exceeds /\ snap'.old = sn.old
    BY <2>1, SlicesKeep
  <2>3. cursor'.k = c.k /\ cursor'.i = 0
    BY <2>1 DEF CursorType
  <2> DEFINE rs == [NoReplicaStatus EXCEPT !.seen = TRUE]
  <2>4. rs.succeeded = 0 /\ rs.failed = 0
    BY DEF NoReplicaStatus
  <2>5. st'.conds = s.conds /\ st'.replicas = [s.replicas EXCEPT ![Order[c.k]] = rs]
    BY <2>1 DEF Status
  <2>6. s.replicas \in [RTypes -> ReplicaStatus]
    BY DEF Status
  <2> HIDE DEF rs
  <2>7. \A rt \in RTypes : st'.replicas[rt] = rs \/ st'.replicas[rt] = s.replicas[rt]
    BY <2>5, <2>6
  <2>8. MaxReplicas \in Nat /\ Order[c.k] \in RTypes
    BY <1>2, JobAssumption DEF CursorType
  <2>9. Fails(st', lost')
    BY <1>0, <2>4, <2>7 DEF Fails
  <2>10. \A rt : 0 <= Won(won', rt, MaxReplicas) /\ 0 <= Won(won', rt, 0)
    BY <2>8, WonGrows
  <2>11. Counts(st', won')
    BY <1>0, <2>4, <2>7, <2>10 DEF Counts
  <2>12. st'.replicas[Order[cursor'.k]].succeeded = 0
    BY <2>3, <2>4, <2>5, <2>6, <2>8
  <2>13. st'.replicas[Order[cursor'.k]].succeeded <= Won(won', Order[cursor'.k], cursor'.i)
    BY <2>3, <2>10, <2>12
  <2> QED BY <1>0, <1>1, <2>1, <2>2, <2>5, <2>9, <2>11, <2>13, TallyParts
<1>3. CASE ~(c.k <= Len(Order))
  <2>1. /\ pc' = "status" /\ snap' = sn
        /\ cursor' = [c EXCEPT !.types = RTypes, !.worker0 = worker0Completed]
        /\ st' = [s EXCEPT !.start = IF @ = 0 THEN now ELSE @]
    BY <1>3 DEF EnterType
  <2>2. st'.conds = s.conds /\ st'.replicas = s.replicas
    BY <2>1 DEF Status
  <2>3. cursor'.worker0 = worker0Completed
    BY <2>1 DEF CursorType
  <2>4. worker0Completed => <<"Worker", 0>> \in won
    <3>1. "Worker" \in RTypes => <<"Worker", 0>> \in Slots
      BY JobAssumption DEF Slots
    <3> QED BY <3>1 DEF worker0Completed, Copied, Tells
  <2>5. Fails(st', lost') /\ Counts(st', won')
    BY <1>0, <2>2 DEF Fails, Counts
  <2> QED BY <1>0, <1>1, <2>1, <2>2, <2>3, <2>4, <2>5, TallyParts
<1> QED BY <1>2, <1>3

(* A sync begins. *)
LEMMA TallyBegins ==
  ASSUME TypeInv, TypeInv', Tallied, Copied, Unscaled, won \subseteq won', lost \subseteq lost',
         ReconcileTerminated \/ ReconcileReplicas
  PROVE  Tallied'
<1>0. /\ job.st \in Status /\ job' = job /\ job.replicas = Replicas
      /\ Snapshot.replicas = Replicas /\ Snapshot.next = Replicas
      /\ Snapshot.old = job.st /\ Snapshot \in SnapType
  BY SnapshotType DEF TypeInv, TypeOK, ServerOK, JobType, Unscaled, Snapshot,
     ReconcileTerminated, ReconcileReplicas, server
<1>1. CASE ReconcileTerminated
  <2>1. pc' = "clean" /\ snap' = [Snapshot EXCEPT !.exceeds = jobExceedsLimit]
    BY <1>1 DEF ReconcileTerminated
  <2>2. snap'.replicas = Replicas /\ snap'.next = Replicas /\ snap'.old = job.st
    BY <1>0, <2>1 DEF SnapType
  <2>3. st'.conds = job.st.conds /\ st'.replicas = job.st.replicas
    BY <1>0, <1>1 DEF ReconcileTerminated, Status
  <2>4. Fails(job'.st, lost') /\ (~Finished(job'.st.conds) => Counts(job'.st, won'))
    BY <1>0, JobStays
  <2>5. Fails(st', lost') /\ (~Finished(st'.conds) => Counts(st', won'))
    BY <1>0, <2>3, <2>4 DEF Fails, Counts
  <2>6. ~Reconciling'
    BY <2>1 DEF Reconciling
  <2> QED BY <2>1, <2>2, <2>3, <2>4, <2>5, <2>6, TallyParts DEF Finished
<1>2. CASE ReconcileReplicas
  <2>1. EnterType(Start, job.st, Snapshot) /\ ~Finished(job.st.conds)
    BY <1>2 DEF ReconcileReplicas, Terminated
  <2>2. Counts(job.st, won) /\ Fails(job.st, lost)
    BY <2>1 DEF Tallied, CountsTold, FailsTold
  <2> QED BY <1>0, <2>1, <2>2, IdleLemma, TallyEnter DEF Finished
<1> QED BY <1>1, <1>2

(* One pod is counted. *)
LEMMA TallyPod ==
  ASSUME TypeInv, TypeInv', VerdictInv, Tallied, Copied,
         won \subseteq won', lost \subseteq lost', reconcileOnePod
  PROVE  Tallied'
<1> DEFINE pod == snap.pods[CurrentSlot]
           rt == CurrentType
<1>0. /\ rt \in RTypes /\ CurrentSlot \in Slots /\ CurrentSlot = <<rt, cursor.i>>
      /\ pc = "pods" /\ pc' = "pods" /\ snap' = snap /\ job' = job
  BY CurrentSlotType DEF reconcileOnePod, CurrentSlot, AtPod, server
<1>1. cursor.i \in Nat /\ cursor'.i = cursor.i + 1 /\ cursor'.k = cursor.k
      /\ cursor.i < Replicas[rt] /\ cursor.i + 1 <= MaxReplicas
  BY JobAssumption DEF reconcileOnePod, AtPod, TypeInv, TypeOK, WorkerOK, CursorType,
                       Tallied, RepsTold
<1>2. PICK launched \in BOOLEAN :
        st' = [st EXCEPT !.replicas[rt] = updateJobReplicaStatuses(@, pod, launched)]
  BY DEF reconcileOnePod
<1> DEFINE old == st.replicas[rt]
           new == updateJobReplicaStatuses(old, pod, launched)
<1>3. st \in Status /\ st.replicas \in [RTypes -> ReplicaStatus] /\ old \in ReplicaStatus
  BY <1>0 DEF TypeInv, TypeOK, WorkerOK, Status
<1>4. \/ new.succeeded = old.succeeded /\ new.failed = old.failed
      \/ new.succeeded = old.succeeded + 1 /\ new.failed = old.failed /\ pod.phase = "Succeeded"
      \/ new.succeeded = old.succeeded /\ new.failed = old.failed + 1 /\ pod.phase = "Failed"
  <2>1. \/ new = old \/ new = [old EXCEPT !.active = @ + 1]
        \/ new = [old EXCEPT !.succeeded = @ + 1] /\ pod.phase = "Succeeded"
        \/ new = [old EXCEPT !.failed = @ + 1] /\ pod.phase = "Failed"
    BY DEF updateJobReplicaStatuses
  <2> HIDE DEF new, old, pod
  <2> QED BY <1>3, <2>1 DEF ReplicaStatus
<1>5. st'.conds = st.conds /\ st'.replicas = [st.replicas EXCEPT ![rt] = new]
  BY <1>2, <1>3 DEF Status
<1> HIDE DEF new
<1>6. st'.replicas[rt] = new /\ \A x \in RTypes \ {rt} : st'.replicas[x] = st.replicas[x]
  BY <1>0, <1>3, <1>5
<1>7. /\ pod.phase = "Succeeded" => CurrentSlot \in won
      /\ pod.phase = "Failed" => CurrentSlot \in lost
  BY <1>0 DEF Copied, Tells
<1>8. old.succeeded \in Nat /\ new.succeeded \in Nat
  BY <1>3, <1>4 DEF ReplicaStatus
<1>9. /\ Won(won, rt, cursor.i) \in Nat /\ Won(won, rt, cursor.i + 1) \in Nat
      /\ Won(won', rt, cursor.i + 1) \in Nat /\ Won(won', rt, MaxReplicas) \in Nat
      /\ Won(won, rt, cursor.i) <= Won(won, rt, cursor.i + 1)
      /\ Won(won, rt, cursor.i + 1) <= Won(won', rt, cursor.i + 1)
      /\ Won(won', rt, cursor.i + 1) <= Won(won', rt, MaxReplicas)
  <2>1. cursor.i + 1 \in Nat /\ MaxReplicas \in Nat /\ cursor.i <= cursor.i + 1
    BY <1>1, JobAssumption
  <2> QED BY <1>1, <2>1, WonGrows
<1>10. old.succeeded <= Won(won, rt, cursor.i)
  BY <1>0 DEF Tallied, CursorTold
<1>11. new.succeeded <= Won(won', rt, cursor.i + 1)
  <2>1. CASE new.succeeded = old.succeeded
    BY <1>8, <1>9, <1>10, <2>1
  <2>2. CASE new.succeeded = old.succeeded + 1 /\ pod.phase = "Succeeded"
    <3>1. Won(won, rt, cursor.i) + 1 <= Won(won, rt, cursor.i + 1)
      BY <1>0, <1>1, <1>7, <2>2, WonOneMore
    <3> QED BY <1>8, <1>9, <1>10, <2>2, <3>1
  <2> QED BY <1>4, <2>1, <2>2
<1>12. new.failed # 0 => lost # {}
  <2>1. CASE new.failed = old.failed
    BY <1>0, <2>1 DEF Tallied, FailsTold, Fails
  <2>2. CASE pod.phase = "Failed"
    BY <1>7, <2>2
  <2> QED BY <1>4, <2>1, <2>2
<1>13. Fails(st', lost')
  BY <1>6, <1>12 DEF Tallied, FailsTold, Fails
<1>14. Counts(st', won')
  <2>1. Counts(st, won')
    BY <1>0, <1>3, CountsStay DEF Tallied, CountsTold, Busy, Reconciling
  <2>2. new.succeeded <= Won(won', rt, MaxReplicas)
    BY <1>8, <1>9, <1>11
  <2> QED BY <1>6, <2>1, <2>2 DEF Counts
<1>15. Fails(job'.st, lost') /\ (~Finished(job'.st.conds) => Counts(job'.st, won'))
  BY <1>0, JobStays
<1>16. st'.replicas[Order[cursor'.k]].succeeded <= Won(won', Order[cursor'.k], cursor'.i)
  BY <1>1, <1>6, <1>11 DEF CurrentType
<1>17. ~Finished(snap'.old.conds) =>
         /\ IsSucceeded(st'.conds) => Deserved(won')
         /\ IsFailed(st'.conds) => snap'.exceeds \/ lost' # {}
  BY <1>0, <1>5, DeservedStays DEF Tallied, EarnedTold, Busy
<1> QED BY <1>0, <1>13, <1>14, <1>15, <1>16, <1>17, TallyParts DEF Tallied, RepsTold

(* DoFailOver's patch: counts of the API server take the place of the worker's. *)
LEMMA TallyPatch ==
  ASSUME TypeInv, TypeInv', VerdictInv, Tallied, Unscaled,
         won \subseteq won', lost \subseteq lost', PatchFailoverTimestamp
  PROVE  Tallied'
<1>0. /\ pc = "failover" /\ pc' = "services" /\ job' = job /\ Busy /\ Reconciling
      /\ st \in Status /\ job.st \in Status /\ snap \in SnapType
  BY DEF PatchFailoverTimestamp, server, Busy, Reconciling, TypeInv, TypeOK, WorkerOK,
         ServerOK, JobType
<1>1. ~Finished(job.st.conds)
  BY <1>0 DEF VerdictInv
<1>2. /\ snap'.replicas = Replicas /\ snap'.next = Replicas
      /\ snap'.old = snap.old /\ snap'.exceeds = snap.exceeds
  BY <1>0 DEF PatchFailoverTimestamp, SnapType, Tallied, RepsTold, Unscaled
<1>3. /\ st'.conds = st.conds
      /\ \A rt \in RTypes : st'.replicas[rt] = st.replicas[rt] \/ st'.replicas[rt] = job.st.replicas[rt]
  BY <1>0 DEF PatchFailoverTimestamp, DecodeReplicaStatuses, Status
<1>4. Counts(st, won') /\ Counts(job.st, won') /\ Fails(st, lost') /\ Fails(job.st, lost')
  BY <1>0, <1>1, CountsStay, FailsStay DEF Tallied, CountsTold, FailsTold
<1>5. Counts(st', won') /\ Fails(st', lost')
  BY <1>3, <1>4 DEF Counts, Fails
<1>6. ~Finished(snap'.old.conds) =>
        /\ IsSucceeded(st'.conds) => Deserved(won')
        /\ IsFailed(st'.conds) => snap'.exceeds \/ lost' # {}
  BY <1>0, <1>2, <1>3, DeservedStays DEF Tallied, EarnedTold
<1> QED BY <1>0, <1>2, <1>4, <1>5, <1>6, TallyParts

(* The conditions are computed from the counts. *)
LEMMA TallyStatus ==
  ASSUME TypeInv, TypeInv', VerdictInv, Tallied,
         won \subseteq won', lost \subseteq lost', UpdateJobStatus
  PROVE  Tallied'
<1>0. /\ pc = "status" /\ job' = job /\ snap' = snap /\ Busy /\ Reconciling
      /\ st \in Status /\ now \in Time /\ cursor \in CursorType
  BY DEF UpdateJobStatus, server, Busy, Reconciling, TypeInv, TypeOK, WorkerOK
<1>1. CASE st' = st
  <2>1. /\ pc' \in {"status", "write"}
        /\ pc' = "status" => cursor'.worker0 = cursor.worker0
    BY <1>0 DEF UpdateJobStatus, CursorType
  <2> QED BY <1>0, <1>1, <2>1, TallyFrame DEF Busy, Reconciling
<1>2. ASSUME NEW rt \in RTypes, pc' = "status", cursor' = [cursor EXCEPT !.types = @ \ {rt}],
             st' = updateRestartingOrFailed(rt, updateRunningOrSucceeded(rt, st))
      PROVE  Tallied'
  <2> DEFINE mid == updateRunningOrSucceeded(rt, st)
  <2>1. /\ mid \in Status /\ mid.replicas = st.replicas
        /\ IsFailed(mid.conds) => IsFailed(st.conds)
        /\ IsSucceeded(mid.conds) => IsSucceeded(st.conds) \/ Entitles(rt, st)
    BY <1>0, SucceedsOnlyEntitled
  <2>2. st' = updateRestartingOrFailed(rt, mid)
    BY <1>2
  <2> HIDE DEF mid
  <2>3. /\ st'.replicas = mid.replicas
        /\ IsSucceeded(st'.conds) => IsSucceeded(mid.conds)
        /\ IsFailed(st'.conds) => IsFailed(mid.conds) \/ mid.replicas[rt].failed # 0
    BY <1>0, <2>1, <2>2, FailsOnlyCounted
  <2>4. Counts(st, won') /\ Fails(st, lost')
    BY <1>0, CountsStay, FailsStay DEF Tallied, CountsTold, FailsTold
  <2>5. Counts(st', won') /\ Fails(st', lost')
    BY <2>1, <2>3, <2>4 DEF Counts, Fails
  <2>6. /\ Entitles(rt, st) => Deserved(won)
        /\ Deserved(won) => Deserved(won')
    BY <1>0, EntitledDeserves, DeservedStays
  <2>7. mid.replicas[rt].failed # 0 => lost # {}
    BY <2>1 DEF Tallied, FailsTold, Fails
  <2>8. ~Finished(snap'.old.conds) =>
          /\ IsSucceeded(st'.conds) => Deserved(won')
          /\ IsFailed(st'.conds) => snap'.exceeds \/ lost' # {}
    BY <1>0, <2>1, <2>3, <2>6, <2>7 DEF Tallied, EarnedTold
  <2>9. cursor'.worker0 => <<"Worker", 0>> \in won'
    BY <1>0, <1>2 DEF Tallied, CursorTold, CursorType
  <2>10. Fails(job'.st, lost') /\ (~Finished(job'.st.conds) => Counts(job'.st, won'))
    BY <1>0, JobStays
  <2> QED BY <1>0, <1>2, <2>5, <2>8, <2>9, <2>10, TallyParts DEF Tallied, RepsTold
<1>3. CASE st' # st
  <2>1. PICK rt \in cursor.types :
          /\ st' = updateRestartingOrFailed(rt, updateRunningOrSucceeded(rt, st))
          /\ cursor' = [cursor EXCEPT !.types = @ \ {rt}] /\ UNCHANGED pc
    BY <1>3 DEF UpdateJobStatus
  <2>2. rt \in RTypes
    BY <1>0 DEF CursorType
  <2> QED BY <1>0, <1>2, <2>1, <2>2
<1> QED BY <1>1, <1>3

(* The terminated branch: a limit makes the job fail, a success settles its counts. *)
LEMMA TallyVerdict ==
  ASSUME TypeInv, TypeInv', VerdictInv, Tallied,
         won \subseteq won', lost \subseteq lost', RecordVerdict
  PROVE  Tallied'
<1>0. /\ pc = "verdict" /\ pc' = "write" /\ job' = job /\ snap' = snap /\ Busy
      /\ st \in Status /\ now \in Time
  BY DEF RecordVerdict, server, Busy, TypeInv, TypeOK, WorkerOK
<1> DEFINE failed == IF snap.exceeds THEN Complete(st, "Failed") ELSE st
<1>1. /\ failed \in Status /\ failed.replicas = st.replicas
      /\ IsSucceeded(failed.conds) => IsSucceeded(st.conds)
      /\ IsFailed(failed.conds) => IsFailed(st.conds) \/ snap.exceeds
      /\ ~Finished(failed.conds) => failed = st
  <2>1. CASE snap.exceeds
    <3>1. "Failed" \in ConditionType /\ "Failed" # "Succeeded" /\ st.conds \in Conditions
      BY <1>0 DEF ConditionType, Status
    <3>2. failed = Complete(st, "Failed")
      BY <2>1
    <3> QED BY <1>0, <2>1, <3>1, <3>2, CompleteType, CompleteFields, ConditionsSet
  <2>2. CASE ~snap.exceeds
    BY <1>0, <2>2
  <2> QED BY <2>1, <2>2
<1>2. st' = IF IsSucceeded(failed.conds) THEN SettleReplicas(failed) ELSE failed
  BY DEF RecordVerdict
<1> HIDE DEF failed
<1>3. /\ SettleReplicas(failed).conds = failed.conds
      /\ \A rt \in RTypes : SettleReplicas(failed).replicas[rt].failed = failed.replicas[rt].failed
  <2>1. failed.replicas \in [RTypes -> ReplicaStatus]
    BY <1>1 DEF Status
  <2>2. ASSUME NEW rt \in RTypes
        PROVE  SettleReplicas(failed).replicas[rt] =
                 [failed.replicas[rt] EXCEPT !.succeeded = @ + failed.replicas[rt].active,
                                             !.active = 0]
    BY <1>1 DEF SettleReplicas, Status
  <2>3. SettleReplicas(failed).conds = failed.conds
    BY <1>1 DEF SettleReplicas, Status
  <2>4. \A rs \in ReplicaStatus :
          [rs EXCEPT !.succeeded = @ + rs.active, !.active = 0].failed = rs.failed
    BY DEF ReplicaStatus
  <2> QED BY <2>1, <2>2, <2>3, <2>4
<1>4. /\ st'.conds = failed.conds
      /\ \A rt \in RTypes : st'.replicas[rt].failed = st.replicas[rt].failed
      /\ ~Finished(st'.conds) => st' = st
  BY <1>1, <1>2, <1>3 DEF Finished
<1>5. Fails(st', lost')
  BY <1>4, FailsStay DEF Tallied, FailsTold, Fails
<1>6. ~Finished(st'.conds) => Counts(st', won')
  BY <1>0, <1>4, CountsStay DEF Tallied, CountsTold
<1>7. ~Finished(snap'.old.conds) =>
        /\ IsSucceeded(st'.conds) => Deserved(won')
        /\ IsFailed(st'.conds) => snap'.exceeds \/ lost' # {}
  BY <1>0, <1>1, <1>4, DeservedStays DEF Tallied, EarnedTold
<1>8. Fails(job'.st, lost') /\ (~Finished(job'.st.conds) => Counts(job'.st, won'))
  BY <1>0, JobStays
<1>9. ~Reconciling'
  BY <1>0 DEF Reconciling
<1> QED BY <1>0, <1>5, <1>6, <1>7, <1>8, <1>9, TallyParts DEF Tallied, RepsTold

(* The status is written, or the write is refused. *)
LEMMA TallyWrite ==
  ASSUME TypeInv, Tallied, won \subseteq won', lost \subseteq lost', WriteStatus
  PROVE  Tallied'
<1>0. WorkerIdle /\ pc = "write" /\ st \in Status /\ job \in JobType
  BY DEF WriteStatus, Done, Retry, TypeInv, TypeOK, WorkerOK, ServerOK
<1>1. CASE job' = job
  BY <1>0, <1>1, JobStays, TallyIdle
<1>2. CASE job' = [job EXCEPT !.st = st]
  <2>1. job'.st = st
    BY <1>0, <1>2 DEF JobType
  <2>2. Fails(st, lost') /\ (~Finished(st.conds) => Counts(st, won'))
    BY <1>0, CountsStay, FailsStay DEF Tallied, CountsTold, FailsTold, Busy
  <2> QED BY <1>0, <2>1, <2>2, TallyIdle
<1> QED BY <1>1, <1>2 DEF WriteStatus

(* The steps of the worker. *)
LEMMA SyncTally ==
  ASSUME TypeInv, TypeInv', VerdictInv, Tallied, Copied, Unscaled,
         won \subseteq won', lost \subseteq lost', Sync
  PROVE  Tallied'
<1> USE DEF Busy, Reconciling
<1>0. snap \in SnapType /\ cursor \in CursorType
  BY DEF TypeInv, TypeOK, WorkerOK
<1>1. CASE ReconcileReadFails \/ ReconcileCancelled
  <2>1. pc = "idle" /\ job' = job /\ UNCHANGED <<pc, snap, st, cursor>>
    BY <1>1 DEF ReconcileReadFails, ReconcileCancelled, Dequeue, server, worker
  <2> QED BY <2>1, TallyFrame
<1>2. CASE ReconcileTerminated \/ ReconcileReplicas
  BY <1>2, TallyBegins
<1>3. CASE RecordVerdict
  BY <1>3, TallyVerdict
<1>4. CASE WriteStatus
  BY <1>4, TallyWrite
<1>5. CASE reconcileOnePod
  BY <1>5, TallyPod
<1>6. CASE PatchFailoverTimestamp
  BY <1>6, TallyPatch
<1>7. CASE UpdateJobStatus
  BY <1>7, TallyStatus
<1>8. CASE Retry /\ job'.st = job.st
  BY <1>8, JobStays, TallyIdle DEF Retry
<1>9. CASE CreatePodAlreadyExists \/ CreatePodFails
  BY <1>8, <1>9 DEF CreatePodAlreadyExists, CreatePodFails, server
<1>10. CASE CleanPod \/ CleanService
  <2>1. CASE Retry
    BY <1>8, <1>10, <2>1 DEF CleanPod, CleanService
  <2>2. CASE ~Retry
    BY <1>10, <2>2, TallyFrame DEF CleanPod, CleanService
  <2> QED BY <2>1, <2>2
<1>11. CASE cleanupJob
  <2>0. job'.st = job.st
    BY <1>11 DEF cleanupJob, TypeInv, TypeOK, ServerOK, JobType
  <2>1. CASE Retry
    BY <1>8, <2>0, <2>1
  <2>2. CASE ~Retry
    BY <1>11, <2>0, <2>2, TallyFrame DEF cleanupJob
  <2> QED BY <2>1, <2>2
<1>12. CASE AtPod \/ AtService
  <2>1. CASE NextIndex /\ job' = job /\ UNCHANGED <<pc, snap, st>>
    <3>1. cursor'.k = cursor.k /\ cursor'.i >= cursor.i /\ pc # "status"
      BY <1>0, <1>12, <2>1 DEF NextIndex, CursorType, AtPod, AtService
    <3> QED BY <2>1, <3>1, TallyFrame
  <2>2. \/ NextIndex /\ job' = job /\ UNCHANGED <<pc, snap, st>>
        \/ Retry /\ job' = job
        \/ reconcileOnePod
    BY <1>0, <1>12 DEF Sync, AtPod, AtService, SkipIndex, CreatePod, CreatePodAlreadyExists,
         CreatePodFails, CreatePodTimesOut, ScaleInPod, SkipService, CreateService,
         ScaleInService, server, ReconcileReadFails, ReconcileCancelled, ReconcileTerminated,
         ReconcileReplicas, Dequeue, CleanPod, CleanService, cleanupJob, RecordVerdict,
         WriteStatus, ReconcilePodsEnd, RecreatePods, PatchFailoverTimestamp,
         ReconcileServicesEnd, UpdateJobStatus, CursorType
  <2> QED BY <1>5, <1>8, <2>1, <2>2
<1>13. CASE ReconcilePodsEnd
  <2>1. snap' \in GetServiceSlices(snap, CurrentType)
    BY <1>13 DEF ReconcilePodsEnd
  <2>2. /\ snap'.replicas = snap.replicas /\ snap'.next = snap.next
        /\ snap'.old = snap.old /\ snap'.exceeds = snap.exceeds
    BY <1>0, <2>1, SlicesKeep
  <2> QED BY <1>13, <2>2, TallyFrame DEF ReconcilePodsEnd, server
<1>14. CASE RecreatePods
  BY <1>0, <1>14, TallyFrame DEF RecreatePods
<1>15. CASE ReconcileServicesEnd
  <2> DEFINE c == [cursor EXCEPT !.k = @ + 1]
             sn == [snap EXCEPT !.replicas = snap.next]
  <2>1. c \in CursorType
    BY <1>0 DEF CursorType
  <2>2. /\ sn \in SnapType /\ sn.replicas = Replicas /\ sn.next = Replicas
        /\ sn.old = snap.old /\ sn.exceeds = snap.exceeds
    BY <1>0 DEF SnapType, Tallied, RepsTold
  <2>3. EnterType(c, st, sn) /\ pc = "services" /\ job' = job
    BY <1>15 DEF ReconcileServicesEnd, server
  <2>4. st \in Status /\ Counts(st, won) /\ Fails(st, lost)
    BY <2>3 DEF TypeInv, TypeOK, WorkerOK, Tallied, CountsTold, FailsTold
  <2>5. ~Finished(snap.old.conds) =>
          /\ IsSucceeded(st.conds) => Deserved(won)
          /\ IsFailed(st.conds) => snap.exceeds \/ lost # {}
    BY <2>3 DEF Tallied, EarnedTold
  <2> HIDE DEF c, sn
  <2> QED BY <2>1, <2>2, <2>3, <2>4, <2>5, TallyEnter
<1>16. CASE \/ SkipIndex \/ CreatePod \/ CreatePodTimesOut \/ ScaleInPod
            \/ SkipService \/ CreateService \/ ScaleInService
  BY <1>12, <1>16 DEF SkipIndex, CreatePod, CreatePodTimesOut, ScaleInPod, MissingPod,
       SkipService, CreateService, ScaleInService
<1> QED BY <1>1, <1>2, <1>3, <1>4, <1>5, <1>6, <1>7, <1>9, <1>10, <1>11, <1>13, <1>14,
           <1>15, <1>16 DEF Sync

(* The steps of everyone else. *)
LEMMA OtherTally ==
  ASSUME TypeInv, TypeInv', Tallied, won \subseteq won', lost \subseteq lost',
         \/ Deliver \/ Resync \/ ExpectationExpires \/ TimerFires \/ Crash
         \/ Kubelet \/ User \/ Tick \/ UNCHANGED vars
  PROVE  Tallied'
<1> USE DEF Busy, Reconciling
<1>0. job \in JobType /\ snap \in SnapType /\ cursor \in CursorType
  BY DEF TypeInv, TypeOK, WorkerOK, ServerOK
<1>1. CASE Crash
  BY <1>1, JobStays, TallyIdle DEF Crash, server
<1>2. CASE UserEditsJob
  <2>1. job'.st = job.st
    BY <1>0, <1>2 DEF UserEditsJob, JobType
  <2>2. /\ snap'.replicas = snap.replicas /\ snap'.next = snap.next
        /\ snap'.old = snap.old /\ snap'.exceeds = snap.exceeds
    BY <1>0, <1>2 DEF UserEditsJob, SnapType
  <2>3. cursor' = cursor /\ cursor.i >= cursor.i /\ UNCHANGED <<pc, st>>
    BY <1>0, <1>2 DEF UserEditsJob, CursorType
  <2> QED BY <2>1, <2>2, <2>3, TallyFrame
<1>3. CASE job'.st = job.st /\ UNCHANGED worker
  <2>1. cursor' = cursor /\ cursor.i >= cursor.i /\ UNCHANGED <<pc, st, snap>>
    BY <1>0, <1>3 DEF worker, CursorType
  <2> QED BY <1>3, <2>1, TallyFrame
<1>4. UserDeletesJob => job'.st = job.st /\ UNCHANGED worker
  BY <1>0 DEF UserDeletesJob, JobType
<1>5. Deliver \/ Resync \/ ExpectationExpires \/ TimerFires \/ Tick \/ UNCHANGED vars
      => job' = job /\ UNCHANGED worker
  BY DEF Deliver, DeliverPod, DeliverService, DeliverJob, Resync, ExpectationExpires,
         TimerFires, Tick, vars, server
<1>6. Kubelet \/ (\E p \in Slots : UserDeletesPod(p)) => job' = job /\ UNCHANGED worker
  BY DEF Kubelet, PodStarts, MainContainerExits, SidecarExits, PodEvicted, PodGone,
         ServiceCollected, UserDeletesPod, rest
<1> QED BY <1>1, <1>2, <1>3, <1>4, <1>5, <1>6 DEF User

(* Counts, verdicts and what happened agree in every reachable state. *)
LEMMA TallyInvariant == HSpec /\ []Unscaled => []Tallied
<1>1. HInit => Tallied
  <2> SUFFICES ASSUME HInit PROVE Tallied
    OBVIOUS
  <2>1. /\ snap = NoSnap /\ st = NoStatus /\ job.st = NoStatus /\ pc = "idle"
    BY DEF HInit, Init
  <2>2. snap.replicas = Replicas /\ snap.next = Replicas
    BY <2>1 DEF NoSnap
  <2> QED BY <2>1, <2>2, NothingCounted DEF Tallied, RepsTold, FailsTold, CountsTold, CursorTold,
             EarnedTold, Busy, Reconciling
<1>2. TypeInv /\ TypeInv' /\ VerdictInv /\ Copied /\ Unscaled /\ Tallied /\ [HNext]_HVars
        => Tallied'
  <2> SUFFICES ASSUME TypeInv, TypeInv', VerdictInv, Copied, Unscaled, Tallied, [HNext]_HVars
               PROVE  Tallied'
    OBVIOUS
  <2>1. won \subseteq won' /\ lost \subseteq lost' /\ [Next]_vars
    BY Remembered DEF HNext
  <2> QED BY <2>1, SyncTally, OtherTally DEF Next
<1> QED BY <1>1, <1>2, HistoryOnly, TypeInvInvariant, VerdictInvInvariant, TruthInvariant, PTL
       DEF HSpec

(***************************************************************************)
(* As long as nobody scales the job, every verdict is earned: the pods     *)
(* that decide have succeeded, or some pod has failed, whatever the worker *)
(* read, lost or computed twice on the way.                                *)
(***************************************************************************)
THEOREM VerdictEarned == HSpec /\ []Unscaled => VerdictIsEarned
<1>1. TypeInv /\ VerdictInv /\ Tallied /\ [HNext]_HVars => Earned
  <2> SUFFICES ASSUME TypeInv, VerdictInv, Tallied, [HNext]_HVars, ~Finished(job.st.conds)
               PROVE  /\ IsSucceeded(job'.st.conds) => \E D \in Deciding : D \subseteq won
                      /\ IsFailed(job'.st.conds) /\ ~snap.exceeds => lost # {}
    BY DEF Earned
  <2>0. [Next]_vars
    BY DEF HNext, HVars
  <2>1. CASE job'.st = job.st
    BY <2>1 DEF Finished
  <2>2. CASE job'.st # job.st
    <3>1. pc = "write" /\ job'.st = st
      BY <2>0, <2>2, StatusWrites
    <3>2. Busy /\ ~Finished(snap.old.conds)
      BY <3>1 DEF VerdictInv, Busy
    <3>3. /\ IsSucceeded(st.conds) => Deserved(won)
          /\ IsFailed(st.conds) => snap.exceeds \/ lost # {}
      BY <3>2 DEF Tallied, EarnedTold
    <3>4. snap.replicas = Replicas
      BY DEF Tallied, RepsTold
    <3> QED BY <3>1, <3>3, <3>4, DeservedDecides
  <2> QED BY <2>1, <2>2
<1> QED BY <1>1, HistoryOnly, TypeInvInvariant, VerdictInvInvariant, TallyInvariant, PTL
       DEF HSpec, VerdictIsEarned
=============================================================================
