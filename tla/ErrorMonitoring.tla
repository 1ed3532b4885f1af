--------------------------- MODULE ErrorMonitoring ---------------------------
(***************************************************************************)
(* Error monitoring by AIMaster (reactForAIMasterErrorAnalyzeResult in     *)
(* pkg/job_controller/pod.go).  The AIMaster of a job asks through the     *)
(* annotations of the job: to restart some pods, or to restart all.  The   *)
(* job controller deletes the pods, makes new ones in later syncs, and     *)
(* withdraws the annotation.                                               *)
(*                                                                         *)
(* Abstractions: one replica type with the indices 1..Replicas; a pod is   *)
(* [start, asked], start being None until the kubelet has it and asked a   *)
(* history: whether AIMaster has asked to replace this pod.  A sync waits  *)
(* for the pods of the one before (expectations, see JobController).       *)
(***************************************************************************)
EXTENDS Integers, FiniteSets

CONSTANTS
  Replicas,
  JobCacheLags,  \* whether a sync may read annotations that are out of date
  MaxTime,       \* bound: the clock
  MaxAsks,       \* bound: requests of AIMaster
  MaxFaults,     \* bound: calls that fail
  None

VARIABLES
  ann, annCache,   \* [restart, start, ts]: indices to restart, restart all, last failover timestamp
  pods, podCache,
  sync,            \* [pc, ann, pods, todo]
  now, asks, faults,
  byTime           \* history: how often each replica was deleted for the timestamp

vars == <<ann, annCache, pods, podCache, sync, now, asks, faults, byTime>>

Indices == 1..Replicas
Nothing == [i \in Indices |-> None]
Quiet == [restart |-> {}, start |-> FALSE, ts |-> 0]
Idle == [pc |-> "idle", ann |-> Quiet, pods |-> Nothing, todo |-> {}]

Init ==
  /\ ann = Quiet /\ annCache = Quiet /\ pods = Nothing /\ podCache = Nothing
  /\ sync = Idle /\ now = 1 /\ asks = 0 /\ faults = 0
  /\ byTime = [i \in Indices |-> 0]

-----------------------------------------------------------------------------
(* AIMaster, the kubelet, time and the caches. *)
Started(i) == pods[i] # None /\ pods[i].start # None
Mark(set) == [i \in Indices |-> IF i \in set /\ pods[i] # None THEN [pods[i] EXCEPT !.asked = TRUE] ELSE pods[i]]

AskRestart(set) ==
  /\ asks < MaxAsks /\ asks' = asks + 1
  /\ ann.restart = {} /\ ~ann.start /\ set # {}
  /\ ann' = [ann EXCEPT !.restart = set]
  /\ pods' = Mark(set)
  /\ UNCHANGED <<annCache, podCache, sync, now, faults, byTime>>

AskRestartAll ==
  /\ asks < MaxAsks /\ asks' = asks + 1
  /\ ann.restart = {} /\ ~ann.start /\ ann' = [ann EXCEPT !.start = TRUE]
  /\ pods' = Mark({i \in Indices : Started(i) /\ pods[i].start < now})
  /\ UNCHANGED <<annCache, podCache, sync, now, faults, byTime>>

Start(i) ==
  /\ pods[i] # None /\ pods[i].start = None
  /\ pods' = [pods EXCEPT ![i].start = now]
  /\ UNCHANGED <<ann, annCache, podCache, sync, now, asks, faults, byTime>>

Tick ==
  /\ now < MaxTime /\ now' = now + 1
  /\ UNCHANGED <<ann, annCache, pods, podCache, sync, asks, faults, byTime>>

PodCacheSync ==
  /\ podCache # pods /\ podCache' = pods
  /\ UNCHANGED <<ann, annCache, pods, sync, now, asks, faults, byTime>>

JobCacheSync ==
  /\ annCache # ann /\ annCache' = ann
  /\ UNCHANGED <<ann, pods, podCache, sync, now, asks, faults, byTime>>

-----------------------------------------------------------------------------
(* A sync: missing pods first, then the reaction to AIMaster. *)
BeginSync ==
  /\ sync.pc = "idle" /\ (JobCacheLags \/ annCache = ann)
  /\ \A i \in Indices : pods[i] # None => podCache[i] # None
  /\ sync' = [pc |-> "create", ann |-> annCache, pods |-> podCache, todo |-> {i \in Indices : podCache[i] = None}]
  /\ UNCHANGED <<ann, annCache, pods, podCache, now, asks, faults, byTime>>

CreatePod(i) ==
  /\ sync.pc = "create" /\ i \in sync.todo
  /\ IF pods[i] # None THEN sync' = Idle /\ UNCHANGED pods
     ELSE /\ pods' = [pods EXCEPT ![i] = [start |-> None, asked |-> FALSE]]
          /\ sync' = [sync EXCEPT !.todo = @ \ {i}]
  /\ UNCHANGED <<ann, annCache, podCache, now, asks, faults, byTime>>

filterPodsStartedBeforeFailOverTime(ts) ==
  {i \in Indices : sync.pods[i] # None /\ sync.pods[i].start # None /\ sync.pods[i].start < ts}

(* What AIMaster asks for decides what the sync does next.  Restarting all is recorded first: *)
(* it is the timestamp that later syncs go by.                                                 *)
React ==
  /\ sync.pc = "create" /\ sync.todo = {}
  /\ IF sync.ann.restart # {}
     THEN sync' = [sync EXCEPT !.pc = "restart", !.todo = sync.ann.restart] /\ UNCHANGED ann
     ELSE \E ts \in {IF sync.ann.start THEN now ELSE sync.ann.ts} :
            /\ ann' = IF sync.ann.start THEN [ann EXCEPT !.start = FALSE, !.ts = ts] ELSE ann
            /\ sync' = [sync EXCEPT !.pc = "failover", !.todo = filterPodsStartedBeforeFailOverTime(ts)]
  /\ UNCHANGED <<annCache, pods, podCache, now, asks, faults, byTime>>

(* PodControl.DeletePod reads the pod from the cache and deletes what has its name. *)
DeletePod(i) == podCache[i] # None /\ pods[i] # None

RestartPod(i) ==
  /\ sync.pc = "restart" /\ i \in sync.todo /\ \A j \in sync.todo : i <= j
  /\ IF DeletePod(i) THEN pods' = [pods EXCEPT ![i] = None] /\ sync' = [sync EXCEPT !.todo = @ \ {i}]
     ELSE sync' = Idle /\ UNCHANGED pods
  /\ UNCHANGED <<ann, annCache, podCache, now, asks, faults, byTime>>

(* The list is withdrawn once all pods of it are deleted. *)
Withdraw ==
  /\ sync.pc = "restart" /\ sync.todo = {} /\ sync' = Idle
  /\ ann' = [ann EXCEPT !.restart = {}]
  /\ UNCHANGED <<annCache, pods, podCache, now, asks, faults, byTime>>

(* Failures to delete are only logged; the next sync finds the pod again. *)
FailOverPod(i) ==
  /\ sync.pc = "failover" /\ i \in sync.todo
  /\ sync' = [sync EXCEPT !.todo = @ \ {i}]
  /\ IF DeletePod(i) THEN pods' = [pods EXCEPT ![i] = None] /\ byTime' = [byTime EXCEPT ![i] = @ + 1]
     ELSE UNCHANGED <<pods, byTime>>
  /\ UNCHANGED <<ann, annCache, podCache, now, asks, faults>>

EndSync ==
  /\ sync.pc = "failover" /\ sync.todo = {} /\ sync' = Idle
  /\ UNCHANGED <<ann, annCache, pods, podCache, now, asks, faults, byTime>>

(* A call of the sync fails and ends it, or the manager restarts. *)
CallFails ==
  /\ faults < MaxFaults /\ faults' = faults + 1
  /\ sync.pc # "idle" /\ sync' = Idle
  /\ UNCHANGED <<ann, annCache, pods, podCache, now, asks, byTime>>

Sync ==
  \/ BeginSync \/ React \/ Withdraw \/ EndSync
  \/ \E i \in Indices : CreatePod(i) \/ RestartPod(i) \/ FailOverPod(i)

CachesSync == PodCacheSync \/ JobCacheSync
ClusterStep == Tick \/ \E i \in Indices : Start(i)

Next ==
  \/ Sync \/ AskRestartAll \/ Tick \/ PodCacheSync \/ JobCacheSync \/ CallFails
  \/ \E set \in SUBSET Indices : AskRestart(set)
  \/ \E i \in Indices : Start(i)

(* The worker, the informers, time and the engine that creates and starts pods go on. *)
Fairness == WF_vars(Sync) /\ WF_vars(CachesSync) /\ WF_vars(ClusterStep)

Spec == Init /\ [][Next]_vars /\ Fairness

-----------------------------------------------------------------------------
AllServed ==
  /\ ann.restart = {} /\ ~ann.start
  /\ \A i \in Indices : pods[i] # None /\ ~pods[i].asked

OncePerRequest == \A i \in Indices : byTime[i] <= asks
=============================================================================
