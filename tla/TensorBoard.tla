---------------------------- MODULE TensorBoard ----------------------------
(***************************************************************************)
(* The tensorboard of a TFJob (pkg/tensorboard and the console's handlers):*)
(* an annotation of the job asks for a pod, a service and an ingress of    *)
(* one name; the job's sync makes them, replaces them when the annotation  *)
(* changes, and removes them when the time to live after the end of the    *)
(* job is over.                                                            *)
(*                                                                         *)
(* Abstractions: a configuration is [dir, ing, upd]: what the pod is made  *)
(* from, whether an ingress is wanted, and the time it was applied; the    *)
(* caches of jobs and pods lag, services and ingresses are read as they    *)
(* are; the objects of the name may at first belong to an earlier job.     *)
(***************************************************************************)
EXTENDS Integers, FiniteSets

CONSTANTS
  Dirs,      \* log directories
  TTL,       \* ttlSecondsAfterJobFinished
  MaxTime,   \* bound: the clock
  LastApply, \* bound: nobody changes the annotation after this time
  MaxEdits,  \* bound: changes of the annotation, by the console or by hand
  None

TensorBoardAssumption ==
  TTL \in Nat /\ LastApply \in Nat /\ MaxTime \in Nat /\ LastApply + TTL < MaxTime

VARIABLES
  job, jobCache, \* the job: [ver, fin, cfg]; fin is its completion time
  pod, podCache, \* [own, dir, ing, term]
  svc, ing,      \* None or [own]; None or [own, dir]
  clock, timer,  \* now; when the key is due again
  queued, sync,  \* the work queue and the sync in progress
  con,           \* the re-apply request the console is serving; dropped: it answered "not
                 \* changed" after it had deleted the ingress
  edits

vars == <<job, jobCache, pod, podCache, svc, ing, clock, timer, queued, sync, con, edits>>
objects == <<pod, podCache, svc, ing>>

Idle == [pc |-> "idle", copy |-> None]
NoRequest == [pc |-> "idle", new |-> None, dirty |-> FALSE, dropped |-> FALSE]
Config == [dir : Dirs, ing : BOOLEAN, upd : 0..MaxTime]

FirstDir == CHOOSE d \in Dirs : TRUE

Init ==
  /\ job = [ver |-> 1, fin |-> None, cfg |-> [dir |-> FirstDir, ing |-> TRUE, upd |-> 0]]
  /\ jobCache = job /\ queued = TRUE /\ sync = Idle /\ con = NoRequest
  /\ clock = 0 /\ timer = None /\ edits = 0
  /\ \E foreign \in BOOLEAN :
       /\ pod = IF foreign THEN [own |-> FALSE, dir |-> FirstDir, ing |-> TRUE, term |-> FALSE] ELSE None
       /\ svc = IF foreign THEN [own |-> FALSE] ELSE None
       /\ ing = IF foreign THEN [own |-> FALSE, dir |-> FirstDir] ELSE None
  /\ podCache = pod

-----------------------------------------------------------------------------
(* The sync of the job, after ReconcileJobs. *)
Retry == queued' = TRUE /\ sync' = Idle
Go(pc) == sync' = [sync EXCEPT !.pc = pc] /\ UNCHANGED queued

(* The time to live counts from the end of the job, or from a later configuration. *)
DeleteTime(copy) == (IF copy.fin < copy.cfg.upd THEN copy.cfg.upd ELSE copy.fin) + TTL

Earliest(at) == IF timer = None THEN at ELSE IF at < timer THEN at ELSE timer

ReconcileTensorBoard ==
  /\ sync.pc = "idle" /\ queued /\ queued' = FALSE
  /\ LET copy == jobCache
         expired == IF copy.fin = None \/ copy.cfg = None THEN FALSE ELSE clock > DeleteTime(copy)
     IN  /\ sync' = [copy |-> copy,
                     pc |-> IF copy.cfg = None THEN "deleteIngress" ELSE IF expired THEN "expire" ELSE "pod"]
         /\ timer' = IF copy.fin = None \/ copy.cfg = None \/ expired THEN timer ELSE Earliest(DeleteTime(copy) + 1)
  /\ UNCHANGED <<job, jobCache, objects, clock, con, edits>>

(* The annotation is removed by an update of the job, which the next sync finds. *)
cleanupAndCheckNeedSync ==
  /\ sync.pc = "expire"
  /\ \/ job.ver = sync.copy.ver /\ job' = [job EXCEPT !.ver = @ + 1, !.cfg = None] /\ Go("idle")
     \/ job.ver # sync.copy.ver /\ Retry /\ UNCHANGED job
  /\ UNCHANGED <<jobCache, objects, clock, timer, con, edits>>

(* A pod remembers the whole configuration but for the time it was applied. *)
PodOutdated(cfg, p) == p.dir # cfg.dir \/ p.ing # cfg.ing

CreatePod ==
  IF pod = None
  THEN pod' = [own |-> TRUE, dir |-> sync.copy.cfg.dir, ing |-> sync.copy.cfg.ing, term |-> FALSE] /\ Go("service")
  ELSE Retry /\ UNCHANGED pod

(* A pod that runs goes only after a while, and until then no other can have its name. *)
DeletePod == pod # None /\ pod' \in {None, [pod EXCEPT !.term = TRUE]}

syncPod ==
  /\ sync.pc = "pod"
  /\ IF podCache = None THEN CreatePod
     ELSE IF ~podCache.own THEN Retry /\ UNCHANGED pod
     ELSE IF ~PodOutdated(sync.copy.cfg, podCache) THEN Go("service") /\ UNCHANGED pod
     ELSE \/ pod = None /\ Retry /\ UNCHANGED pod
          \/ DeletePod /\ (IF pod' = None THEN Go("createPod") ELSE Retry)
  /\ UNCHANGED <<job, jobCache, podCache, svc, ing, clock, timer, con, edits>>

createPodAgain ==
  /\ sync.pc = "createPod" /\ CreatePod
  /\ UNCHANGED <<job, jobCache, podCache, svc, ing, clock, timer, con, edits>>

syncService ==
  /\ sync.pc = "service"
  /\ IF svc = None THEN svc' = [own |-> TRUE] /\ Go("ingress")
     ELSE IF svc.own THEN Go("ingress") /\ UNCHANGED svc
     ELSE Retry /\ UNCHANGED svc
  /\ UNCHANGED <<job, jobCache, pod, podCache, ing, clock, timer, con, edits>>

(* A configuration that asks for no ingress leaves one that is there. *)
syncIngress ==
  /\ sync.pc = "ingress"
  /\ IF ~sync.copy.cfg.ing THEN Go("idle") /\ UNCHANGED ing
     ELSE IF ing = None THEN ing' = [own |-> TRUE, dir |-> sync.copy.cfg.dir] /\ Go("idle")
     ELSE IF ing.own THEN ing' = [own |-> TRUE, dir |-> sync.copy.cfg.dir] /\ Go("idle")
     ELSE Retry /\ UNCHANGED ing
  /\ UNCHANGED <<job, jobCache, pod, podCache, svc, clock, timer, con, edits>>

(* Without the annotation the objects go, the ingress first. *)
deleteIngress ==
  /\ sync.pc = "deleteIngress"
  /\ ing' = IF ing # None /\ ing.own THEN None ELSE ing
  /\ Go("deleteService")
  /\ UNCHANGED <<job, jobCache, pod, podCache, svc, clock, timer, con, edits>>

deleteService ==
  /\ sync.pc = "deleteService"
  /\ svc' = IF svc # None /\ svc.own THEN None ELSE svc
  /\ Go("deletePod")
  /\ UNCHANGED <<job, jobCache, pod, podCache, ing, clock, timer, con, edits>>

deletePod ==
  /\ sync.pc = "deletePod"
  /\ IF podCache # None /\ podCache.own
     THEN \/ DeletePod /\ Go("idle")
          \/ pod = None /\ Retry /\ UNCHANGED pod
     ELSE Go("idle") /\ UNCHANGED pod
  /\ UNCHANGED <<job, jobCache, podCache, svc, ing, clock, timer, con, edits>>

-----------------------------------------------------------------------------
(* The console re-applies a tensorboard: pod and ingress are deleted, and the annotation is  *)
(* written unless nothing changed and there was no pod.  The posted configuration carries    *)
(* the time of the current one, or none.                                                      *)
GetTensorBoardInstance == podCache # None /\ podCache.own
ListIngressInstances == ing # None /\ ing.own
CanEdit == edits < MaxEdits /\ clock <= LastApply /\ edits' = edits + 1

ReapplyTensorBoardInstance ==
  /\ con.pc = "idle" /\ CanEdit
  /\ \E new \in Config :
       /\ new.upd \in {0, IF jobCache.cfg = None THEN 0 ELSE jobCache.cfg.upd}
       /\ con' = [con EXCEPT !.pc = "pod", !.new = new, !.dirty = (new # jobCache.cfg)]
  /\ UNCHANGED <<job, jobCache, objects, clock, timer, queued, sync>>

ReapplyDeletePod ==
  /\ con.pc = "pod"
  /\ IF GetTensorBoardInstance /\ pod # None THEN DeletePod ELSE UNCHANGED pod
  /\ con' = [con EXCEPT !.pc = "ingress", !.dirty = @ \/ GetTensorBoardInstance]
  /\ UNCHANGED <<job, jobCache, podCache, svc, ing, clock, timer, queued, sync, edits>>

ReapplyDeleteIngresses ==
  /\ con.pc = "ingress"
  /\ ing' = IF ListIngressInstances THEN None ELSE ing
  /\ con' = IF con.dirty THEN [con EXCEPT !.pc = "apply", !.new.upd = clock] ELSE [NoRequest EXCEPT !.dropped = con.dropped \/ ing # ing']
  /\ UNCHANGED <<job, jobCache, pod, podCache, svc, clock, timer, queued, sync, edits>>

ApplyNewTensorBoardConfig ==
  /\ con.pc = "apply" /\ con' = [NoRequest EXCEPT !.dropped = con.dropped]
  /\ job' = IF job.ver = jobCache.ver THEN [job EXCEPT !.ver = @ + 1, !.cfg = con.new] ELSE job
  /\ UNCHANGED <<jobCache, objects, clock, timer, queued, sync, edits>>

-----------------------------------------------------------------------------
(* The job, its other users, the API server and time. *)
EditAnnotation ==
  /\ CanEdit
  /\ \E cfg \in {c \in Config : c.upd = 0} \cup {None} : job' = [job EXCEPT !.ver = @ + 1, !.cfg = cfg]
  /\ UNCHANGED <<jobCache, objects, clock, timer, queued, sync, con>>

Finish ==
  /\ job.fin = None /\ job' = [job EXCEPT !.ver = @ + 1, !.fin = clock] /\ clock <= LastApply
  /\ UNCHANGED <<jobCache, objects, clock, timer, queued, sync, con, edits>>

SyncJobCache ==
  /\ jobCache # job /\ jobCache' = job /\ queued' = TRUE
  /\ UNCHANGED <<job, objects, clock, timer, sync, con, edits>>

SyncPodCache ==
  /\ podCache # pod /\ podCache' = pod /\ queued' = TRUE
  /\ UNCHANGED <<job, jobCache, pod, svc, ing, clock, timer, sync, con, edits>>

PodGone ==
  /\ pod # None /\ pod.term /\ pod' = None
  /\ UNCHANGED <<job, jobCache, podCache, svc, ing, clock, timer, queued, sync, con, edits>>

(* What an earlier job of the name left is collected. *)
CollectForeign ==
  /\ \/ pod # None /\ ~pod.own /\ pod' = None /\ UNCHANGED <<svc, ing>>
     \/ svc # None /\ ~svc.own /\ svc' = None /\ UNCHANGED <<pod, ing>>
     \/ ing # None /\ ~ing.own /\ ing' = None /\ UNCHANGED <<pod, svc>>
  /\ UNCHANGED <<job, jobCache, podCache, clock, timer, queued, sync, con, edits>>

(* Bound: a request of the console ends by LastApply. *)
Tick ==
  /\ clock < (IF con.pc = "idle" THEN MaxTime ELSE LastApply) /\ clock' = clock + 1
  /\ UNCHANGED <<job, jobCache, objects, timer, queued, sync, con, edits>>

Due ==
  /\ timer # None /\ timer <= clock /\ timer' = None /\ queued' = TRUE
  /\ UNCHANGED <<job, jobCache, objects, clock, sync, con, edits>>

Sync ==
  \/ ReconcileTensorBoard \/ cleanupAndCheckNeedSync \/ syncPod \/ createPodAgain \/ syncService \/ syncIngress
  \/ deleteIngress \/ deleteService \/ deletePod
Reapply == ReapplyDeletePod \/ ReapplyDeleteIngresses \/ ApplyNewTensorBoardConfig

CachesSync == SyncJobCache \/ SyncPodCache
ClusterStep == PodGone \/ CollectForeign \/ Tick
Requests == Due \/ Reapply

Next ==
  \/ Sync \/ ReapplyTensorBoardInstance \/ Reapply \/ EditAnnotation \/ Finish
  \/ SyncJobCache \/ SyncPodCache \/ PodGone \/ CollectForeign \/ Tick \/ Due

(* The worker, the informers, the cluster, time, the timer of a requeue and a request that  *)
(* was begun go on.                                                                          *)
Fairness == WF_vars(Sync) /\ WF_vars(CachesSync) /\ WF_vars(ClusterStep) /\ WF_vars(Requests)

Spec == Init /\ [][Next]_vars /\ Fairness

-----------------------------------------------------------------------------
EndsInTime ==
  job.cfg # None /\ job'.cfg = None /\ edits' = edits
    => job.fin # None /\ clock > job.fin + TTL /\ clock > job.cfg.upd + TTL

LeavesOthersAlone ==
  /\ pod # None /\ ~pod.own => pod' \in {pod, None}
  /\ svc # None /\ ~svc.own => svc' \in {svc, None}
  /\ ing # None /\ ~ing.own => ing' \in {ing, None}

Settled ==
  /\ job.fin # None => job.cfg = None
  /\ job.cfg = None => pod = None /\ svc = None /\ ing = None
  /\ job.cfg # None =>
       /\ pod # None /\ pod.own /\ pod.dir = job.cfg.dir /\ pod.ing = job.cfg.ing /\ svc # None
       /\ job.cfg.ing /\ ~con.dropped => ing = [own |-> TRUE, dir |-> job.cfg.dir]
=============================================================================
