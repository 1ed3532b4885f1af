---------------------------- MODULE CacheBackend ----------------------------
(***************************************************************************)
(* The cache backend controller, the Fluid engine, and the calls by which  *)
(* the job engine uses a cache (checkCache, addCachePathToContainer,       *)
(* updateCacheUsedStatus in pkg/job_controller).  Several jobs share one   *)
(* cache by its name; the first creates it, each notes itself in the       *)
(* status while it runs, and the controller deletes a cache that has been  *)
(* idle for long enough.                                                   *)
(*                                                                         *)
(* Abstractions: one name; controllers read the cache object through one   *)
(* informer cache that lags, and all else as it is; the engine's objects   *)
(* are known by the incarnation of the cache that owns them.               *)
(***************************************************************************)
EXTENDS Integers, FiniteSets

CONSTANTS
  Jobs,
  IdleTime,  \* options.idleTime
  MaxTime,   \* bound: the clock; an idle cache is not timed beyond it
  MaxUids,   \* bound: incarnations of the cache
  MaxFaults, \* bound: creations that fail
  None

CacheBackendAssumption == IdleTime \in Nat \ {0} /\ MaxUids \in Nat /\ MaxTime \in Nat /\ MaxFaults \in Nat

VARIABLES
  cb, cbCache, \* the cache: [uid, ver, status, used, last]
  engine,      \* owners of the engine's objects: [dataset, runtime, pvc]
  job,         \* [Jobs -> where the job is]
  sync,        \* the sync of the cache in progress
  queued, clock, timer,
  spent        \* [uids, faults]: what is spent of the bounds

vars == <<cb, cbCache, engine, job, sync, queued, clock, timer, spent>>

Idle == [pc |-> "idle", copy |-> None]

Init ==
  /\ cb = None /\ cbCache = None /\ sync = Idle /\ queued = FALSE /\ clock = 0 /\ timer = None
  /\ engine = [dataset |-> None, runtime |-> None, pvc |-> None]
  /\ job = [j \in Jobs |-> "new"]
  /\ spent = [uids |-> 0, faults |-> 0]

-----------------------------------------------------------------------------
(* A status update carries the version that was read; one that changes nothing is no event. *)

(* Mutant: a status is written whatever the version. *)
StatusUpdateAnyVersion(copy, status) ==
  IF cb = None THEN FALSE ELSE cb' = [status EXCEPT !.ver = IF status = copy THEN @ ELSE cb.ver + 1, !.uid = cb.uid]

StatusUpdate(copy, status) ==
  /\ IF cb = None THEN FALSE ELSE cb.uid = copy.uid /\ cb.ver = copy.ver
  /\ cb' = [status EXCEPT !.ver = IF status = copy THEN @ ELSE @ + 1]
Conflict(copy) == IF cb = None THEN TRUE ELSE cb.uid # copy.uid \/ cb.ver # copy.ver

-----------------------------------------------------------------------------
(* The job engine: a sync of a job that asks for the cache. *)
createCache ==
  /\ cb = None /\ spent.uids < MaxUids
  /\ cb' = [uid |-> spent.uids + 1, ver |-> 1, status |-> "", used |-> {}, last |-> None]
  /\ spent' = [spent EXCEPT !.uids = @ + 1]

(* The cache is found, and the job notes itself; or it is created, and the next sync does.   *)
checkCache(j) ==
  IF cbCache = None THEN createCache
  ELSE /\ UNCHANGED spent
       /\ IF j \in cbCache.used THEN UNCHANGED cb ELSE StatusUpdate(cbCache, [cbCache EXCEPT !.used = @ \cup {j}])

(* Whether the claim is there to be mounted. *)
addCachePathToContainer == engine.pvc # None

JobSync(j) ==
  /\ job[j] = "waiting" /\ checkCache(j)
  /\ job' = [job EXCEPT ![j] = IF addCachePathToContainer THEN "mounted" ELSE @]
  /\ UNCHANGED <<cbCache, engine, sync, queued, clock, timer>>

(* A job that has finished takes itself off; the sync fails for ever if the cache is gone.   *)
updateCacheUsedStatus(j) ==
  /\ job[j] = "done" /\ cbCache # None
  /\ IF j \in cbCache.used THEN StatusUpdate(cbCache, [cbCache EXCEPT !.used = @ \ {j}]) ELSE UNCHANGED cb
  /\ job' = [job EXCEPT ![j] = "released"]
  /\ UNCHANGED <<cbCache, engine, sync, queued, clock, timer, spent>>

-----------------------------------------------------------------------------
(* The controller. *)
End(requeue) == sync' = Idle /\ queued' = requeue

(* What a sync takes from the status it has read: a cache that is used is not idle. *)
Refreshed(copy) == IF copy.used # {} THEN [copy EXCEPT !.last = None] ELSE copy
IsIdle(copy) == copy.status = "PVCCreated" /\ copy.used = {}

Reconcile ==
  /\ sync.pc = "idle" /\ queued
  /\ IF cbCache = None THEN End(FALSE) /\ UNCHANGED <<cb, timer>>
     ELSE LET status == Refreshed(cbCache)
              expired == IF status.last = None THEN FALSE ELSE clock > status.last + IdleTime
              created == [status EXCEPT !.status = "PVCCreated"]
          IN  \/ /\ IsIdle(status) /\ status.last = None
                 /\ \/ StatusUpdate(cbCache, [status EXCEPT !.last = clock]) /\ timer' = clock + IdleTime + 1 /\ End(FALSE)
                    \/ Conflict(cbCache) /\ End(TRUE) /\ UNCHANGED <<cb, timer>>
              \/ /\ IsIdle(status) /\ expired
                 /\ cb' = None /\ End(cb = None) /\ UNCHANGED timer
              \/ /\ ~(IsIdle(status) /\ (status.last = None \/ expired)) /\ engine.pvc # None
                 /\ \/ StatusUpdate(cbCache, created) /\ timer' = clock + 1 /\ End(FALSE)
                    \/ Conflict(cbCache) /\ End(TRUE) /\ UNCHANGED <<cb, timer>>
              \/ /\ ~(IsIdle(status) /\ (status.last = None \/ expired)) /\ engine.pvc = None
                 /\ IF cbCache.status = "PVCCreating" THEN End(TRUE)
                    ELSE sync' = [pc |-> "dataset", copy |-> cbCache] /\ queued' = FALSE
                 /\ UNCHANGED <<cb, timer>>
  /\ UNCHANGED <<cbCache, engine, job, clock, spent>>

(* The engine's objects, each unless it is there; the sync ends at the first that fails.     *)
Create(object, next) ==
  /\ \/ /\ engine' = [engine EXCEPT ![object] = IF @ = None THEN sync.copy.uid ELSE @]
        /\ sync' = [sync EXCEPT !.pc = next] /\ UNCHANGED spent
     \/ /\ engine[object] = None /\ spent.faults < MaxFaults
        /\ sync' = [sync EXCEPT !.pc = "failed"]
        /\ spent' = [spent EXCEPT !.faults = @ + 1] /\ UNCHANGED engine
  /\ UNCHANGED <<cb, cbCache, job, queued, clock, timer>>

createDataset == sync.pc = "dataset" /\ Create("dataset", "runtime")
createAlluxioRuntime == sync.pc = "runtime" /\ Create("runtime", "created")

AfterCreation(status, requeue) ==
  /\ \/ StatusUpdate(sync.copy, status) /\ End(queued \/ requeue)
     \/ Conflict(sync.copy) /\ End(TRUE) /\ UNCHANGED cb
  /\ UNCHANGED <<cbCache, engine, job, clock, timer, spent>>

CacheFailed ==
  /\ sync.pc = "failed"
  /\ AfterCreation([Refreshed(sync.copy) EXCEPT !.status = "CacheFailed"], TRUE)

CacheSucceed ==
  /\ sync.pc = "created"
  /\ AfterCreation([sync.copy EXCEPT !.status = "PVCCreating", !.last = None], FALSE)

-----------------------------------------------------------------------------
(* Users, the engine, the garbage collector, the cache and time. *)
MoveJob(j, from, to) ==
  /\ job[j] \in from /\ job' = [job EXCEPT ![j] = to]
  /\ UNCHANGED <<cb, cbCache, engine, sync, queued, clock, timer, spent>>
Submit(j) == MoveJob(j, {"new"}, "waiting")
Finish(j) == MoveJob(j, {"mounted"}, "done")
DeleteJob(j) == MoveJob(j, {"waiting", "mounted", "done"}, "deleted")

FluidBinds ==
  /\ engine.dataset # None /\ engine.runtime # None /\ engine.pvc = None
  /\ engine' = [engine EXCEPT !.pvc = engine.dataset]
  /\ UNCHANGED <<cb, cbCache, job, sync, queued, clock, timer, spent>>

Orphan(owner) == IF cb = None THEN TRUE ELSE cb.uid # owner
Collect ==
  /\ \E o \in {"dataset", "runtime"} : engine[o] # None /\ Orphan(engine[o]) /\ engine' = [engine EXCEPT ![o] = None]
  /\ UNCHANGED <<cb, cbCache, job, sync, queued, clock, timer, spent>>
FluidUnbinds ==
  /\ engine.pvc # None /\ engine.dataset # engine.pvc /\ engine' = [engine EXCEPT !.pvc = None]
  /\ UNCHANGED <<cb, cbCache, job, sync, queued, clock, timer, spent>>

CacheSync ==
  /\ cbCache # cb /\ cbCache' = cb /\ queued' = TRUE
  /\ UNCHANGED <<cb, engine, job, sync, clock, timer, spent>>

Tick ==
  /\ clock < MaxTime /\ clock' = clock + 1
  /\ UNCHANGED <<cb, cbCache, engine, job, sync, queued, timer, spent>>

Due ==
  /\ timer # None /\ timer <= clock /\ timer' = None /\ queued' = TRUE
  /\ UNCHANGED <<cb, cbCache, engine, job, sync, clock, spent>>

Sync == Reconcile \/ createDataset \/ createAlluxioRuntime \/ CacheFailed \/ CacheSucceed
JobStep(j) == JobSync(j) \/ updateCacheUsedStatus(j)

ClusterStep == FluidBinds \/ FluidUnbinds \/ Collect \/ Due
JobSyncs == \E j \in Jobs : JobStep(j)

Next ==
  \/ Sync \/ FluidBinds \/ FluidUnbinds \/ Collect \/ CacheSync \/ Tick \/ Due
  \/ \E j \in Jobs : JobStep(j) \/ Submit(j) \/ Finish(j) \/ DeleteJob(j)

(* The worker, the syncs of jobs, Fluid, the garbage collector, the timer and the informer go on. *)
Fairness == WF_vars(Sync) /\ WF_vars(ClusterStep) /\ WF_vars(CacheSync) /\ WF_vars(JobSyncs)

Spec == Init /\ [][Next]_vars /\ Fairness

-----------------------------------------------------------------------------
KeepsUsers ==
  \A j \in Jobs :
    (IF cb # None /\ cb' # None THEN cb'.uid = cb.uid /\ j \in cb.used /\ j \notin cb'.used ELSE FALSE)
      => job[j] = "done"

(* A new cache of the name took what an earlier one had left for its own, and it was         *)
(* collected: the claim that the cache waits for will never come (cachebackend_controller.go:126). *)
Abandoned == IF cb = None THEN FALSE ELSE cb.uid > 1 /\ cb.status = "PVCCreating" /\ (engine.dataset = None \/ engine.runtime = None)

NoneWaits == Abandoned \/ \A j \in Jobs : job[j] # "waiting"
=============================================================================
