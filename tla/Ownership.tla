------------------------------ MODULE Ownership ------------------------------
(***************************************************************************)
(* Whose services are these?  Jobs of different kinds may have the same    *)
(* name, and their services then have the same labels and the same names;  *)
(* a job may be created again under the name of one whose services are     *)
(* still there.  A sync lists services by labels, claims those that it     *)
(* controls, adopts orphans (service_ref_manager.go) and creates what is   *)
(* missing.  Pods go the same way with the library's own ref manager.      *)
(*                                                                         *)
(* Abstractions: all jobs share one name.  A service's uid is one that     *)
(* nobody remembers.  The list is made with the very selector that claims  *)
(* are checked with, so that nothing is ever released.                     *)
(* Expectations are left to JobController: the pods' key lets a retry pass.*)
(***************************************************************************)
EXTENDS Naturals, FiniteSets

CONSTANTS
  Kinds,      \* kinds of jobs, each with its own controller
  Names,      \* names of services
  MaxUid,     \* bound: jobs that are created
  MaxFaults,  \* bound: calls that fail and services that are deleted
  None

VARIABLES
  jobs,       \* per kind, the job of the name
  svcs,       \* the services
  jobCache, svcCache,
  queue,      \* keys to reconcile
  worker,     \* per kind, the sync in progress
  late,       \* jobs deleted when a sync had just checked that they exist
  nextUid, faults

vars == <<jobs, svcs, jobCache, svcCache, queue, worker, late, nextUid, faults>>

Uids == 1..MaxUid
Idle == [uid |-> None, list |-> None, todo |-> {}, check |-> "no", claimed |-> {}, failed |-> FALSE]

Init ==
  /\ jobs = [k \in Kinds |-> None] /\ svcs = [n \in Names |-> None]
  /\ jobCache = jobs /\ svcCache = svcs /\ queue = {}
  /\ worker = [k \in Kinds |-> Idle] /\ late = {} /\ nextUid = 1 /\ faults = MaxFaults

Live(uid) == \E k \in Kinds : jobs[k] # None /\ jobs[k].uid = uid /\ ~jobs[k].deleting
Present(uid) == \E k \in Kinds : jobs[k] # None /\ jobs[k].uid = uid
Fault == faults > 0 /\ faults' = faults - 1
NoFault == UNCHANGED faults

-----------------------------------------------------------------------------
(* Users and the garbage collector of the cluster. *)
CreateJob(k) ==
  /\ jobs[k] = None /\ nextUid \in Uids
  /\ jobs' = [jobs EXCEPT ![k] = [uid |-> nextUid, deleting |-> FALSE]] /\ nextUid' = nextUid + 1
  /\ UNCHANGED <<svcs, jobCache, svcCache, queue, worker, late, faults>>

(* A job is deleted with its services, or its services are to stay as orphans. *)
DeleteJob(k) ==
  /\ jobs[k] # None /\ ~jobs[k].deleting
  /\ \E left \in {None, [jobs[k] EXCEPT !.deleting = TRUE]} : jobs' = [jobs EXCEPT ![k] = left]
  /\ late' = late \cup {u \in {jobs[k].uid} : worker[k].uid = u /\ worker[k].check = "yes"}
  /\ UNCHANGED <<svcs, jobCache, svcCache, queue, worker, nextUid, faults>>

Orphan(k) ==
  /\ jobs[k] # None /\ jobs[k].deleting
  /\ svcs' = [n \in Names |-> IF svcs[n] # None /\ svcs[n].owner = jobs[k].uid
                              THEN [svcs[n] EXCEPT !.owner = None] ELSE svcs[n]]
  /\ jobs' = [jobs EXCEPT ![k] = None]
  /\ UNCHANGED <<jobCache, svcCache, queue, worker, late, nextUid, faults>>

Collect(n) ==
  /\ svcs[n] # None /\ svcs[n].owner # None /\ ~Present(svcs[n].owner)
  /\ svcs' = [svcs EXCEPT ![n] = None]
  /\ UNCHANGED <<jobs, jobCache, svcCache, queue, worker, late, nextUid, faults>>

(* The caches merge events; a service that is deleted is one that they have seen. *)
UserDeletesService(n) ==
  /\ svcs[n] # None /\ svcCache[n] = svcs[n] /\ Fault /\ svcs' = [svcs EXCEPT ![n] = None]
  /\ UNCHANGED <<jobs, jobCache, svcCache, queue, worker, late, nextUid>>

-----------------------------------------------------------------------------
(* Events.  A service wakes the job that controlled it before or controls it now, if the     *)
(* cache knows a job with that uid.                                                           *)
DeliverJob(k) ==
  /\ jobCache[k] # jobs[k] /\ jobCache' = [jobCache EXCEPT ![k] = jobs[k]]
  /\ queue' = queue \cup {k}
  /\ UNCHANGED <<jobs, svcs, svcCache, worker, late, nextUid, faults>>

resolveControllerRef(s) == {k \in Kinds : s # None /\ jobCache[k] # None /\ jobCache[k].uid = s.owner}
OnServiceUpdateFunc(old, new) == resolveControllerRef(old) \cup resolveControllerRef(new)

DeliverService(n) ==
  /\ svcCache[n] # svcs[n] /\ svcCache' = [svcCache EXCEPT ![n] = svcs[n]]
  /\ queue' = queue \cup OnServiceUpdateFunc(svcCache[n], svcs[n])
  /\ UNCHANGED <<jobs, svcs, jobCache, worker, late, nextUid, faults>>

-----------------------------------------------------------------------------
(* A sync.  GetServicesForJob lists from the cache. *)
StartSync(k) ==
  /\ k \in queue /\ worker[k] = Idle /\ queue' = queue \ {k}
  /\ worker' = [worker EXCEPT ![k] =
       IF jobCache[k] = None \/ (jobCache[k] # None /\ jobCache[k].deleting) THEN Idle
       ELSE [Idle EXCEPT !.uid = jobCache[k].uid, !.list = svcCache,
                         !.todo = {n \in Names : svcCache[n] # None}]]
  /\ UNCHANGED <<jobs, svcs, jobCache, svcCache, late, nextUid, faults>>

(* Mutant: the labels are enough. *)
MineByLabels(k, n) == worker[k].list[n].owner # None

(* ClaimObject of the library: a service without controller may be adopted. *)
Mine(k, n) == worker[k].list[n].owner = worker[k].uid
Adoptable(k, n) == worker[k].list[n].owner = None

(* The uncached read before the first adoption of a sync; it may fail. *)
RecheckDeletionTimestamp(k) == Live(worker[k].uid)

CanAdopt(k) ==
  /\ \E n \in worker[k].todo : Adoptable(k, n)
  /\ worker[k].check = "no"
  /\ \/ NoFault /\ worker' = [worker EXCEPT ![k].check = IF RecheckDeletionTimestamp(k) THEN "yes" ELSE "refused"]
     \/ Fault /\ worker' = [worker EXCEPT ![k].check = "refused"]
  /\ UNCHANGED <<jobs, svcs, jobCache, svcCache, queue, late, nextUid>>

Claimed(k, n, id) ==
  [worker EXCEPT ![k].todo = @ \ {n}, ![k].list[n] = None, ![k].claimed = @ \cup {[name |-> n, id |-> id]}]
Skipped(k, n) == [worker EXCEPT ![k].todo = @ \ {n}, ![k].list[n] = None]
Refused(k, n) == [worker EXCEPT ![k].todo = @ \ {n}, ![k].list[n] = None, ![k].failed = TRUE]

Patchable(k, n) ==
  /\ svcs[n] # None /\ svcs[n].id = worker[k].list[n].id /\ svcs[n].owner \in {None, worker[k].uid}

(* The patch names the uid of the service; the API server refuses a second controller. *)
AdoptService(k, n) ==
  \/ /\ Patchable(k, n) /\ NoFault
     /\ svcs' = [svcs EXCEPT ![n].owner = worker[k].uid] /\ worker' = Claimed(k, n, svcs[n].id)
  \/ /\ svcs[n] = None \/ svcCache[n] = None
     /\ worker' = Skipped(k, n) /\ NoFault /\ UNCHANGED svcs
  \/ /\ (~Patchable(k, n) /\ svcs[n] # None /\ NoFault) \/ Fault
     /\ worker' = Refused(k, n) /\ UNCHANGED svcs

ClaimServices(k) ==
  /\ \E n \in worker[k].todo :
       \/ Mine(k, n) /\ worker' = Claimed(k, n, worker[k].list[n].id) /\ UNCHANGED <<svcs, faults>>
       \/ ~Mine(k, n) /\ ~Adoptable(k, n) /\ worker' = Skipped(k, n) /\ UNCHANGED <<svcs, faults>>
       \/ ~Mine(k, n) /\ Adoptable(k, n) /\ worker[k].check = "refused" /\ worker' = Refused(k, n) /\ UNCHANGED <<svcs, faults>>
       \/ ~Mine(k, n) /\ Adoptable(k, n) /\ worker[k].check = "yes" /\ AdoptService(k, n)
  /\ UNCHANGED <<jobs, jobCache, svcCache, queue, late, nextUid>>

Missing(k) == Names \ {c.name : c \in worker[k].claimed}
(* A uid that neither the cluster nor a cache nor a sync in progress knows. *)
FreshId(n) ==
  LET known == {s.id : s \in {svcs[n], svcCache[n]} \ {None}}
               \cup UNION {{s.id : s \in {worker[k].list[n]} \ {None}} : k \in {k \in Kinds : worker[k].uid # None}}
               \cup UNION {{c.id : c \in {c \in worker[k].claimed : c.name = n}} : k \in Kinds}
  IN  CHOOSE id \in 1..2 * (Cardinality(Kinds) + 1) + 1 : id \notin known /\ \A i \in 1..id - 1 : i \in known
GenOwnerReference(k) == worker[k].uid

(* CreateService: a name that is taken, or a failed call, ends the sync with an error. *)
CreateService(k) ==
  /\ worker[k].uid # None /\ worker[k].todo = {} /\ ~worker[k].failed
  /\ \E n \in Missing(k) :
       \/ /\ svcs[n] = None /\ NoFault
          /\ svcs' = [svcs EXCEPT ![n] = [id |-> FreshId(n), owner |-> GenOwnerReference(k)]]
          /\ worker' = Claimed(k, n, FreshId(n)) /\ UNCHANGED queue
       \/ /\ (svcs[n] # None /\ NoFault) \/ Fault
          /\ worker' = [worker EXCEPT ![k] = Idle] /\ queue' = queue \cup {k} /\ UNCHANGED svcs
  /\ UNCHANGED <<jobs, jobCache, svcCache, late, nextUid>>

(* A failed claim ends the sync with an error, which brings it back. *)
EndSync(k) ==
  /\ worker[k].uid # None /\ worker[k].todo = {} /\ (worker[k].failed \/ Missing(k) = {})
  /\ worker' = [worker EXCEPT ![k] = Idle]
  /\ queue' = IF worker[k].failed THEN queue \cup {k} ELSE queue
  /\ UNCHANGED <<jobs, svcs, jobCache, svcCache, late, nextUid, faults>>

-----------------------------------------------------------------------------
Sync(k) == StartSync(k) \/ CanAdopt(k) \/ ClaimServices(k) \/ CreateService(k) \/ EndSync(k)
DeliverJobs == \E k \in Kinds : DeliverJob(k)
DeliverServices == \E n \in Names : DeliverService(n)
Collector == (\E k \in Kinds : Orphan(k)) \/ (\E n \in Names : Collect(n))

Next ==
  \/ \E k \in Kinds : CreateJob(k) \/ DeleteJob(k) \/ Sync(k)
  \/ \E n \in Names : UserDeletesService(n)
  \/ DeliverJobs \/ DeliverServices \/ Collector

Fairness ==
  /\ \A k \in Kinds : WF_vars(Sync(k))
  /\ WF_vars(DeliverJobs) /\ WF_vars(DeliverServices) /\ WF_vars(Collector)

Spec == Init /\ [][Next]_vars /\ Fairness

-----------------------------------------------------------------------------
(* An orphan goes to a job that exists, or that was deleted between the check and the patch. *)
AdoptsForTheLiving ==
  \A n \in Names :
    svcs[n] # None /\ svcs'[n] # None /\ svcs[n].owner = None /\ svcs'[n].owner # None
      => Live(svcs'[n].owner) \/ svcs'[n].owner \in late

(* What the sync of a job that exists has claimed is, unless replaced, controlled by that job. *)
ClaimsItsOwn ==
  \A k \in Kinds : Live(worker[k].uid) =>
    \A c \in worker[k].claimed :
      svcs[c.name] # None /\ svcs[c.name].id = c.id => svcs[c.name].owner = worker[k].uid

(* A job without a rival has its services. *)
SoleJobHasServices ==
  \A k \in Kinds :
    jobs[k] # None /\ ~jobs[k].deleting /\ (\A o \in Kinds \ {k} : jobs[o] = None)
      => \A n \in Names : svcs[n] # None /\ svcs[n].owner = jobs[k].uid
=============================================================================
