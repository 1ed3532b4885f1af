----------------------------- MODULE MCAddons -----------------------------
(***************************************************************************)
(* What surrounds the job engine, one part at a time (scenario tells       *)
(* which): the list of conditions, notebooks, tensorboards, cache          *)
(* backends, gangs, the host network, error monitoring, the web services   *)
(* of MarsJobs, the console's sources and the ownership of services.  The  *)
(* variables of the other parts are 0.                                     *)
(***************************************************************************)
EXTENDS ConditionList

CONSTANTS None, j1, j2, d1, d2, s1, s2

VARIABLES nb, nbCache, pod, podCache, svc, ing, queued, sync, used, job, jobCache, clock, timer,
          con, edits, cb, cbCache, engine, spent, conf, groups, groupCache, pods, finished, faults,
          services, serviceCache, ann, annCache, now, asks, byTime, ports, svcs, svcCache,
          ingresses, ingressCache, addresses, uid, cm, cache, ns, pvc, req, count,
          jobs, queue, worker, late, nextUid, scenario

Notebooks == INSTANCE Notebook WITH
  Envs <- {<<"NOTEBOOK_ARGS", "GRANT_SUDO">>}, MaxEvents <- 2

Boards == INSTANCE TensorBoard WITH
  Dirs <- {d1, d2}, TTL <- 1, LastApply <- 1, MaxTime <- 3, MaxEdits <- 1

Caches == INSTANCE CacheBackend WITH
  Jobs <- {j1, j2}, IdleTime <- 1, MaxUids <- 2, MaxTime <- 2, MaxFaults <- 1

GangJob(plugin, dag, replicas, minAvailable) ==
  [plugin |-> plugin, dag |-> dag, replicas |-> replicas, minAvailable |-> minAvailable]

Gangs == INSTANCE Gang WITH
  Confs <- {GangJob(p, d, r, m) : p \in {"volcano", "coscheduler"}, d \in BOOLEAN, m \in {0, 2},
                                  r \in {[PS |-> 1, Worker |-> 2], [AIMaster |-> 1, Master |-> 1, Worker |-> 1]}},
  Earlier <- {{}, {[of |-> "job", uid |-> 0, min |-> 5]}, {[of |-> "Worker", uid |-> 0, min |-> 5]}},
  MaxFaults <- 1

Peers == INSTANCE HostNetwork WITH
  Confs <- {[replicas |-> r, ports |-> p] : r \in {None, 2}, p \in {<<"main">>, <<>>}},
  HostPorts <- {1, 2}, SpecPort <- 0, Main <- "main", MaxFaults <- 2

Monitor == INSTANCE ErrorMonitoring WITH
  Replicas <- 2, JobCacheLags <- FALSE, MaxTime <- 3, MaxAsks <- 1, MaxFaults <- 1

Web == INSTANCE MarsWeb WITH
  Replicas <- 2, PortLists <- {<<"main">>, <<"debug", "main">>}, Main <- "main", MaxFaults <- 1

SourcePages == INSTANCE Sources WITH
  Names <- {"a", "w"}, Workspaces <- {"w"}, Sessions <- {s1, s2}, MaxRequests <- 2

Owners == INSTANCE Ownership WITH
  Kinds <- {"TFJob", "PyTorchJob"}, Names <- {"s0"}, MaxUid <- 2, MaxFaults <- 1

ASSUME AddonAssumptions ==
  /\ Notebooks!NotebookAssumption /\ Boards!TensorBoardAssumption
  /\ Caches!CacheBackendAssumption /\ Gangs!GangAssumption /\ SourcePages!SourcesAssumption

-----------------------------------------------------------------------------
(* The variables that only one part has. *)
NotebookOnly == <<nb, nbCache, used>>
BoardOnly    == <<jobCache, con, edits>>
CacheOnly    == <<cb, cbCache, engine, spent>>
GangOnly     == <<groups, groupCache, finished>>
PeersOnly    == <<services, serviceCache>>
MonitorOnly  == <<ann, annCache, now, asks, byTime>>
WebOnly      == <<ports, svcs, svcCache, ingresses, ingressCache, addresses, uid>>
SourcesOnly  == <<cm, cache, ns, pvc, req, count>>
OwnersOnly   == <<jobs, queue, worker, late, nextUid>>

(* The variables of the part at work: no others ever change. *)
vars ==
  CASE scenario = "notebook"    -> Notebooks!vars
    [] scenario = "tensorboard" -> Boards!vars
    [] scenario = "cache"       -> Caches!vars
    [] scenario = "monitor"     -> Monitor!vars
    [] scenario = "web"         -> Web!vars
    [] scenario = "peers"       -> Peers!vars
    [] scenario = "gang"        -> Gangs!vars
    [] scenario = "sources"     -> SourcePages!vars
    [] scenario = "owners"      -> Owners!vars
    [] scenario = "conditions"  -> conditions

NoNotebook == nb = 0 /\ nbCache = 0 /\ used = 0
NoBoard    == jobCache = 0 /\ con = 0 /\ edits = 0
NoCache    == cb = 0 /\ cbCache = 0 /\ engine = 0 /\ spent = 0
NoGang     == groups = 0 /\ groupCache = 0 /\ finished = 0
NoPeers    == services = 0 /\ serviceCache = 0
NoMonitor  == ann = 0 /\ annCache = 0 /\ now = 0 /\ asks = 0 /\ byTime = 0
NoWeb      == ports = 0 /\ svcs = 0 /\ svcCache = 0 /\ ingresses = 0 /\ ingressCache = 0 /\ addresses = 0 /\ uid = 0
NoSources  == cm = 0 /\ cache = 0 /\ ns = 0 /\ pvc = 0 /\ req = 0 /\ count = 0
NoOwners   == jobs = 0 /\ queue = 0 /\ worker = 0 /\ late = 0 /\ nextUid = 0
NoObjects  == pod = 0 /\ svc = 0 /\ ing = 0
NoTime     == job = 0 /\ clock = 0 /\ timer = 0
NoPods     == pods = 0 /\ faults = 0

PartInit ==
  \/ /\ scenario = "conditions" /\ Init
     /\ NoOwners /\ NoNotebook /\ NoBoard /\ NoCache /\ NoGang /\ NoPeers /\ NoMonitor /\ NoWeb /\ NoSources
     /\ NoObjects /\ podCache = 0 /\ queued = 0 /\ sync = 0 /\ NoTime /\ conf = 0 /\ NoPods
  \/ /\ conditions = <<>> /\ scenario = "owners" /\ Owners!Init
     /\ NoNotebook /\ con = 0 /\ edits = 0 /\ NoCache /\ NoGang /\ NoPeers /\ NoMonitor /\ NoSources
     /\ ports = 0 /\ ingresses = 0 /\ ingressCache = 0 /\ addresses = 0 /\ uid = 0
     /\ NoObjects /\ podCache = 0 /\ queued = 0 /\ sync = 0 /\ NoTime /\ conf = 0 /\ pods = 0
  \/ /\ conditions = <<>> /\ NoOwners
     /\ \/ /\ scenario = "notebook" /\ Notebooks!Init
           /\ NoBoard /\ NoCache /\ NoGang /\ NoPeers /\ NoMonitor /\ NoWeb /\ NoSources /\ NoTime /\ conf = 0 /\ NoPods
        \/ /\ scenario = "tensorboard" /\ Boards!Init
           /\ NoNotebook /\ NoCache /\ NoGang /\ NoPeers /\ NoMonitor /\ NoWeb /\ NoSources /\ conf = 0 /\ NoPods
        \/ /\ scenario = "cache" /\ Caches!Init
           /\ NoNotebook /\ NoBoard /\ NoGang /\ NoPeers /\ NoMonitor /\ NoWeb /\ NoSources
           /\ NoObjects /\ podCache = 0 /\ conf = 0 /\ NoPods
        \/ /\ scenario = "gang" /\ Gangs!Init
           /\ NoNotebook /\ NoBoard /\ NoCache /\ NoPeers /\ NoMonitor /\ NoWeb /\ NoSources
           /\ NoObjects /\ podCache = 0 /\ queued = 0 /\ NoTime
        \/ /\ scenario = "peers" /\ Peers!Init
           /\ NoNotebook /\ NoBoard /\ NoCache /\ NoGang /\ NoMonitor /\ NoWeb /\ NoSources
           /\ NoObjects /\ queued = 0 /\ NoTime
        \/ /\ scenario = "monitor" /\ Monitor!Init
           /\ NoNotebook /\ NoBoard /\ NoCache /\ NoGang /\ NoPeers /\ NoWeb /\ NoSources
           /\ NoObjects /\ queued = 0 /\ NoTime /\ conf = 0
        \/ /\ scenario = "web" /\ Web!Init
           /\ NoNotebook /\ NoBoard /\ NoCache /\ NoGang /\ NoPeers /\ NoMonitor /\ NoSources
           /\ NoObjects /\ podCache = 0 /\ queued = 0 /\ NoTime /\ conf = 0 /\ pods = 0
        \/ /\ scenario = "sources" /\ SourcePages!Init
           /\ NoNotebook /\ NoBoard /\ NoCache /\ NoGang /\ NoPeers /\ NoMonitor /\ NoWeb
           /\ NoObjects /\ podCache = 0 /\ queued = 0 /\ sync = 0 /\ NoTime /\ conf = 0 /\ NoPods

PartNext ==
  /\ UNCHANGED scenario
  /\ \/ /\ scenario = "conditions" /\ Next
        /\ UNCHANGED <<NotebookOnly, BoardOnly, CacheOnly, GangOnly, PeersOnly, MonitorOnly, WebOnly, SourcesOnly, OwnersOnly,
                       pod, podCache, svc, ing, queued, sync, job, clock, timer, conf, pods, faults>>
     \/ /\ scenario = "notebook" /\ Notebooks!Next
        /\ UNCHANGED <<conditions, BoardOnly, CacheOnly, GangOnly, PeersOnly, MonitorOnly, WebOnly, SourcesOnly, OwnersOnly,
                       job, clock, timer, conf, pods, faults>>
     \/ /\ scenario = "tensorboard" /\ Boards!Next
        /\ UNCHANGED <<conditions, NotebookOnly, CacheOnly, GangOnly, PeersOnly, MonitorOnly, WebOnly, SourcesOnly, OwnersOnly,
                       conf, pods, faults>>
     \/ /\ scenario = "cache" /\ Caches!Next
        /\ UNCHANGED <<conditions, NotebookOnly, BoardOnly, GangOnly, PeersOnly, MonitorOnly, WebOnly, SourcesOnly, OwnersOnly,
                       pod, podCache, svc, ing, conf, pods, faults>>
     \/ /\ scenario = "gang" /\ Gangs!Next
        /\ UNCHANGED <<conditions, NotebookOnly, BoardOnly, CacheOnly, PeersOnly, MonitorOnly, WebOnly, SourcesOnly, OwnersOnly,
                       pod, podCache, svc, ing, queued, job, clock, timer>>
     \/ /\ scenario = "peers" /\ Peers!Next
        /\ UNCHANGED <<conditions, NotebookOnly, BoardOnly, CacheOnly, GangOnly, MonitorOnly, WebOnly, SourcesOnly, OwnersOnly,
                       pod, svc, ing, queued, job, clock, timer>>
     \/ /\ scenario = "monitor" /\ Monitor!Next
        /\ UNCHANGED <<conditions, NotebookOnly, BoardOnly, CacheOnly, GangOnly, PeersOnly, WebOnly, SourcesOnly, OwnersOnly,
                       pod, svc, ing, queued, job, clock, timer, conf>>
     \/ /\ scenario = "web" /\ Web!Next
        /\ UNCHANGED <<conditions, NotebookOnly, BoardOnly, CacheOnly, GangOnly, PeersOnly, MonitorOnly, SourcesOnly, OwnersOnly,
                       pod, podCache, svc, ing, queued, job, clock, timer, conf, pods>>
     \/ /\ scenario = "sources" /\ SourcePages!Next
        /\ UNCHANGED <<conditions, NotebookOnly, BoardOnly, CacheOnly, GangOnly, PeersOnly, MonitorOnly, WebOnly, OwnersOnly,
                       pod, podCache, svc, ing, queued, sync, job, clock, timer, conf, pods, faults>>
     \/ /\ scenario = "owners" /\ Owners!Next
        /\ UNCHANGED <<conditions, NotebookOnly, con, edits, CacheOnly, GangOnly, PeersOnly, MonitorOnly, SourcesOnly,
                       ports, ingresses, ingressCache, addresses, uid,
                       pod, podCache, svc, ing, queued, sync, job, clock, timer, conf, pods>>

(* An action of the part at work. *)
Fair(notebook, board, cached, gang, peers, monitor, web, owners) ==
  /\ UNCHANGED scenario
  /\ \/ scenario = "notebook" /\ notebook
     \/ scenario = "tensorboard" /\ board
     \/ scenario = "cache" /\ cached
     \/ scenario = "gang" /\ gang
     \/ scenario = "peers" /\ peers
     \/ scenario = "monitor" /\ monitor
     \/ scenario = "web" /\ web
     \/ scenario = "owners" /\ owners

(* The fairness of each part.  The scenario never changes, so conjuncts of different parts *)
(* can share a line.                                                                        *)
PartSpec ==
  /\ PartInit /\ [][PartNext]_<<vars, scenario>>
  /\ WF_vars(Fair(Notebooks!Step, Boards!Sync, Caches!Sync, Gangs!Sync, Peers!Sync, Monitor!Sync, Web!Sync,
                  Owners!Sync("TFJob")))
  /\ WF_vars(Fair(Notebooks!SyncPodCache, Boards!CachesSync, Caches!CacheSync, Gangs!CacheSync,
                  Peers!CachesSync, Monitor!CachesSync, Web!ServiceCacheSync, Owners!Sync("PyTorchJob")))
  /\ WF_vars(Fair(Notebooks!Collect, Boards!ClusterStep, Caches!ClusterStep, Gangs!ClusterStep,
                  FALSE, Monitor!ClusterStep, Web!Creates, Owners!Collector))
  /\ WF_vars(Fair(Notebooks!SyncNotebookCache, Boards!Requests, Caches!JobSyncs, FALSE, FALSE, FALSE,
                  Web!Collects, Owners!DeliverJobs))
  /\ WF_vars(Fair(FALSE, FALSE, FALSE, FALSE, FALSE, FALSE, Web!IngressCacheSync, Owners!DeliverServices))

-----------------------------------------------------------------------------
(***************************************************************************)
(* What was decided stays, although it is written from copies of different *)
(* age.  A notebook that was terminated stays so, although its pod may be  *)
(* deleted and created anew (notebook_controller.go:87 and the version     *)
(* that a status update carries).  A tensorboard lives for its time after  *)
(* the end of the job and after the last time it was applied, unless a     *)
(* user removes the annotation (tensorboard.go:98).  A job noted as a user *)
(* of a cache stays noted until it has finished, although the controller   *)
(* and the syncs of other jobs write the same status (job_controller.go:   *)
(* 216, :347; cachebackend_controller.go:171).  "Each pod will be          *)
(* failovered exactly once, and failover timestamp has been committed": a  *)
(* request to restart all deletes no replica twice, although failed calls  *)
(* and the late cache make several syncs work on it.                       *)
(***************************************************************************)
DecisionsStay ==
  /\ [][/\ scenario = "notebook" => Notebooks!StaysTerminated
        /\ scenario = "tensorboard" => Boards!EndsInTime
        /\ scenario = "cache" => Caches!KeepsUsers]_vars
  /\ [](scenario = "monitor" => Monitor!OncePerRequest)

(***************************************************************************)
(* What belongs to others is left alone.  Objects of an earlier job of the *)
(* name are never taken over or deleted by a tensorboard (the              *)
(* IsControlledBy checks of tensorboard.go).  "If any adoptions are        *)
(* attempted, we should first recheck for deletion with an uncached quorum *)
(* read": an orphaned service is only adopted for a job that exists, or    *)
(* that was deleted after the check of that very sync, however old the     *)
(* copies of job and service are (AdoptAndClaimServices).  Two jobs of     *)
(* different kinds may share a name and thereby labels: what the sync of a *)
(* job that exists has claimed is, as long as it is the same service,      *)
(* controlled by that job (ClaimServices).                                 *)
(***************************************************************************)
OwnersAreRespected ==
  /\ [](scenario = "owners" => Owners!ClaimsItsOwn)
  /\ [][/\ scenario = "tensorboard" => Boards!LeavesOthersAlone
        /\ scenario = "owners" => Owners!AdoptsForTheLiving]_vars

(***************************************************************************)
(* A change of sources takes effect as if its request had run alone: what  *)
(* is written is the request applied to the map as it is at that time, and *)
(* the request would not be refused then, although it was computed from    *)
(* what a lagging cache had.  It holds of every request for data sources   *)
(* (data_source.go:186 returns the error of the creation) and of those for *)
(* code sources that found the ConfigMap.                                  *)
(***************************************************************************)
SourcesAreSerial == [][scenario = "sources" => SourcePages!WritesResult]_vars

(***************************************************************************)
(* However calls fail, pods are killed, caches lag and names are used      *)
(* again, the objects settle on what was asked for.                        *)
(*  - The notebook is terminated, or has all its objects, shows what they  *)
(*    are (notebook_controller.go) and serves the path of its ingress,     *)
(*    unless NOTEBOOK_ARGS of its template is not at the index of the      *)
(*    container (notebook_controller.go:342).                              *)
(*  - The objects of a tensorboard are those of the annotation, and once   *)
(*    the job has finished all are gone.  (A re-application that found     *)
(*    nothing to change has deleted the ingress all the same, and nothing  *)
(*    brings it back before the next event of the job: con.dropped.)       *)
(*  - Every replica of a distributed job on the host network reaches every *)
(*    other: the service of a replaced pod forwards to its new port ("so   *)
(*    we'd ensure that other replicas can reach it with correct target     *)
(*    port", ReconcileServices).                                           *)
(*  - Each web service of a MarsJob has an ingress of its own that         *)
(*    forwards to the port of the job ("Number of ingresses and services   *)
(*    should be 1:1", reconcileIngressForWebservice).                      *)
(*  - A job without a rival of its name has its services, although those   *)
(*    of an earlier job still had the names: they are collected and made   *)
(*    anew, or orphaned and adopted (GetServicesForJob, CreateService).    *)
(***************************************************************************)
SettlesAsAsked ==
  <>[](/\ scenario = "notebook" => Notebooks!Settled /\ Notebooks!ServesPath
       /\ scenario = "tensorboard" => Boards!Settled
       /\ scenario = "peers" => Peers!AllReached
       /\ scenario = "web" => Web!AllExposed
       /\ scenario = "owners" => Owners!SoleJobHasServices)

(***************************************************************************)
(* Nobody waits for ever, whatever fails.  Jobs that wait for a cache get  *)
(* it, although the idle cache is deleted under them (job.go:110), unless  *)
(* it is abandoned.  No gang waits for pods that never come, whichever     *)
(* groups an earlier job left and in whichever order roles may start: all  *)
(* pods run or the job has finished, unless a pod was left out of its      *)
(* gang, whose other pods then are one too few (the minMember of the       *)
(* groups, and which pods are bound to them); and a finished job leaves no *)
(* group behind (DeleteGang).  Every pod that AIMaster has asked to        *)
(* replace is replaced and the requests are withdrawn                      *)
(* (reactForAIMasterErrorAnalyzeResult).                                   *)
(***************************************************************************)
NobodyWaits ==
  <>[](/\ scenario = "cache" => Caches!NoneWaits
       /\ scenario = "gang" => Gangs!AllStarted /\ Gangs!GroupsGone
       /\ scenario = "monitor" => Monitor!AllServed)
=============================================================================
