------------------------------ MODULE Notebook ------------------------------
(***************************************************************************)
(* The notebook controller (controllers/notebook): a notebook gets a pod,  *)
(* a service and an ingress, all named after it, and shows the phase of    *)
(* the pod and the address of the ingress in its status.                   *)
(*                                                                         *)
(* Abstractions: one name, which may be used again by a new notebook; the  *)
(* caches of notebooks and pods lag, services and ingresses are read as    *)
(* they are (a lag only makes a creation fail); a variable of the          *)
(* container is [name, prefixed]: its value starts with the base url.      *)
(***************************************************************************)
EXTENDS Integers, Sequences, FiniteSets

CONSTANTS
  Envs,      \* templates: the names of the variables of the notebook container
  MaxEvents, \* bound: notebooks that are created, calls that fail and pods that are deleted by hand
  None

NotebookAssumption == MaxEvents \in Nat

VARIABLES
  nb, nbCache,   \* the notebook: [uid, env, ver, cond, url]
  pod, podCache, \* its pod: [owner, phase, env]
  svc, ing,      \* owner of the service; the ingress: [owner, lb]
  queued,        \* the key is in the work queue
  sync,          \* the sync in progress
  used           \* what is spent of the bounds

vars == <<nb, nbCache, pod, podCache, svc, ing, queued, sync, used>>

Idle == [pc |-> "idle", copy |-> None, phase |-> "", lb |-> FALSE, again |-> FALSE]

Init ==
  /\ nb = None /\ nbCache = None /\ pod = None /\ podCache = None /\ svc = None /\ ing = None
  /\ queued = FALSE /\ sync = Idle
  /\ used = [uids |-> 0, faults |-> 0]

Affordable == used.uids + used.faults < MaxEvents

-----------------------------------------------------------------------------
(* The variables of the container, which is the first of its pod.  A variable that the       *)
(* template gives is found by its name, but it is the variable at the index of the container *)
(* that gets the base url.                                                                    *)
ContainerIndex == 1

setJuypterLabEnv(env) ==
  LET given == {env[i] : i \in DOMAIN env}
      Add(name, prefixed) == IF name \in given THEN <<>> ELSE <<[name |-> name, prefixed |-> prefixed]>>
  IN  [i \in DOMAIN env |-> [name |-> env[i], prefixed |-> "NOTEBOOK_ARGS" \in given /\ i = ContainerIndex]]
      \o Add("JUPYTER_ENABLE_LAB", FALSE) \o Add("NOTEBOOK_ARGS", TRUE)
      \o Add("GRANT_SUDO", FALSE) \o Add("JUPYTER_ALLOW_INSECURE_WRITES", FALSE)

(* The objects of a notebook are owned by it, so that they go with it; an ingress is made    *)
(* without an address.                                                                        *)
generatePod(notebook) == [owner |-> notebook.uid, phase |-> "Pending", env |-> setJuypterLabEnv(notebook.env)]
generateService(notebook) == notebook.uid
generateIngress(notebook) == [owner |-> notebook.uid, lb |-> FALSE]

-----------------------------------------------------------------------------
(* A sync of the key. *)
Retry == queued' = TRUE /\ sync' = Idle

Reconcile ==
  /\ sync.pc = "idle" /\ queued
  /\ queued' = FALSE
  /\ sync' = IF nbCache = None THEN Idle
             ELSE IF nbCache.cond = "Terminated" THEN Idle
             ELSE [Idle EXCEPT !.pc = "pod", !.copy = nbCache]
  /\ UNCHANGED <<nb, nbCache, pod, podCache, svc, ing, used>>

(* The pod that has the name is taken as it is; otherwise one is created. *)
SyncPod ==
  /\ sync.pc = "pod"
  /\ IF podCache # None
     THEN sync' = [sync EXCEPT !.pc = "condition", !.phase = podCache.phase] /\ UNCHANGED <<pod, queued>>
     ELSE \/ /\ pod = None
             /\ pod' = generatePod(sync.copy)
             /\ sync' = [sync EXCEPT !.pc = "created", !.phase = "Pending"]
             /\ UNCHANGED queued
          \/ pod # None /\ Retry /\ UNCHANGED pod
  /\ UNCHANGED <<nb, nbCache, podCache, svc, ing, used>>

(* Status().Update of the copy, which fails if the notebook has changed since it was read. *)
Current == nb # None /\ nb.uid = sync.copy.uid /\ nb.ver = sync.copy.ver
UpdateStatus(copy, next) ==
  \/ Current /\ nb' = [copy EXCEPT !.ver = @ + 1] /\ sync' = [next EXCEPT !.copy = nb'] /\ UNCHANGED queued
  \/ ~Current /\ Retry /\ UNCHANGED nb

MarkCreated ==
  /\ sync.pc = "created"
  /\ UpdateStatus([sync.copy EXCEPT !.cond = "Created"], [sync EXCEPT !.pc = "condition"])
  /\ UNCHANGED <<nbCache, pod, podCache, svc, ing, used>>

(* What the condition becomes by the phase of the pod. *)
Condition(cond, phase) ==
  CASE phase = "Pending" -> IF cond = "" THEN "Created" ELSE cond
    [] phase = "Running" -> "Running"
    [] phase = "Ended"   -> "Terminated"

updateNotebookCondition ==
  LET cond == Condition(sync.copy.cond, sync.phase)
      next == [sync EXCEPT !.pc = "service", !.again = (sync.phase = "Pending")]
  IN  /\ sync.pc = "condition"
      /\ IF cond = sync.copy.cond THEN sync' = next /\ UNCHANGED <<nb, queued>>
         ELSE UpdateStatus([sync.copy EXCEPT !.cond = cond], next)
      /\ UNCHANGED <<nbCache, pod, podCache, svc, ing, used>>

SyncService ==
  /\ sync.pc = "service"
  /\ svc' = IF svc = None THEN generateService(sync.copy) ELSE svc
  /\ sync' = [sync EXCEPT !.pc = "ingress"]
  /\ UNCHANGED <<nb, nbCache, pod, podCache, ing, queued, used>>

SyncIngress ==
  /\ sync.pc = "ingress"
  /\ ing' = IF ing = None THEN generateIngress(sync.copy) ELSE ing
  /\ sync' = [sync EXCEPT !.pc = "url", !.lb = ing'.lb]
  /\ UNCHANGED <<nb, nbCache, pod, podCache, svc, queued, used>>

(* The sync ends, and starts again if the pod is pending or the ingress has no address. *)
SyncUrl ==
  /\ sync.pc = "url"
  /\ IF sync.lb /\ ~sync.copy.url
     THEN \/ Current /\ nb' = [sync.copy EXCEPT !.ver = @ + 1, !.url = TRUE] /\ sync' = Idle /\ queued' = (queued \/ sync.again)
          \/ ~Current /\ Retry /\ UNCHANGED nb
     ELSE sync' = Idle /\ queued' = (queued \/ sync.again \/ ~sync.copy.url) /\ UNCHANGED nb
  /\ UNCHANGED <<nbCache, pod, podCache, svc, ing, used>>

(* A call fails, or the manager restarts: the sync is lost and the key is tried again. *)
Fault ==
  /\ sync.pc # "idle" /\ Affordable
  /\ used' = [used EXCEPT !.faults = @ + 1]
  /\ Retry
  /\ UNCHANGED <<nb, nbCache, pod, podCache, svc, ing>>

-----------------------------------------------------------------------------
(* The API server, its caches, users and the kubelet. *)
SyncNotebookCache ==
  /\ nbCache # nb /\ nbCache' = nb /\ queued' = TRUE
  /\ UNCHANGED <<nb, pod, podCache, svc, ing, sync, used>>

SyncPodCache ==
  /\ podCache # pod /\ podCache' = pod /\ queued' = TRUE
  /\ UNCHANGED <<nb, nbCache, pod, svc, ing, sync, used>>

SubmitNotebook(env) ==
  /\ nb = None /\ Affordable
  /\ used' = [used EXCEPT !.uids = @ + 1]
  /\ nb' = [uid |-> used.uids + 1, env |-> env, ver |-> 1, cond |-> "", url |-> FALSE]
  /\ UNCHANGED <<nbCache, pod, podCache, svc, ing, queued, sync>>

DeleteNotebook ==
  /\ nb # None /\ nb' = None
  /\ UNCHANGED <<nbCache, pod, podCache, svc, ing, queued, sync, used>>

KubeletStep ==
  /\ pod # None /\ pod.phase # "Ended"
  /\ pod' = [pod EXCEPT !.phase = IF @ = "Pending" THEN "Running" ELSE "Ended"]
  /\ UNCHANGED <<nb, nbCache, podCache, svc, ing, queued, sync, used>>

KillPod ==
  /\ pod # None /\ Affordable
  /\ pod' = None /\ used' = [used EXCEPT !.faults = @ + 1]
  /\ UNCHANGED <<nb, nbCache, podCache, svc, ing, queued, sync>>

LoadBalancer ==
  /\ ing # None /\ ~ing.lb
  /\ ing' = [ing EXCEPT !.lb = TRUE] /\ queued' = TRUE
  /\ UNCHANGED <<nb, nbCache, pod, podCache, svc, sync, used>>

(* Objects go with the notebook that owns them. *)
Orphan(owner) == nb # None => nb.uid # owner
CollectPod ==
  /\ pod # None /\ Orphan(pod.owner) /\ pod' = None
  /\ UNCHANGED <<nb, nbCache, podCache, svc, ing, queued, sync, used>>

CollectService ==
  /\ svc # None /\ Orphan(svc) /\ svc' = None /\ queued' = TRUE
  /\ UNCHANGED <<nb, nbCache, pod, podCache, ing, sync, used>>

CollectIngress ==
  /\ ing # None /\ Orphan(ing.owner) /\ ing' = None /\ queued' = TRUE
  /\ UNCHANGED <<nb, nbCache, pod, podCache, svc, sync, used>>

Step == Reconcile \/ SyncPod \/ MarkCreated \/ updateNotebookCondition \/ SyncService \/ SyncIngress \/ SyncUrl

Collect == CollectPod \/ CollectService \/ CollectIngress

Next ==
  \/ Step \/ Fault \/ SyncNotebookCache \/ SyncPodCache \/ LoadBalancer
  \/ CollectPod \/ CollectService \/ CollectIngress
  \/ (\E env \in Envs : SubmitNotebook(env)) \/ DeleteNotebook \/ KubeletStep \/ KillPod

(* The worker, the informers and the garbage collector keep working; users and nodes owe nothing. *)
Fairness == WF_vars(Step) /\ WF_vars(SyncNotebookCache) /\ WF_vars(SyncPodCache) /\ WF_vars(Collect)

Spec == Init /\ [][Next]_vars /\ Fairness

-----------------------------------------------------------------------------
StaysTerminated ==
  nb # None /\ nb' # None /\ nb'.uid = nb.uid /\ nb.cond = "Terminated" => nb'.cond = "Terminated"

ServesPath ==
  pod # None => \E i \in DOMAIN pod.env : pod.env[i].name = "NOTEBOOK_ARGS" /\ pod.env[i].prefixed

Settled ==
  nb # None /\ nb.cond # "Terminated" =>
    /\ pod # None /\ svc # None /\ ing # None
    /\ pod.phase = "Running" => nb.cond = "Running"
    /\ pod.phase # "Ended"
    /\ ing.lb => nb.url
=============================================================================
