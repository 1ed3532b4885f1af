-------------------------------- MODULE Gang --------------------------------
(***************************************************************************)
(* Gang scheduling (pkg/gang_schedule and its calls in pkg/job_controller).*)
(* A sync of a job makes sure of its pod groups, one for the job or, with  *)
(* DAG scheduling, one for each role, binds each pod it creates to a       *)
(* group, and deletes the groups once the job has finished.                *)
(*                                                                         *)
(* Abstractions: a group is [of, min, uid]: the role it is for, or "job",  *)
(* its minMember and the incarnation of the job that owns it; the groups   *)
(* are read through an informer cache that lags; workers start after the   *)
(* other roles when the DAG is on.  The scheduler starts the pods of a     *)
(* group when the group has enough of them.                                *)
(***************************************************************************)
EXTENDS Integers, FiniteSets, Functions

CONSTANTS
  Confs,     \* jobs: [plugin, dag, replicas, minAvailable]
  Earlier,   \* sets of groups that an earlier job of the name may have left
  MaxFaults, \* bound: pods and calls that fail
  None

GangAssumption == MaxFaults \in Nat

VARIABLES
  conf,               \* the job
  groups, groupCache,
  pods,               \* {[role, index, group, phase]}
  finished,
  sync,               \* [pc, todo]: the sync in progress
  faults

vars == <<conf, groups, groupCache, pods, finished, sync, faults>>

Idle == [pc |-> "idle", todo |-> {}]
Uid == 1
Roles == DOMAIN conf.replicas
Gangs == Roles \ {"AIMaster"}

Init ==
  /\ conf \in Confs /\ groups \in Earlier /\ groupCache = groups
  /\ \A g \in groups : (g.of = "job") = ~conf.dag   \* the feature gate has not changed
  /\ pods = {} /\ finished = FALSE /\ sync = Idle /\ faults = 0

-----------------------------------------------------------------------------
(* The groups of a job. *)

(* Mutant: the group of the job waits for the AIMaster too. *)
generateGangByJobUnitAll ==
  {[of |-> "job", uid |-> Uid, min |-> IF conf.minAvailable > 0 THEN conf.minAvailable ELSE SumFunction(conf.replicas)]}

generateGangByJobUnit ==
  {[of |-> "job", uid |-> Uid,
    min |-> IF conf.minAvailable > 0 THEN conf.minAvailable ELSE SumFunctionOnSet(conf.replicas, Gangs)]}
generateGangByRoleUnit ==
  {[of |-> r, uid |-> Uid, min |-> conf.replicas[r]] : r \in Gangs}

(* Kube-batch knows of one group only, which counts all replicas. *)
batchGang == {[of |-> "job", uid |-> Uid, min |-> SumFunction(conf.replicas)]}

Wanted ==
  IF conf.plugin = "kube-batch" THEN batchGang
  ELSE IF conf.dag THEN generateGangByRoleUnit ELSE generateGangByJobUnit

Has(set, of) == \E g \in set : g.of = of

-----------------------------------------------------------------------------
(* A sync: the groups first, each unless the cache has one of its name; then the pods. *)
Fail == sync' = Idle

Begin ==
  /\ sync.pc = "idle"
  /\ sync' = [pc |-> IF finished THEN "delete" ELSE "create", todo |-> IF finished THEN groupCache ELSE Wanted]
  /\ UNCHANGED <<conf, groups, groupCache, pods, finished, faults>>

(* Volcano and coscheduler look the group up; kube-batch creates it in every sync. *)
CreateGang ==
  /\ sync.pc = "create" /\ sync.todo # {}
  /\ \E g \in sync.todo :
       LET found == conf.plugin # "kube-batch" /\ Has(groupCache, g.of)
       IN  \/ /\ found \/ ~Has(groups, g.of)
              /\ groups' = IF found THEN groups ELSE groups \cup {g}
              /\ sync' = [sync EXCEPT !.todo = @ \ {g}]
           \/ ~found /\ Has(groups, g.of) /\ Fail /\ UNCHANGED groups
  /\ UNCHANGED <<conf, groupCache, pods, finished, faults>>

(* The group that a pod is bound to: one that the cache lists, with a DAG one of its role.    *)
(* If there is none, volcano goes by the name and coscheduler leaves the pod out of the gang. *)
GroupOf(role) ==
  LET match == {g \in groupCache : conf.dag => g.of = role}
  IN  IF role = "AIMaster" THEN {None}
      ELSE IF match # {} THEN {g.of : g \in match}
      ELSE {IF conf.plugin = "coscheduler" THEN None ELSE role}

(* A pod is refused if the cache has no group of the job at all; kube-batch takes a list of  *)
(* groups for a group, and panics.                                                            *)
BindPodToGang(role) ==
  /\ conf.plugin # "kube-batch"
  /\ role = "AIMaster" \/ groupCache # {}

Missing(role) == {i \in 1..conf.replicas[role] : ~\E p \in pods : p.role = role /\ p.index = i}
Running(role) == \A i \in 1..conf.replicas[role] : \E p \in pods : p.role = role /\ p.index = i /\ p.phase = "Running"
Ready(role) == conf.dag /\ role = "Worker" => \A r \in Gangs \ {"Worker"} : Running(r)

CreatePod(role) ==
  /\ sync.pc = "create" /\ sync.todo = {} /\ Missing(role) # {} /\ Ready(role)
  /\ IF BindPodToGang(role)
     THEN /\ \E i \in Missing(role), g \in GroupOf(role) :
               pods' = pods \cup {[role |-> role, index |-> i, group |-> g, phase |-> "Pending"]}
          /\ UNCHANGED sync
     ELSE Fail /\ UNCHANGED pods
  /\ UNCHANGED <<conf, groups, groupCache, finished, faults>>

EndSync ==
  /\ sync.pc = "create" /\ sync.todo = {} /\ ~\E r \in Roles : Missing(r) # {} /\ Ready(r)
  /\ sync' = Idle
  /\ UNCHANGED <<conf, groups, groupCache, pods, finished, faults>>

(* What the cache lists is deleted; the sync ends at the first that is gone already. *)
DeleteGang ==
  /\ sync.pc = "delete"
  /\ \/ \E g \in sync.todo :
          IF Has(groups, g.of) THEN groups' = {x \in groups : x.of # g.of} /\ sync' = [sync EXCEPT !.todo = @ \ {g}]
          ELSE Fail /\ UNCHANGED groups
     \/ sync.todo = {} /\ sync' = Idle /\ UNCHANGED groups
  /\ UNCHANGED <<conf, groupCache, pods, finished, faults>>

-----------------------------------------------------------------------------
(* The scheduler, the kubelet, the garbage collector and the cache. *)
Members(of) == {p \in pods : p.group = of}
Schedule ==
  /\ \E p \in pods :
       /\ p.phase = "Pending"
       /\ p.group # None => \E g \in groups : g.of = p.group /\ Cardinality(Members(g.of)) >= g.min
       /\ pods' = (pods \ {p}) \cup {[p EXCEPT !.phase = "Running"]}
  /\ UNCHANGED <<conf, groups, groupCache, finished, sync, faults>>

PodFails(p) ==
  /\ faults < MaxFaults /\ ~finished
  /\ pods' = pods \ {p} /\ faults' = faults + 1
  /\ UNCHANGED <<conf, groups, groupCache, finished, sync>>

SyncFails ==
  /\ faults < MaxFaults /\ sync.pc # "idle"
  /\ sync' = Idle /\ faults' = faults + 1
  /\ UNCHANGED <<conf, groups, groupCache, pods, finished>>

(* The sync that finds all pods finished writes the verdict. *)
Finish ==
  /\ ~finished /\ sync.pc = "create" /\ sync.todo = {} /\ \A r \in Roles : Running(r)
  /\ finished' = TRUE /\ sync' = Idle
  /\ UNCHANGED <<conf, groups, groupCache, pods, faults>>

Collect ==
  /\ \E g \in groups : g.uid # Uid /\ groups' = groups \ {g}
  /\ UNCHANGED <<conf, groupCache, pods, finished, sync, faults>>

CacheSync ==
  /\ groupCache # groups /\ groupCache' = groups
  /\ UNCHANGED <<conf, groups, pods, finished, sync, faults>>

Sync == Begin \/ CreateGang \/ (\E r \in Roles : CreatePod(r)) \/ EndSync \/ DeleteGang

ClusterStep == Schedule \/ Collect

Next == Sync \/ Schedule \/ (\E p \in pods : PodFails(p)) \/ SyncFails \/ Finish \/ Collect \/ CacheSync

(* The worker, the scheduler, the garbage collector and the informer go on. *)
Fairness == WF_vars(Sync) /\ WF_vars(ClusterStep) /\ WF_vars(CacheSync)

Spec == Init /\ [][Next]_vars /\ Fairness

-----------------------------------------------------------------------------
(* A pod that coscheduler created before the cache had the group of its role. *)
LeftOut == \E p \in pods : p.group = None /\ p.role # "AIMaster"

AllStarted == finished \/ LeftOut \/ \A r \in Roles : Running(r)
GroupsGone == finished => groups = {}
=============================================================================
