---------------------------- MODULE Coordinator ----------------------------
(***************************************************************************)
(* The job coordinator (pkg/jobcoordinator): tenant queues in which jobs   *)
(* wait until quota and priority let them go to the work queue of their    *)
(* controller.  Two goroutines work on the queues: the informer of the job *)
(* kind, which runs the predicate and then the handler of every event, and *)
(* the scheduler, which runs one cycle after the other.  They interleave   *)
(* at every lock they release and at every call to the API server.         *)
(*                                                                         *)
(* Abstractions.                                                           *)
(*  - All jobs are of one kind and live in one namespace, which has one    *)
(*    ResourceQuota over one resource, charged when a pod is created and   *)
(*    read without delay (the cache of quotas keeps up with that of jobs). *)
(*  - The spec of a job is a version number; the priority and the request  *)
(*    of a job stay the same.  A job asks for pods of size one.            *)
(*  - A QueueUnit is built once for each version of a job it is built for, *)
(*    so the version stands for the identity of the object in memory that  *)
(*    all copies of the unit share (mem).                                  *)
(*  - The engine, module JobController, is reduced to creating the pods of *)
(*    a job that reached the work queue and reporting that they run or are *)
(*    done.                                                                *)
(*  - The plugins are those of the default configuration: quota as tenant, *)
(*    filter and pre-dequeue plugin, priority as score plugin.             *)
(***************************************************************************)
EXTENDS Naturals, Sequences, FiniteSets, Functions

CONSTANTS
  Jobs,         \* the jobs, all created at the start
  Tenants,      \* the queues a job can name
  Queue,        \* the queue each job names when it is created
  Request,      \* the pods each job asks for
  Priority,     \* the priority of each job
  Hard,         \* the quota's limit
  Period,       \* a multiple of every possible number of queues
  MaxLag,       \* bound: events of a job behind which users and engine write
  MaxEdits,     \* bound: edits of a job by users
  MaxFaults,    \* bound: patches that fail for no visible reason
  MaxCrashes,   \* bound: restarts of the controller manager
  MayDelete,    \* users may delete jobs
  MayMove,      \* an edit may name another queue
  Slow          \* a job may take more than a minute to get its pods

(* What the constants are assumed to be. *)
CoordinatorAssumption ==
  /\ IsFiniteSet(Jobs) /\ Jobs # {}
  /\ IsFiniteSet(Tenants) /\ Tenants # {}
  /\ Queue \in [Jobs -> Tenants]
  /\ Hard \in Nat
  /\ Request \in [Jobs -> 1..Hard]
  /\ Priority \in [Jobs -> Nat]
  /\ Period \in Nat \ {0} /\ \A n \in 1..Cardinality(Tenants) : Period % n = 0
  /\ MaxLag \in Nat /\ MaxEdits \in Nat /\ MaxFaults \in Nat /\ MaxCrashes \in Nat
  /\ MayDelete \in BOOLEAN /\ MayMove \in BOOLEAN /\ Slow \in BOOLEAN

VARIABLES
  api,        \* API server: the jobs
  pods,       \* API server: how many pods of a job were created
  done,       \* API server: the jobs whose pods have all completed
  events,     \* job events not delivered yet, in order
  cache,      \* the informer's cache of jobs
  queues,     \* co.queues: the units waiting in the queue of each tenant
  created,    \* the tenants co.queues has a queue for
  index,      \* co.queueIndexer: the tenants a job is found under, 0 or 1
  mem,        \* the conditions in the memory that the units of a version share
  names,      \* the selector's queueNames
  turn,       \* the selector's lastSelectedIndex + 1, modulo Period
  assumed,    \* the jobs whose quota is assumed under each tenant
  thread,     \* the informer and the scheduler goroutines
  wq,         \* the controller's work queue
  admitted,   \* history: the jobs a scheduling cycle has selected
  restarted,  \* history: the manager has been restarted
  budget      \* what is left of the bounds above

server == <<api, pods, done>>
watch  == <<events, cache>>
core   == <<queues, created, index, mem>>
picker == <<names, turn, assumed>>
vars   == <<server, watch, core, picker, thread, wq, admitted, restarted, budget>>

CL == INSTANCE ConditionList WITH conditions <- << >>

-----------------------------------------------------------------------------
(***************************************************************************)
(* Data.                                                                   *)
(***************************************************************************)
Versions == 0..MaxEdits
Object   == [live : BOOLEAN, conds : Seq(CL!Condition), tenant : Tenants, ver : Versions]
Unit     == [job : Jobs, ver : Versions, tenant : Tenants, owner : BOOLEAN]

NewJob(j) == [live |-> TRUE, conds |-> << >>, tenant |-> Queue[j], ver |-> 0]
NotCached == [j \in Jobs |-> [NewJob(j) EXCEPT !.live = FALSE]]

(* helper.ToQueueUnit and TenantName: a unit has no owner yet. *)
ToQueueUnit(j, obj) == [job |-> j, ver |-> obj.ver, tenant |-> obj.tenant, owner |-> FALSE]

AnyUnit == CHOOSE u \in Unit : TRUE

(* Where a goroutine is: the unit and event at hand, and for the scheduler *)
(* what is left of the snapshot and the candidates found so far.           *)
Idle == [pc |-> "idle", unit |-> AnyUnit, gone |-> FALSE, view |-> {}, cands |-> {}]

Threads == {"informer", "scheduler"}

At(th, pc) == thread[th].pc = pc
JobOf(th) == thread[th].unit.job
Go(th, pc) == thread' = [thread EXCEPT ![th].pc = pc]

(* The unit of a job in a queue, as a set of at most one unit. *)
get(t, j) == {u \in queues[t] : u.job = j}

IsQueuing(j) == \E t \in index[j] : get(t, j) # {}

Used == SumFunctionOnSet(pods, Jobs \ done)

-----------------------------------------------------------------------------
(***************************************************************************)
(* The API server: a write that changes the job puts an event on the watch.*)
(* Those who write without being asked wait until the watch has room.      *)
(***************************************************************************)
Room(j) == Len(events[j]) < MaxLag

Write(j, obj) ==
  /\ api' = [api EXCEPT ![j] = obj]
  /\ events' = IF obj = api[j] THEN events
               ELSE [events EXCEPT ![j] = Append(@, obj)]

Fault == budget.faults > 0 /\ budget' = [budget EXCEPT !.faults = @ - 1]

(***************************************************************************)
(* QueueStateMarker: the condition is set in memory; what changed there is *)
(* sent as a merge patch, which replaces the whole list of conditions and  *)
(* names no resourceVersion; the server's answer overwrites the memory.    *)
(***************************************************************************)
QueueStateMarker(unit, reason) ==
  LET j   == unit.job
      old == mem[j][unit.ver]
      new == CL!setCondition(old, CL!newCondition("Queuing", reason))
      Set(conds) == mem' = [mem EXCEPT ![j][unit.ver] = conds]
  IN  \/ /\ api[j].live /\ new # old
         /\ Write(j, [api[j] EXCEPT !.conds = new]) /\ Set(new) /\ UNCHANGED budget
      \/ /\ api[j].live /\ new = old
         /\ Set(api[j].conds) /\ UNCHANGED <<api, events, budget>>
      \/ /\ (~api[j].live /\ UNCHANGED budget) \/ Fault
         /\ Set(new) /\ UNCHANGED <<api, events>>

-----------------------------------------------------------------------------
(***************************************************************************)
(* The informer: cache, predicate (OnOwner...Func), handler.               *)
(***************************************************************************)
NextEvent(j) == At("informer", "idle") /\ events[j] # << >>

Take(j) ==
  /\ cache' = [cache EXCEPT ![j] = Head(events[j])]
  /\ events' = [events EXCEPT ![j] = Tail(@)]
  /\ UNCHANGED <<server, queues, created, index, picker, wq, admitted, restarted, budget>>

Handle(pc, j, obj) ==
  thread' = [thread EXCEPT !["informer"] =
               [Idle EXCEPT !.pc = pc, !.unit = ToQueueUnit(j, obj), !.gone = ~obj.live]]

OnOwnerCreateFunc(j) ==
  LET obj   == Head(events[j])
      conds == CL!setCondition(obj.conds, CL!newCondition("Created", "JobCreated"))
  IN  /\ NextEvent(j) /\ obj.live /\ ~cache[j].live
      /\ mem' = [mem EXCEPT ![j][obj.ver] = conds]
      /\ Handle(IF CL!NeedEnqueueToCoordinator(conds) THEN "init" ELSE "handle", j, obj)
      /\ Take(j)

OnOwnerUpdateFunc(j) ==
  LET obj == Head(events[j])
  IN  /\ NextEvent(j) /\ obj.live /\ cache[j].live
      /\ \/ /\ CL!NeedEnqueueToCoordinator(obj.conds) /\ obj.ver # cache[j].ver
            /\ mem' = [mem EXCEPT ![j][obj.ver] = obj.conds]
            /\ Handle("init", j, obj)
         \/ /\ CL!NeedEnqueueToCoordinator(obj.conds) /\ obj.ver = cache[j].ver
            /\ UNCHANGED mem
            /\ Handle("handle", j, obj)
         \/ /\ ~CL!NeedEnqueueToCoordinator(obj.conds)
            /\ UNCHANGED mem
            /\ Handle(IF IsQueuing(j) THEN "pop" ELSE "handle", j, obj)
      /\ Take(j)

OnOwnerDeleteFunc(j) ==
  /\ NextEvent(j) /\ ~Head(events[j]).live
  /\ UNCHANGED mem
  /\ Handle("pop", j, Head(events[j]))
  /\ Take(j)

(* EnqueueOrUpdate, in three steps. *)
initializeNewQueue ==
  /\ At("informer", "init")
  /\ LET u == thread["informer"].unit
     IN  /\ created' = created \cup {u.tenant}
         /\ index' = [index EXCEPT ![u.job] = {u.tenant}]
  /\ Go("informer", "markIn")
  /\ UNCHANGED <<server, watch, queues, mem, picker, wq, admitted, restarted, budget>>

MarkEnqueued ==
  /\ At("informer", "markIn")
  /\ QueueStateMarker(thread["informer"].unit, "JobEnqueued")
  /\ Go("informer", "add")
  /\ UNCHANGED <<pods, done, cache, queues, created, index, picker, wq, admitted, restarted>>

addNewQueueUnit ==
  /\ At("informer", "add")
  /\ LET u == thread["informer"].unit
     IN  queues' = [queues EXCEPT ![u.tenant] = (@ \ get(u.tenant, u.job)) \cup {u}]
  /\ Go("informer", "handle")
  /\ UNCHANGED <<server, watch, created, index, mem, picker, wq, admitted, restarted, budget>>

(* EnqueueForObject: Create, Update and, after its Dequeue, Delete. *)
(* Mutant: whether the job is queuing is not asked. *)
shouldSetOwnerQueueAndBreakNever(j) == FALSE

shouldSetOwnerQueueAndBreak(j) == IsQueuing(j)

EnqueueForObject ==
  /\ At("informer", "handle")
  /\ LET th == thread["informer"]
     IN  IF ~th.gone /\ shouldSetOwnerQueueAndBreak(th.unit.job)
         THEN Go("informer", "owner") /\ UNCHANGED wq
         ELSE /\ wq' = wq \cup {th.unit.job}
              /\ thread' = [thread EXCEPT !["informer"] = Idle]
  /\ UNCHANGED <<server, watch, core, picker, admitted, restarted, budget>>

(* Mutant: the owner is set on a copy of the unit. *)
SetQueueUnitOwnerOnCopy ==
  /\ At("informer", "owner")
  /\ thread' = [thread EXCEPT !["informer"] = Idle]
  /\ UNCHANGED <<server, watch, core, picker, wq, admitted, restarted, budget>>

SetQueueUnitOwner ==
  /\ At("informer", "owner")
  /\ LET j == JobOf("informer")
     IN  queues' = [t \in Tenants |->
                      IF t \in index[j]
                      THEN {IF u.job = j THEN [u EXCEPT !.owner = TRUE] ELSE u : u \in queues[t]}
                      ELSE queues[t]]
  /\ thread' = [thread EXCEPT !["informer"] = Idle]
  /\ UNCHANGED <<server, watch, created, index, mem, picker, wq, admitted, restarted, budget>>

-----------------------------------------------------------------------------
(***************************************************************************)
(* Dequeue, in three steps, by either goroutine.                           *)
(***************************************************************************)
Dequeued(th) == IF th = "informer" THEN [thread[th] EXCEPT !.pc = "handle"] ELSE Idle

popQueueUnitFromQueue(th) ==
  /\ At(th, "pop")
  /\ LET j     == JobOf(th)
         found == UNION {get(t, j) : t \in index[j]}
     IN  /\ queues' = [t \in Tenants |-> IF t \in index[j] THEN queues[t] \ found ELSE queues[t]]
         /\ index' = [index EXCEPT ![j] = {}]
         /\ IF found = {}
            THEN thread' = [thread EXCEPT ![th] = Dequeued(th)]
            ELSE \E u \in found :
                   thread' = [thread EXCEPT ![th].pc = "give", ![th].unit = u]
  /\ UNCHANGED <<server, watch, created, mem, picker, wq, admitted, restarted, budget>>

AddToOwner(th) ==
  /\ At(th, "give") /\ thread[th].unit.owner
  /\ wq' = wq \cup {JobOf(th)}
  /\ Go(th, "markOut")
  /\ UNCHANGED <<server, watch, core, picker, admitted, restarted, budget>>

MarkDequeued(th) ==
  /\ At(th, "markOut")
  /\ QueueStateMarker(thread[th].unit, "JobDequeued")
  /\ thread' = [thread EXCEPT ![th] = Dequeued(th)]
  /\ UNCHANGED <<pods, done, cache, queues, created, index, picker, wq, admitted, restarted>>

Dequeue(th) == popQueueUnitFromQueue(th) \/ AddToOwner(th) \/ MarkDequeued(th)

-----------------------------------------------------------------------------
(***************************************************************************)
(* The scheduler: one cycle.                                               *)
(***************************************************************************)
(* New queues come in the order of a Go map, which is any order. *)
appendNewQueues ==
  LET new == created \ Range(names)
  IN  {names \o s : s \in {t \in [1..Cardinality(new) -> new] : Range(t) = new}}

queuesChanged == Len(names) = 0 \/ Len(names) # Cardinality(created)

(* nextQueueToSchedule, then a snapshot of the queue it gives. *)
nextQueueToSchedule ==
  /\ At("scheduler", "idle") /\ created # {}
  /\ names' \in (IF queuesChanged THEN appendNewQueues ELSE {names})
  /\ turn' = (turn + 1) % Period
  /\ LET tenant == names'[(turn % Len(names')) + 1]
     IN  thread' = [thread EXCEPT !["scheduler"] =
                      [Idle EXCEPT !.pc = "scan", !.view = queues[tenant]]]
  /\ UNCHANGED <<server, watch, core, assumed, wq, admitted, restarted, budget>>

Scanning(u) == At("scheduler", "scan") /\ u \in thread["scheduler"].view

SkipUnowned(u) ==
  /\ Scanning(u) /\ ~u.owner
  /\ thread' = [thread EXCEPT !["scheduler"].view = @ \ {u}]
  /\ UNCHANGED <<server, watch, core, picker, wq, admitted, restarted, budget>>

NeedsMark(u) == ~CL!IsEnqueued(mem[u.job][u.ver])

Remark(u) ==
  /\ Scanning(u) /\ u.owner /\ NeedsMark(u)
  /\ QueueStateMarker(u, "JobEnqueued")
  /\ thread' = [thread EXCEPT !["scheduler"].pc = "filter", !["scheduler"].unit = u]
  /\ UNCHANGED <<pods, done, cache, queues, created, index, picker, wq, admitted, restarted>>

(* The assumption about a job is over: it is gone, it runs or it is done.  *)
expired(j) ==
  \/ ~cache[j].live
  \/ \E t \in {"Running", "Failed", "Succeeded"} : CL!HasCondition(cache[j].conds, t)

(* The assumed jobs after invalidateAssumedQuotas; slow ones may time out. *)
invalidateAssumedQuotas(t) ==
  LET left == {j \in assumed[t] : ~expired(j)}
  IN  IF Slow THEN SUBSET left ELSE {left}

(* Mutant: what is assumed is not subtracted. *)
FilterIgnoresAssumed(u, counted) == Used + Request[u.job] <= Hard

(* quota.Filter: what is left of the quota after the assumed jobs. *)
Filter(u, counted) ==
  Used + SumFunctionOnSet(Request, counted) + Request[u.job] <= Hard

isQueueUnitAcceptable(u) ==
  /\ \/ Scanning(u) /\ u.owner /\ ~NeedsMark(u)
     \/ At("scheduler", "filter") /\ u = thread["scheduler"].unit
  /\ \E counted \in invalidateAssumedQuotas(u.tenant) :
       /\ assumed' = [assumed EXCEPT ![u.tenant] = counted]
       /\ thread' = [thread EXCEPT
            !["scheduler"].pc = "scan",
            !["scheduler"].view = @ \ {u},
            !["scheduler"].cands = IF Filter(u, counted) THEN @ \cup {u} ELSE @]
  /\ UNCHANGED <<server, watch, core, names, turn, wq, admitted, restarted, budget>>

CycleEnds ==
  /\ At("scheduler", "scan") /\ thread["scheduler"].view = {}
  /\ thread["scheduler"].cands = {}
  /\ thread' = [thread EXCEPT !["scheduler"] = Idle]
  /\ UNCHANGED <<server, watch, core, picker, wq, admitted, restarted, budget>>

(* The priority plugin's Score, the only one. *)
prioritizeQueueUnit(u) == Priority[u.job]

(* The highest score wins, any of the equals. *)
selectQueueUnit(cands) ==
  {u \in cands : \A v \in cands : prioritizeQueueUnit(v) <= prioritizeQueueUnit(u)}

(* The end of a cycle that found candidates: quota is assumed, then Dequeue. *)
PreDequeue ==
  /\ At("scheduler", "scan") /\ thread["scheduler"].view = {}
  /\ \E u \in selectQueueUnit(thread["scheduler"].cands) :
       /\ assumed' = [assumed EXCEPT ![u.tenant] = @ \cup {u.job}]
       /\ admitted' = admitted \cup {u.job}
       /\ thread' = [thread EXCEPT !["scheduler"] = [Idle EXCEPT !.pc = "pop", !.unit = u]]
  /\ UNCHANGED <<server, watch, core, names, turn, wq, restarted, budget>>

-----------------------------------------------------------------------------
(***************************************************************************)
(* The engine, reduced to what the coordinator sees of it.                 *)
(***************************************************************************)
Reconcile(j) ==
  /\ j \in wq
  /\ IF api[j].live /\ pods[j] < Request[j]
     THEN /\ Used < Hard
          /\ pods' = [pods EXCEPT ![j] = @ + 1]
          /\ wq' = IF pods'[j] = Request[j] THEN wq \ {j} ELSE wq
     ELSE wq' = wq \ {j} /\ UNCHANGED pods
  /\ UNCHANGED <<api, done, watch, core, picker, thread, admitted, restarted, budget>>

UpdateJobStatus(j) ==
  LET t     == IF j \in done THEN "Succeeded" ELSE "Running"
      r     == IF j \in done THEN "JobSucceeded" ELSE "JobRunning"
      conds == CL!setCondition(api[j].conds, CL!newCondition(t, r))
  IN  /\ api[j].live /\ pods[j] = Request[j] /\ conds # api[j].conds /\ Room(j)
      /\ Write(j, [api[j] EXCEPT !.conds = conds])
      /\ UNCHANGED <<pods, done, cache, core, picker, thread, wq, admitted, restarted, budget>>

PodsComplete(j) ==
  /\ pods[j] = Request[j] /\ j \notin done
  /\ done' = done \cup {j}
  /\ UNCHANGED <<api, pods, watch, core, picker, thread, wq, admitted, restarted, budget>>

PodsCollected(j) ==
  /\ ~api[j].live /\ pods[j] > 0
  /\ pods' = [pods EXCEPT ![j] = 0]
  /\ UNCHANGED <<api, done, watch, core, picker, thread, wq, admitted, restarted, budget>>

-----------------------------------------------------------------------------
(***************************************************************************)
(* Users, and restarts of the manager.                                     *)
(***************************************************************************)
UserEdits(j) ==
  /\ api[j].live /\ budget.edits > 0 /\ Room(j)
  /\ \E t \in IF MayMove THEN Tenants ELSE {api[j].tenant} :
       Write(j, [api[j] EXCEPT !.ver = @ + 1, !.tenant = t])
  /\ budget' = [budget EXCEPT !.edits = @ - 1]
  /\ UNCHANGED <<pods, done, cache, core, picker, thread, wq, admitted, restarted>>

UserDeletes(j) ==
  /\ MayDelete /\ api[j].live /\ Room(j)
  /\ Write(j, [api[j] EXCEPT !.live = FALSE])
  /\ UNCHANGED <<pods, done, cache, core, picker, thread, wq, admitted, restarted, budget>>

(* All memory is lost and the jobs are listed anew. *)
Restart ==
  /\ events' = [j \in Jobs |-> IF api[j].live THEN <<api[j]>> ELSE << >>]
  /\ cache' = NotCached
  /\ queues' = [t \in Tenants |-> {}] /\ created' = {} /\ index' = [j \in Jobs |-> {}]
  /\ mem' = [j \in Jobs |-> [v \in Versions |-> << >>]]
  /\ names' = << >> /\ turn' = 0 /\ assumed' = [t \in Tenants |-> {}]
  /\ thread' = [th \in Threads |-> Idle] /\ wq' = {}
  /\ restarted' = TRUE
  /\ UNCHANGED <<server, admitted>>

(* A crash at any moment; also what the runtime does when the scheduler    *)
(* reads co.queues, without the lock, while a queue is added to it.        *)
Crash ==
  budget.crashes > 0 /\ budget' = [budget EXCEPT !.crashes = @ - 1] /\ Restart

(* qu.Owner.Add on a unit that has no owner. *)
NilOwner(th) == At(th, "give") /\ ~thread[th].unit.owner
Panic == (\E th \in Threads : NilOwner(th)) /\ Restart /\ UNCHANGED budget

-----------------------------------------------------------------------------
Init ==
  /\ api = [j \in Jobs |-> NewJob(j)]
  /\ pods = [j \in Jobs |-> 0] /\ done = {}
  /\ events = [j \in Jobs |-> <<NewJob(j)>>] /\ cache = NotCached
  /\ queues = [t \in Tenants |-> {}] /\ created = {} /\ index = [j \in Jobs |-> {}]
  /\ mem = [j \in Jobs |-> [v \in Versions |-> << >>]]
  /\ names = << >> /\ turn = 0 /\ assumed = [t \in Tenants |-> {}]
  /\ thread = [th \in Threads |-> Idle] /\ wq = {}
  /\ admitted = {} /\ restarted = FALSE
  /\ budget = [edits |-> MaxEdits, faults |-> MaxFaults, crashes |-> MaxCrashes]

Informer ==
  \/ \E j \in Jobs : OnOwnerCreateFunc(j) \/ OnOwnerUpdateFunc(j) \/ OnOwnerDeleteFunc(j)
  \/ initializeNewQueue \/ MarkEnqueued \/ addNewQueueUnit
  \/ EnqueueForObject \/ SetQueueUnitOwner \/ Dequeue("informer")

schedule ==
  \/ nextQueueToSchedule
  \/ \E u \in Unit : SkipUnowned(u) \/ Remark(u) \/ isQueueUnitAcceptable(u)
  \/ CycleEnds \/ PreDequeue \/ Dequeue("scheduler")

Engine == \E j \in Jobs : Reconcile(j) \/ UpdateJobStatus(j)

User == \E j \in Jobs : UserEdits(j) \/ UserDeletes(j)

Next == Informer \/ schedule \/ Engine \/ User \/ Crash \/ Panic
        \/ \E j \in Jobs : PodsComplete(j) \/ PodsCollected(j)

Spec == Init /\ [][Next]_vars

(***************************************************************************)
(* The goroutines run as long as the manager does; every worker takes the  *)
(* keys of its queue; a job that has all its pods completes in the end,    *)
(* and the pods of a deleted job are collected.                            *)
(***************************************************************************)
Fairness ==
  /\ WF_vars(Informer) /\ WF_vars(schedule) /\ WF_vars(Panic)
  /\ \A j \in Jobs : /\ WF_vars(Reconcile(j)) /\ WF_vars(UpdateJobStatus(j))
                     /\ WF_vars(PodsComplete(j)) /\ WF_vars(PodsCollected(j))

FairSpec == Spec /\ Fairness

-----------------------------------------------------------------------------
(***************************************************************************)
(* Every variable keeps its type; the selector knows every queue once.     *)
(***************************************************************************)
ThreadType == [pc : {"idle", "init", "markIn", "add", "handle", "owner", "pop", "give",
                     "markOut", "scan", "filter"},
               unit : Unit, gone : BOOLEAN, view : SUBSET Unit, cands : SUBSET Unit]

TypeOK ==
  /\ api \in [Jobs -> Object] /\ pods \in [Jobs -> Nat] /\ done \subseteq Jobs
  /\ events \in [Jobs -> Seq(Object)] /\ cache \in [Jobs -> Object]
  /\ queues \in [Tenants -> SUBSET Unit] /\ created \subseteq Tenants
  /\ index \in [Jobs -> SUBSET Tenants]
  /\ mem \in [Jobs -> [Versions -> Seq(CL!Condition)]]
  /\ names \in Seq(Tenants) /\ IsInjective(names) /\ turn \in 0..Period - 1
  /\ assumed \in [Tenants -> SUBSET Jobs]
  /\ thread \in [Threads -> ThreadType]
  /\ wq \subseteq Jobs /\ admitted \subseteq Jobs /\ restarted \in BOOLEAN
  /\ budget \in [edits : 0..MaxEdits, faults : 0..MaxFaults, crashes : 0..MaxCrashes]

(***************************************************************************)
(* No job gets a pod before a scheduling cycle has selected it, whatever   *)
(* the order of edits, deletions, failed patches, late events and restarts *)
(* (after which only the conditions on the API server tell who was let go).*)
(***************************************************************************)
PodsOnlyAfterAdmission == \A j \in DOMAIN pods : pods[j] > 0 => j \in admitted

(* The jobs that were let go, are not done and not deleted. *)
Committed == {j \in admitted \ done : api[j].live}

(***************************************************************************)
(* The assumed quota covers the time between a dequeue and the creation of *)
(* the pods: the jobs let go and not done never ask for more than the      *)
(* quota's limit, as long as the manager is not restarted, no job takes    *)
(* more than a minute to run and all jobs wait in one queue.               *)
(***************************************************************************)
QuotaIsRespected == ~restarted => SumFunctionOnSet(Request, Committed) <= Hard

(* The job waits: it exists and no cycle has selected it. *)
Waits(j) == j \notin admitted /\ api[j].live
=============================================================================
