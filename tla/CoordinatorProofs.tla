-------------------------- MODULE CoordinatorProofs --------------------------
(***************************************************************************)
(* Proofs about the job coordinator, for any number of jobs, queues, edits, *)
(* deletions, failing calls and restarts: no job runs pods before a cycle  *)
(* of the scheduler selected it, the state keeps its types, and the jobs   *)
(* that are let go stay within the quota.                                  *)
(***************************************************************************)
EXTENDS Coordinator, LoopTheorems, FiniteSetTheorems, SequenceTheorems, TLAPS

-----------------------------------------------------------------------------
(* What is proved of the list of conditions holds of any list. *)
CP == INSTANCE ConditionListProofs WITH conditions <- << >>

(* The conditions of the coordinator are those of module ConditionList. *)
LEMMA SameCondition == CL!Condition = CP!Condition
BY DEF CL!Condition, CP!Condition, CL!ConditionType, CP!ConditionType, CL!ReasonsOf, CP!ReasonsOf

(* And so is what setting one does. *)
LEMMA SameSet ==
  ASSUME NEW conds, NEW c
  PROVE  CL!setCondition(conds, c) = CP!setCondition(conds, c)
BY DEF CL!setCondition, CP!setCondition, CL!IsFailed, CP!IsFailed, CL!IsSucceeded, CP!IsSucceeded,
  CL!HasCondition, CP!HasCondition, CL!GetCondition, CP!GetCondition, CL!EntriesOf, CP!EntriesOf,
  CL!filterOutCondition, CP!filterOutCondition, CL!Kept, CP!Kept, CL!Stopped, CP!Stopped

(* What is set comes last. *)
LEMMA SetComesLast ==
  ASSUME NEW conds \in Seq(CL!Condition), NEW c \in CL!Condition, CL!setCondition(conds, c) # conds
  PROVE  /\ CL!setCondition(conds, c) \in Seq(CL!Condition)
         /\ Len(CL!setCondition(conds, c)) \in Nat \ {0}
         /\ CL!setCondition(conds, c)[Len(CL!setCondition(conds, c))] = c
BY CP!SetLast, SameSet, SameCondition

-----------------------------------------------------------------------------
(***************************************************************************)
(* The inductive invariant.                                                *)
(***************************************************************************)
Budget == [edits : Nat, faults : Nat, crashes : Nat]

(* What the proof needs of the types: TypeOK without the selector's order. *)
Typed ==
  /\ api \in [Jobs -> Object] /\ pods \in [Jobs -> Nat]
  /\ events \in [Jobs -> Seq(Object)] /\ cache \in [Jobs -> Object]
  /\ queues \in [Tenants -> SUBSET Unit] /\ created \subseteq Tenants
  /\ index \in [Jobs -> SUBSET Tenants]
  /\ mem \in [Jobs -> [Versions -> Seq(CL!Condition)]]
  /\ names \in Seq(Tenants) /\ turn \in Nat
  /\ thread \in [Threads -> ThreadType]
  /\ wq \subseteq Jobs
  /\ budget \in Budget /\ \A j \in Jobs : api[j].ver + budget.edits <= MaxEdits

(* The job was selected by a cycle, or is deleted. *)
LetGo(j) == j \in admitted \/ ~api[j].live

(* Only the conditions of a selected job say that it left its queue, on    *)
(* the server and in every event under way.                                *)
Says(conds, j) == ~CL!NeedEnqueueToCoordinator(conds) => j \in admitted

ConditionsTell ==
  \A j \in Jobs : /\ Says(api[j].conds, j)
                  /\ \A i \in DOMAIN events[j] : /\ Says(events[j][i].conds, j)
                                                 /\ ~events[j][i].live => ~api[j].live

(* The informer's job is let go before it is dequeued, is gone only if it  *)
(* was deleted and is cached otherwise; until its unit is added the index  *)
(* names the queue it goes to.                                             *)
Dequeuing(th) == thread[th].pc \in {"pop", "give", "markOut"}
Enqueuing     == thread["informer"].pc \in {"init", "markIn", "add"}

InformerTells ==
  LET th == thread["informer"] j == JobOf("informer")
  IN  /\ Dequeuing("informer") => LetGo(j)
      /\ th.pc # "idle" => IF th.gone THEN ~api[j].live ELSE cache[j].live
      /\ th.pc \in {"markIn", "add"} => LetGo(j) \/ index[j] = {th.unit.tenant}

SchedulerTells == Dequeuing("scheduler") => JobOf("scheduler") \in admitted

(* A job that is cached and not let go waits in the queue it is indexed    *)
(* under, or is just being enqueued.                                       *)
CachedJobsWait ==
  \A j \in Jobs : cache[j].live => \/ LetGo(j) \/ IsQueuing(j)
                                   \/ Enqueuing /\ JobOf("informer") = j

WorkIsLetGo == \A j \in wq : LetGo(j)

IInv == /\ Typed /\ ConditionsTell /\ InformerTells /\ SchedulerTells /\ CachedJobsWait
        /\ WorkIsLetGo /\ PodsOnlyAfterAdmission

-----------------------------------------------------------------------------
(***************************************************************************)
(* Types.                                                                  *)
(***************************************************************************)
PCs == {"idle", "init", "markIn", "add", "handle", "owner", "pop", "give", "markOut", "scan",
        "filter"}

(* A goroutine starts and ends at Idle. *)
LEMMA IdleType ==
  ASSUME CoordinatorAssumption
  PROVE  Idle \in ThreadType /\ Idle.pc = "idle"
<1>1. PICK j \in Jobs, t \in Tenants : TRUE
  BY DEF CoordinatorAssumption
<1>2. [job |-> j, ver |-> 0, tenant |-> t, owner |-> FALSE] \in Unit
  BY DEF Unit, Versions, CoordinatorAssumption
<1>3. AnyUnit \in Unit
  BY <1>2 DEF AnyUnit
<1> QED BY <1>3 DEF Idle, ThreadType

(* What Go changes. *)
LEMMA Goes ==
  ASSUME thread \in [Threads -> ThreadType], NEW th \in Threads, NEW pc \in PCs, Go(th, pc)
  PROVE  /\ thread' \in [Threads -> ThreadType]
         /\ thread'[th].pc = pc /\ thread'[th].unit = thread[th].unit
         /\ thread'[th].gone = thread[th].gone /\ thread'[th].cands = thread[th].cands
         /\ \A o \in Threads : o # th => thread'[o] = thread[o]
<1>1. thread[th] \in ThreadType
  OBVIOUS
<1>2. [thread[th] EXCEPT !.pc = pc] \in ThreadType
  BY <1>1 DEF ThreadType, PCs
<1> QED BY <1>1, <1>2 DEF Go, ThreadType

(* What setting the state of a goroutine changes. *)
LEMMA Moves ==
  ASSUME thread \in [Threads -> ThreadType], NEW th \in Threads, NEW r \in ThreadType,
         thread' = [thread EXCEPT ![th] = r]
  PROVE  /\ thread' \in [Threads -> ThreadType] /\ thread'[th] = r
         /\ \A o \in Threads : o # th => thread'[o] = thread[o]
OBVIOUS

(* There are two goroutines. *)
LEMMA TheThreads == "informer" \in Threads /\ "scheduler" \in Threads /\ "informer" # "scheduler"
BY DEF Threads

(* What Handle changes. *)
LEMMA Handles ==
  ASSUME CoordinatorAssumption, thread \in [Threads -> ThreadType],
         NEW pc \in PCs, NEW j \in Jobs, NEW obj \in Object, Handle(pc, j, obj)
  PROVE  /\ thread' \in [Threads -> ThreadType] /\ thread'["scheduler"] = thread["scheduler"]
         /\ thread'["informer"].pc = pc /\ thread'["informer"].unit = ToQueueUnit(j, obj)
         /\ thread'["informer"].unit.job = j
         /\ thread'["informer"].gone = ~obj.live
<1> DEFINE r == [Idle EXCEPT !.pc = pc, !.unit = ToQueueUnit(j, obj), !.gone = ~obj.live]
<1>1. ToQueueUnit(j, obj) \in Unit /\ ToQueueUnit(j, obj).job = j
  BY DEF ToQueueUnit, Unit, Object
<1>2. r \in ThreadType /\ r.pc = pc /\ r.unit = ToQueueUnit(j, obj) /\ r.gone = ~obj.live
  BY <1>1, IdleType DEF ThreadType, PCs, Object
<1>3. thread' = [thread EXCEPT !["informer"] = r]
  BY DEF Handle
<1> HIDE DEF r
<1> QED BY <1>1, <1>2, <1>3, Moves, TheThreads

-----------------------------------------------------------------------------
(***************************************************************************)
(* What a step may do to the rest without disturbing a part.               *)
(***************************************************************************)
(* No job comes back and no selection is forgotten. *)
Onward == /\ \A j \in Jobs : api'[j].live => api[j].live
          /\ admitted \subseteq admitted'

(* What has to stay for each part of the invariant to be kept. *)
LEMMA KeepConditions ==
  ASSUME ConditionsTell, UNCHANGED <<api, events>>, Onward
  PROVE  ConditionsTell'
BY DEF ConditionsTell, Says, Onward

(* The scheduler's job is the same, and jobs only get admitted. *)
LEMMA KeepScheduler ==
  ASSUME SchedulerTells, thread'["scheduler"] = thread["scheduler"], Onward
  PROVE  SchedulerTells'
BY DEF SchedulerTells, Dequeuing, JobOf, Onward

(* The informer goes on with the same job. *)
LEMMA KeepInformer ==
  ASSUME Typed, InformerTells, thread'["informer"] = thread["informer"], UNCHANGED cache, Onward,
         UNCHANGED index
  PROVE  InformerTells'
<1>1. JobOf("informer") \in Jobs
  BY TheThreads DEF Typed, JobOf, ThreadType, Unit
<1> QED BY <1>1 DEF InformerTells, Dequeuing, JobOf, LetGo, Onward

(* Queues, index and cache stay. *)
LEMMA KeepWaiting ==
  ASSUME CachedJobsWait, thread'["informer"] = thread["informer"], UNCHANGED cache, Onward,
         UNCHANGED <<queues, index>>
  PROVE  CachedJobsWait'
BY DEF CachedJobsWait, LetGo, IsQueuing, get, Enqueuing, JobOf, Onward

(* The work queue has nothing new. *)
LEMMA KeepWork ==
  ASSUME Typed, WorkIsLetGo, wq' \subseteq wq, Onward
  PROVE  WorkIsLetGo'
BY DEF WorkIsLetGo, LetGo, Onward, Typed

(* No pods are added. *)
LEMMA KeepPods ==
  ASSUME PodsOnlyAfterAdmission, UNCHANGED pods, Onward
  PROVE  PodsOnlyAfterAdmission'
BY DEF PodsOnlyAfterAdmission, Onward

(* A step that leaves the server and the admitted jobs alone. *)
LEMMA StaysOnward ==
  ASSUME UNCHANGED <<api, admitted>>
  PROVE  Onward
BY DEF Onward

-----------------------------------------------------------------------------
(***************************************************************************)
(* Conditions.                                                             *)
(***************************************************************************)
LEMMA QueuingType ==
  ASSUME NEW reason \in {"JobEnqueued", "JobDequeued"}
  PROVE  CL!newCondition("Queuing", reason) \in CL!Condition
<1>1. CL!ReasonsOf("Queuing") = {"JobEnqueued", "JobDequeued"}
  BY Zenon DEF CL!ReasonsOf
<1>2. "Queuing" \in CL!ConditionType
  BY DEF CL!ConditionType
<1>3. CL!newCondition("Queuing", reason)
        \in [type : {"Queuing"}, status : {"true", "false"}, reason : CL!ReasonsOf("Queuing")]
  BY <1>1 DEF CL!newCondition
<1> QED BY <1>2, <1>3 DEF CL!Condition

(* So is the first one. *)
LEMMA CreatedType == CL!newCondition("Created", "JobCreated") \in CL!Condition
<1>1. CL!ReasonsOf("Created") = {"JobCreated"}
  BY Zenon DEF CL!ReasonsOf
<1>2. "Created" \in CL!ConditionType
  BY DEF CL!ConditionType
<1>3. CL!newCondition("Created", "JobCreated")
        \in [type : {"Created"}, status : {"true", "false"}, reason : CL!ReasonsOf("Created")]
  BY <1>1 DEF CL!newCondition
<1> QED BY <1>2, <1>3 DEF CL!Condition

(* And those of the engine. *)
LEMMA EngineTypes ==
  /\ CL!newCondition("Running", "JobRunning") \in CL!Condition
  /\ CL!newCondition("Succeeded", "JobSucceeded") \in CL!Condition
<1>1. CL!ReasonsOf("Running") = {"JobRunning"}
  BY Zenon DEF CL!ReasonsOf
<1>2. CL!ReasonsOf("Succeeded") = {"JobSucceeded"}
  BY Zenon DEF CL!ReasonsOf
<1>3. "Running" \in CL!ConditionType /\ "Succeeded" \in CL!ConditionType
  BY DEF CL!ConditionType
<1>4. CL!newCondition("Running", "JobRunning")
        \in [type : {"Running"}, status : {"true", "false"}, reason : CL!ReasonsOf("Running")]
  BY <1>1 DEF CL!newCondition
<1>5. CL!newCondition("Succeeded", "JobSucceeded")
        \in [type : {"Succeeded"}, status : {"true", "false"}, reason : CL!ReasonsOf("Succeeded")]
  BY <1>2 DEF CL!newCondition
<1> QED BY <1>3, <1>4, <1>5 DEF CL!Condition

(* The list stays a list of conditions. *)
LEMMA SetStaysList ==
  ASSUME NEW conds \in Seq(CL!Condition), NEW c \in CL!Condition
  PROVE  CL!setCondition(conds, c) \in Seq(CL!Condition)
BY SetComesLast

(* A job marked as enqueued, or as created, looks as if it had to be enqueued. *)
LEMMA MarkedNeedsQueue ==
  ASSUME NEW conds \in Seq(CL!Condition), NEW c \in CL!Condition, CL!setCondition(conds, c) # conds,
         \/ c = CL!newCondition("Queuing", "JobEnqueued")
         \/ c = CL!newCondition("Created", "JobCreated")
  PROVE  CL!NeedEnqueueToCoordinator(CL!setCondition(conds, c))
<1> DEFINE new == CL!setCondition(conds, c)
<1>1. new \in Seq(CL!Condition) /\ Len(new) \in Nat \ {0} /\ new[Len(new)] = c
  BY SetComesLast
<1> HIDE DEF new
<1>2. Len(new) \in DOMAIN new
  BY <1>1
<1>3. CASE c = CL!newCondition("Queuing", "JobEnqueued")
  <2>1. c.type = "Queuing" /\ c.reason = "JobEnqueued"
    BY <1>3 DEF CL!newCondition
  <2>2. c \in CL!GetLastCondition(new, "Queuing")
    BY <1>1, <1>2, <2>1 DEF CL!GetLastCondition, CL!EntriesOf
  <2> QED BY <2>1, <2>2 DEF CL!NeedEnqueueToCoordinator, CL!IsEnqueued, CL!LastReasonIs, new
<1>4. CASE c = CL!newCondition("Created", "JobCreated")
  <2>1. c.type = "Created"
    BY <1>4 DEF CL!newCondition
  <2>2. c \in CL!GetLastCondition(new, "Created")
    BY <1>1, <1>2, <2>1 DEF CL!GetLastCondition, CL!EntriesOf
  <2> QED BY <2>2 DEF CL!NeedEnqueueToCoordinator, CL!IsJustCreated, new
<1> QED BY <1>3, <1>4

-----------------------------------------------------------------------------
(***************************************************************************)
(* Writes.                                                                 *)
(***************************************************************************)
LEMMA Writes ==
  ASSUME Typed, ConditionsTell, UNCHANGED admitted,
         NEW j \in Jobs, NEW obj \in Object, Write(j, obj),
         obj.live => api[j].live, Says(obj.conds, j)
  PROVE  /\ api' \in [Jobs -> Object] /\ events' \in [Jobs -> Seq(Object)]
         /\ api'[j] = obj /\ \A k \in Jobs : k # j => api'[k] = api[k]
         /\ ConditionsTell' /\ Onward
<1>1. api' \in [Jobs -> Object] /\ api'[j] = obj /\ \A k \in Jobs : k # j => api'[k] = api[k]
  BY DEF Write, Typed
<1>2. Onward
  BY <1>1 DEF Onward
<1>3. \A k \in Jobs : Says(api'[k].conds, k)
  BY <1>1 DEF ConditionsTell
<1>4. CASE obj = api[j]
  <2>1. api' = api /\ events' = events
    BY <1>4, <1>1 DEF Write, Typed
  <2> QED BY <1>1, <1>2, <2>1, KeepConditions DEF Typed
<1>5. CASE obj # api[j]
  <2>1. events' = [events EXCEPT ![j] = Append(@, obj)]
    BY <1>5 DEF Write
  <2>2. events[j] \in Seq(Object) /\ Append(events[j], obj) \in Seq(Object)
    BY DEF Typed
  <2>3. events' \in [Jobs -> Seq(Object)] /\ events'[j] = Append(events[j], obj)
        /\ \A k \in Jobs : k # j => events'[k] = events[k]
    BY <2>1, <2>2 DEF Typed
  <2>4. ASSUME NEW k \in Jobs, NEW i \in DOMAIN events'[k]
        PROVE  Says(events'[k][i].conds, k) /\ (~events'[k][i].live => ~api'[k].live)
    <3>1. CASE k # j
      BY <1>1, <2>3, <3>1 DEF ConditionsTell
    <3>2. CASE k = j
      <4>1. i \in DOMAIN events[j] \/ i = Len(events[j]) + 1
        BY <2>2, <2>3, <3>2
      <4>2. CASE i \in DOMAIN events[j]
        <5>1. events'[j][i] = events[j][i]
          BY <2>2, <2>3, <4>2
        <5>2. Says(events[j][i].conds, j) /\ (~events[j][i].live => ~api[j].live)
          BY <4>2 DEF ConditionsTell
        <5> QED BY <1>1, <3>2, <5>1, <5>2
      <4>3. CASE i = Len(events[j]) + 1
        <5>1. events'[j][i] = obj
          BY <2>2, <2>3, <4>3
        <5> QED BY <1>1, <3>2, <5>1
      <4> QED BY <4>1, <4>2, <4>3
    <3> QED BY <3>1, <3>2
  <2>5. ConditionsTell'
    BY <1>3, <2>4 DEF ConditionsTell, Says
  <2> QED BY <1>1, <1>2, <2>3, <2>5
<1> QED BY <1>4, <1>5

(* QueueStateMarker changes conditions only, and tells of a dequeue only   *)
(* for a job that is let go.                                               *)
LEMMA Marks ==
  ASSUME CoordinatorAssumption, Typed, ConditionsTell, UNCHANGED admitted,
         NEW unit \in Unit, NEW reason \in {"JobEnqueued", "JobDequeued"},
         QueueStateMarker(unit, reason),
         reason = "JobDequeued" => LetGo(unit.job)
  PROVE  /\ api' \in [Jobs -> Object] /\ events' \in [Jobs -> Seq(Object)]
         /\ mem' \in [Jobs -> [Versions -> Seq(CL!Condition)]]
         /\ budget' \in Budget /\ budget'.edits = budget.edits
         /\ \A k \in Jobs : api'[k].ver = api[k].ver
         /\ ConditionsTell' /\ Onward
<1> DEFINE j   == unit.job
           c   == CL!newCondition("Queuing", reason)
           old == mem[j][unit.ver]
           new == CL!setCondition(old, c)
<1>1. j \in Jobs /\ unit.ver \in Versions
  BY DEF Unit
<1>2. old \in Seq(CL!Condition) /\ api[j] \in Object /\ api[j].conds \in Seq(CL!Condition)
  BY <1>1 DEF Typed, Object
<1>3. c \in CL!Condition
  BY QueuingType
<1>4. new \in Seq(CL!Condition)
  BY <1>2, <1>3, SetStaysList
<1> HIDE DEF c
<1>5. ASSUME NEW conds \in Seq(CL!Condition), mem' = [mem EXCEPT ![j][unit.ver] = conds]
      PROVE  mem' \in [Jobs -> [Versions -> Seq(CL!Condition)]]
  BY <1>1, <1>5 DEF Typed
<1>6. budget' = budget \/ Fault => budget' \in Budget /\ budget'.edits = budget.edits
  <2>1. budget \in Budget
    BY DEF Typed
  <2>2. ASSUME Fault PROVE budget' \in Budget /\ budget'.edits = budget.edits
    <3>1. budget.faults \in Nat /\ budget.faults > 0 /\ budget' = [budget EXCEPT !.faults = budget.faults - 1]
      BY <2>1, <2>2 DEF Fault, Budget
    <3>2. budget.faults - 1 \in Nat
      BY <3>1
    <3> QED BY <2>1, <3>1, <3>2 DEF Budget
  <2> QED BY <2>1, <2>2
<1>7. CASE /\ api[j].live /\ new # old /\ Write(j, [api[j] EXCEPT !.conds = new])
           /\ mem' = [mem EXCEPT ![j][unit.ver] = new] /\ UNCHANGED budget
  <2> DEFINE obj == [api[j] EXCEPT !.conds = new]
  <2>1. obj \in Object /\ obj.live = api[j].live /\ obj.conds = new /\ obj.ver = api[j].ver
    BY <1>2, <1>4 DEF Object
  <2>2. Says(new, j)
    <3>1. CASE reason = "JobDequeued"
      BY <1>7, <3>1 DEF LetGo, Says
    <3>2. CASE reason = "JobEnqueued"
      BY <1>2, <1>3, <1>7, <3>2, MarkedNeedsQueue DEF Says, c
    <3> QED BY <3>1, <3>2
  <2> HIDE DEF obj, new
  <2>3. Write(j, obj)
    BY <1>7 DEF obj, new
  <2> HIDE DEF j
  <2>4. /\ api' \in [Jobs -> Object] /\ events' \in [Jobs -> Seq(Object)]
        /\ api'[j] = obj /\ \A k \in Jobs : k # j => api'[k] = api[k]
        /\ ConditionsTell' /\ Onward
    BY <1>1, <2>1, <2>2, <2>3, Writes
  <2>5. mem' \in [Jobs -> [Versions -> Seq(CL!Condition)]]
    BY <1>4, <1>5, <1>7 DEF new
  <2> QED BY <1>6, <1>7, <2>1, <2>4, <2>5
<1>8. CASE /\ mem' = [mem EXCEPT ![j][unit.ver] = api[j].conds] /\ UNCHANGED <<api, events, budget>>
  BY <1>2, <1>5, <1>6, <1>8, StaysOnward, KeepConditions DEF Typed
<1>9. CASE /\ (~api[j].live /\ UNCHANGED budget) \/ Fault
           /\ mem' = [mem EXCEPT ![j][unit.ver] = new] /\ UNCHANGED <<api, events>>
  BY <1>4, <1>5, <1>6, <1>9, StaysOnward, KeepConditions DEF Typed
<1> QED BY <1>7, <1>8, <1>9, Zenon DEF QueueStateMarker, c

-----------------------------------------------------------------------------
(***************************************************************************)
(* The informer's steps.                                                   *)
(***************************************************************************)
(* What taking an event off the watch does, and what the event tells. *)
LEMMA Takes ==
  ASSUME Typed, ConditionsTell, NEW j \in Jobs, NextEvent(j), Take(j)
  PROVE  /\ Head(events[j]) \in Object
         /\ Says(Head(events[j]).conds, j) /\ (~Head(events[j]).live => ~api[j].live)
         /\ cache' \in [Jobs -> Object] /\ cache'[j] = Head(events[j])
         /\ \A k \in Jobs : k # j => cache'[k] = cache[k]
         /\ events' \in [Jobs -> Seq(Object)] /\ ConditionsTell' /\ Onward
         /\ UNCHANGED <<api, pods, queues, created, index, names, turn, wq, admitted, budget>>
<1>1. events[j] \in Seq(Object) /\ events[j] # << >>
  BY DEF Typed, NextEvent
<1>2. /\ Head(events[j]) \in Object /\ Head(events[j]) = events[j][1] /\ 1 \in DOMAIN events[j]
      /\ Tail(events[j]) \in Seq(Object)
      /\ \A i \in DOMAIN Tail(events[j]) : i + 1 \in DOMAIN events[j] /\ Tail(events[j])[i] = events[j][i + 1]
  BY <1>1
<1>3. Says(Head(events[j]).conds, j) /\ (~Head(events[j]).live => ~api[j].live)
  BY <1>2 DEF ConditionsTell
<1>4. UNCHANGED <<api, pods, queues, created, index, names, turn, wq, admitted, budget>> /\ Onward
  BY StaysOnward DEF Take, server, picker
<1>5. /\ cache' \in [Jobs -> Object] /\ cache'[j] = Head(events[j])
      /\ \A k \in Jobs : k # j => cache'[k] = cache[k]
  BY <1>2 DEF Take, Typed
<1>6. /\ events' \in [Jobs -> Seq(Object)] /\ events'[j] = Tail(events[j])
      /\ \A k \in Jobs : k # j => events'[k] = events[k]
  BY <1>2 DEF Take, Typed
<1>7. ASSUME NEW k \in Jobs, NEW i \in DOMAIN events'[k]
      PROVE  Says(events'[k][i].conds, k) /\ (~events'[k][i].live => ~api[k].live)
  <2>1. CASE k # j
    BY <1>6, <2>1 DEF ConditionsTell
  <2>2. CASE k = j
    <3>1. i + 1 \in DOMAIN events[j] /\ events'[j][i] = events[j][i + 1]
      BY <1>2, <1>6, <2>2
    <3> QED BY <2>2, <3>1 DEF ConditionsTell
  <2> QED BY <2>1, <2>2
<1>8. \A k \in Jobs : Says(api[k].conds, k)
  BY DEF ConditionsTell
<1>9. ConditionsTell'
  BY <1>4, <1>7, <1>8 DEF ConditionsTell, Says
<1> QED BY <1>2, <1>3, <1>4, <1>5, <1>6, <1>9

(* The rest of what the handlers of events keep. *)
LEMMA EventKeeps ==
  ASSUME CoordinatorAssumption, IInv, NEW j \in Jobs, NextEvent(j), Take(j),
         mem' \in [Jobs -> [Versions -> Seq(CL!Condition)]],
         NEW pc \in {"init", "handle", "pop"}, Handle(pc, j, Head(events[j])),
         pc = "init" => Head(events[j]).live,
         pc = "handle" => Head(events[j]).live /\ (LetGo(j) \/ IsQueuing(j)),
         pc = "pop" => LetGo(j)
  PROVE  IInv'
<1> DEFINE obj == Head(events[j])
<1>1. Typed /\ ConditionsTell /\ InformerTells /\ SchedulerTells /\ CachedJobsWait
      /\ WorkIsLetGo /\ PodsOnlyAfterAdmission
  BY DEF IInv
<1>2. /\ obj \in Object /\ (~obj.live => ~api[j].live)
      /\ cache' \in [Jobs -> Object] /\ cache'[j] = obj
      /\ \A k \in Jobs : k # j => cache'[k] = cache[k]
      /\ events' \in [Jobs -> Seq(Object)] /\ ConditionsTell' /\ Onward
      /\ UNCHANGED <<api, pods, queues, created, index, names, turn, wq, admitted, budget>>
  BY <1>1, Takes
<1> HIDE DEF obj
<1>3. /\ thread' \in [Threads -> ThreadType] /\ thread'["scheduler"] = thread["scheduler"]
      /\ thread'["informer"].pc = pc /\ thread'["informer"].unit.job = j
      /\ thread'["informer"].gone = ~obj.live
  <2>1. thread \in [Threads -> ThreadType] /\ pc \in PCs
    BY <1>1 DEF Typed, PCs
  <2> QED BY <1>2, <2>1, Handles DEF obj
<1>4. Typed'
  BY <1>1, <1>2, <1>3 DEF Typed
<1>5. InformerTells'
  <2>1. pc # "markIn" /\ pc # "add" /\ pc # "idle" /\ (pc \in {"pop", "give", "markOut"} => LetGo(j)')
    BY <1>2 DEF LetGo
  <2> QED BY <1>2, <1>3, <2>1 DEF InformerTells, Dequeuing, JobOf
<1>6. SchedulerTells'
  BY <1>1, <1>2, <1>3, KeepScheduler
<1>7. ASSUME NEW k \in Jobs, cache'[k].live
      PROVE  (LetGo(k) \/ IsQueuing(k) \/ (Enqueuing /\ JobOf("informer") = k))'
  <2>1. CASE k # j
    <3>1. ~Enqueuing
      BY DEF NextEvent, At, Enqueuing
    <3>2. LetGo(k) \/ IsQueuing(k)
      BY <1>1, <1>2, <1>7, <2>1, <3>1 DEF CachedJobsWait
    <3> QED BY <1>2, <3>2 DEF LetGo, IsQueuing, get
  <2>2. CASE k = j /\ pc = "init"
    BY <1>3, <2>2 DEF Enqueuing, JobOf
  <2>3. CASE k = j /\ pc # "init"
    <3>1. LetGo(k) \/ IsQueuing(k)
      BY <2>3
    <3> QED BY <1>2, <3>1 DEF LetGo, IsQueuing, get
  <2> QED BY <2>1, <2>2, <2>3
<1>8. CachedJobsWait'
  BY <1>7 DEF CachedJobsWait
<1>9. WorkIsLetGo' /\ PodsOnlyAfterAdmission'
  BY <1>1, <1>2, KeepWork, KeepPods
<1> QED BY <1>2, <1>4, <1>5, <1>6, <1>8, <1>9 DEF IInv

(* OnOwnerCreateFunc. *)
LEMMA CreateKeeps ==
  ASSUME CoordinatorAssumption, IInv, NEW j \in Jobs, OnOwnerCreateFunc(j)
  PROVE  IInv'
<1> DEFINE obj   == Head(events[j])
           c     == CL!newCondition("Created", "JobCreated")
           conds == CL!setCondition(obj.conds, c)
           pc    == IF CL!NeedEnqueueToCoordinator(conds) THEN "init" ELSE "handle"
<1>1. /\ NextEvent(j) /\ obj.live /\ mem' = [mem EXCEPT ![j][obj.ver] = conds]
      /\ Handle(pc, j, obj) /\ Take(j)
  BY DEF OnOwnerCreateFunc
<1>2. obj \in Object /\ Says(obj.conds, j)
  BY <1>1, Takes DEF IInv
<1>3. c \in CL!Condition
  BY CreatedType
<1>4. conds \in Seq(CL!Condition) /\ obj.conds \in Seq(CL!Condition) /\ obj.ver \in Versions
  <2>1. obj.conds \in Seq(CL!Condition) /\ obj.ver \in Versions
    BY <1>2 DEF Object
  <2> HIDE DEF c
  <2> QED BY <1>3, <2>1, SetStaysList
<1>5. mem' \in [Jobs -> [Versions -> Seq(CL!Condition)]]
  <2> HIDE DEF conds, obj
  <2> QED BY <1>1, <1>4 DEF IInv, Typed
<1>6. ASSUME pc = "handle" PROVE LetGo(j)
  <2>1. ~CL!NeedEnqueueToCoordinator(conds)
    BY <1>6
  <2>2. conds = obj.conds
    BY <1>3, <1>4, <2>1, MarkedNeedsQueue
  <2> QED BY <1>2, <2>1, <2>2 DEF Says, LetGo
<1>7. pc \in {"init", "handle", "pop"}
  OBVIOUS
<1> HIDE DEF pc
<1>8. pc # "pop"
  BY DEF pc
<1> QED BY <1>1, <1>5, <1>6, <1>7, <1>8, EventKeeps

(* OnOwnerUpdateFunc. *)
LEMMA UpdateKeeps ==
  ASSUME CoordinatorAssumption, IInv, NEW j \in Jobs, OnOwnerUpdateFunc(j)
  PROVE  IInv'
<1> DEFINE obj == Head(events[j])
<1>1. NextEvent(j) /\ obj.live /\ cache[j].live /\ Take(j)
  BY DEF OnOwnerUpdateFunc
<1>2. obj \in Object /\ Says(obj.conds, j)
  BY <1>1, Takes DEF IInv
<1>3. mem \in [Jobs -> [Versions -> Seq(CL!Condition)]]
  BY DEF IInv, Typed
<1>4. LetGo(j) \/ IsQueuing(j)
  <2>1. ~Enqueuing
    BY <1>1 DEF NextEvent, At, Enqueuing
  <2> QED BY <1>1, <2>1 DEF IInv, CachedJobsWait
<1>5. CASE mem' = [mem EXCEPT ![j][obj.ver] = obj.conds] /\ Handle("init", j, obj)
  <2>1. obj.conds \in Seq(CL!Condition) /\ obj.ver \in Versions
    BY <1>2 DEF Object
  <2>2. mem' \in [Jobs -> [Versions -> Seq(CL!Condition)]]
    <3> HIDE DEF obj
    <3> QED BY <1>3, <1>5, <2>1
  <2> QED BY <1>1, <1>5, <2>2, EventKeeps
<1>6. CASE UNCHANGED mem /\ Handle("handle", j, obj)
  BY <1>1, <1>3, <1>4, <1>6, EventKeeps
<1>7. CASE ~CL!NeedEnqueueToCoordinator(obj.conds) /\ UNCHANGED mem /\ Handle("pop", j, obj)
  BY <1>1, <1>2, <1>3, <1>7, EventKeeps DEF Says, LetGo
<1> QED BY <1>5, <1>6, <1>7 DEF OnOwnerUpdateFunc

(* OnOwnerDeleteFunc. *)
LEMMA DeleteKeeps ==
  ASSUME CoordinatorAssumption, IInv, NEW j \in Jobs, OnOwnerDeleteFunc(j)
  PROVE  IInv'
<1>1. NextEvent(j) /\ Take(j) /\ UNCHANGED mem /\ Handle("pop", j, Head(events[j]))
      /\ ~Head(events[j]).live
  BY DEF OnOwnerDeleteFunc
<1>2. mem' \in [Jobs -> [Versions -> Seq(CL!Condition)]]
  BY <1>1 DEF IInv, Typed
<1>3. LetGo(j)
  BY <1>1, Takes DEF LetGo, IInv
<1> QED BY <1>1, <1>2, <1>3, EventKeeps

(* Where the informer stands, as the invariant tells it. *)
LEMMA AtInformer ==
  ASSUME IInv
  PROVE  /\ thread["informer"] \in ThreadType /\ thread["informer"].unit \in Unit
         /\ JobOf("informer") \in Jobs /\ thread["informer"].unit.tenant \in Tenants
BY TheThreads DEF IInv, Typed, ThreadType, Unit, JobOf

(* A queue is made for a new tenant. *)
LEMMA InitializeKeeps ==
  ASSUME CoordinatorAssumption, IInv, initializeNewQueue
  PROVE  IInv'
<1> DEFINE u == thread["informer"].unit
           j == u.job
<1>1. Typed /\ ConditionsTell /\ InformerTells /\ SchedulerTells /\ CachedJobsWait
      /\ WorkIsLetGo /\ PodsOnlyAfterAdmission
  BY DEF IInv
<1>2. u \in Unit /\ j \in Jobs /\ u.tenant \in Tenants
  BY AtInformer DEF JobOf
<1>3. /\ created' = created \cup {u.tenant} /\ index' = [index EXCEPT ![j] = {u.tenant}]
      /\ thread["informer"].pc = "init"
      /\ UNCHANGED <<api, pods, events, cache, queues, mem, names, turn, wq, admitted, budget>>
  BY DEF initializeNewQueue, server, watch, picker, At
<1>4. Onward
  BY <1>3, StaysOnward
<1>5. /\ thread' \in [Threads -> ThreadType] /\ thread'["scheduler"] = thread["scheduler"]
      /\ thread'["informer"].pc = "markIn" /\ thread'["informer"].unit = u
      /\ thread'["informer"].gone = thread["informer"].gone
  BY <1>1, Goes, TheThreads DEF initializeNewQueue, PCs, Typed
<1>6. /\ index' \in [Jobs -> SUBSET Tenants] /\ index'[j] = {u.tenant}
      /\ \A k \in Jobs : k # j => index'[k] = index[k]
  BY <1>1, <1>2, <1>3 DEF Typed
<1> HIDE DEF u
<1>7. Typed'
  BY <1>1, <1>2, <1>3, <1>5, <1>6 DEF Typed
<1>8. InformerTells'
  BY <1>1, <1>3, <1>5, <1>6 DEF InformerTells, Dequeuing, JobOf, u
<1>9. CachedJobsWait'
  <2>1. ASSUME NEW k \in Jobs, cache'[k].live
        PROVE  (LetGo(k) \/ IsQueuing(k) \/ (Enqueuing /\ JobOf("informer") = k))'
    <3>1. CASE k = j
      BY <1>5, <3>1 DEF Enqueuing, JobOf
    <3>2. CASE k # j
      <4>1. LetGo(k) \/ IsQueuing(k)
        BY <1>1, <1>3, <2>1, <3>2 DEF CachedJobsWait, JobOf, u
      <4> QED BY <1>3, <1>6, <3>2, <4>1 DEF LetGo, IsQueuing, get
    <3> QED BY <3>1, <3>2
  <2> QED BY <2>1 DEF CachedJobsWait
<1> QED BY <1>1, <1>3, <1>4, <1>5, <1>7, <1>8, <1>9, KeepConditions, KeepScheduler, KeepWork, KeepPods
    DEF IInv

(* The job is marked as enqueued. *)
LEMMA MarkEnqueuedKeeps ==
  ASSUME CoordinatorAssumption, IInv, MarkEnqueued
  PROVE  IInv'
<1> DEFINE u == thread["informer"].unit
<1>1. Typed /\ ConditionsTell /\ InformerTells /\ SchedulerTells /\ CachedJobsWait
      /\ WorkIsLetGo /\ PodsOnlyAfterAdmission
  BY DEF IInv
<1>2. u \in Unit /\ u.job \in Jobs
  BY AtInformer DEF JobOf
<1>3. /\ thread["informer"].pc = "markIn" /\ QueueStateMarker(u, "JobEnqueued")
      /\ UNCHANGED <<pods, cache, queues, created, index, names, turn, wq, admitted>>
  BY DEF MarkEnqueued, picker, At
<1>4. /\ thread' \in [Threads -> ThreadType] /\ thread'["scheduler"] = thread["scheduler"]
      /\ thread'["informer"].pc = "add" /\ thread'["informer"].unit = u
      /\ thread'["informer"].gone = thread["informer"].gone
  BY <1>1, Goes, TheThreads DEF MarkEnqueued, PCs, Typed
<1>5. /\ api' \in [Jobs -> Object] /\ events' \in [Jobs -> Seq(Object)]
      /\ mem' \in [Jobs -> [Versions -> Seq(CL!Condition)]]
      /\ budget' \in Budget /\ budget'.edits = budget.edits
      /\ \A k \in Jobs : api'[k].ver = api[k].ver
      /\ ConditionsTell' /\ Onward
  BY <1>1, <1>2, <1>3, Marks
<1>6. Typed'
  BY <1>1, <1>3, <1>4, <1>5 DEF Typed
<1> HIDE DEF u
<1>7. InformerTells'
  BY <1>1, <1>2, <1>3, <1>4, <1>5 DEF InformerTells, Dequeuing, JobOf, LetGo, Onward, u
<1>8. CachedJobsWait'
  BY <1>1, <1>3, <1>4, <1>5 DEF CachedJobsWait, LetGo, IsQueuing, get, Enqueuing, JobOf, Onward, u
<1> QED BY <1>1, <1>3, <1>4, <1>5, <1>6, <1>7, <1>8, KeepScheduler, KeepWork, KeepPods DEF IInv

(* The unit is added to its queue. *)
LEMMA AddKeeps ==
  ASSUME CoordinatorAssumption, IInv, addNewQueueUnit
  PROVE  IInv'
<1> DEFINE u == thread["informer"].unit
           j == u.job
           q == (queues[u.tenant] \ get(u.tenant, j)) \cup {u}
<1>1. Typed /\ ConditionsTell /\ InformerTells /\ SchedulerTells /\ CachedJobsWait
      /\ WorkIsLetGo /\ PodsOnlyAfterAdmission
  BY DEF IInv
<1>2. u \in Unit /\ j \in Jobs /\ u.tenant \in Tenants
  BY AtInformer DEF JobOf
<1>3. /\ thread["informer"].pc = "add" /\ queues' = [queues EXCEPT ![u.tenant] = q]
      /\ UNCHANGED <<api, pods, events, cache, created, index, mem, names, turn, wq, admitted, budget>>
  BY DEF addNewQueueUnit, server, watch, picker, At
<1>4. Onward
  BY <1>3, StaysOnward
<1>5. /\ thread' \in [Threads -> ThreadType] /\ thread'["scheduler"] = thread["scheduler"]
      /\ thread'["informer"].pc = "handle" /\ thread'["informer"].unit = u
      /\ thread'["informer"].gone = thread["informer"].gone
  BY <1>1, Goes, TheThreads DEF addNewQueueUnit, PCs, Typed
<1> HIDE DEF u
<1>6. /\ queues' \in [Tenants -> SUBSET Unit] /\ queues'[u.tenant] = q
      /\ \A t \in Tenants : t # u.tenant => queues'[t] = queues[t]
  BY <1>1, <1>2, <1>3 DEF Typed
<1>7. Typed'
  BY <1>1, <1>3, <1>5, <1>6 DEF Typed
<1>8. InformerTells'
  BY <1>1, <1>3, <1>5 DEF InformerTells, Dequeuing, JobOf, LetGo, u
<1>9. CachedJobsWait'
  <2>1. ASSUME NEW k \in Jobs, cache'[k].live
        PROVE  (LetGo(k) \/ IsQueuing(k))'
    <3>1. CASE k = j
      <4>1. LetGo(j) \/ index[j] = {u.tenant}
        BY <1>1, <1>3 DEF InformerTells, JobOf, u
      <4>2. u \in queues'[u.tenant]
        BY <1>6
      <4> QED BY <1>3, <3>1, <4>1, <4>2 DEF LetGo, IsQueuing, get
    <3>2. CASE k # j
      <4>1. LetGo(k) \/ IsQueuing(k)
        BY <1>1, <1>3, <2>1, <3>2 DEF CachedJobsWait, JobOf, u
      <4>2. ASSUME NEW t \in Tenants, NEW v \in queues[t], v.job = k
            PROVE  v \in queues'[t]
        BY <1>6, <3>2, <4>2 DEF get
      <4>3. index[k] \subseteq Tenants
        BY <1>1 DEF Typed
      <4> QED BY <1>3, <4>1, <4>2, <4>3 DEF LetGo, IsQueuing, get
    <3> QED BY <3>1, <3>2
  <2> QED BY <2>1 DEF CachedJobsWait
<1> QED BY <1>1, <1>3, <1>4, <1>5, <1>7, <1>8, <1>9, KeepConditions, KeepScheduler, KeepWork, KeepPods
    DEF IInv

(* EnqueueForObject. *)
LEMMA EnqueueKeeps ==
  ASSUME CoordinatorAssumption, IInv, EnqueueForObject
  PROVE  IInv'
<1> DEFINE th == thread["informer"]
           j  == th.unit.job
<1>1. Typed /\ ConditionsTell /\ InformerTells /\ SchedulerTells /\ CachedJobsWait
      /\ WorkIsLetGo /\ PodsOnlyAfterAdmission
  BY DEF IInv
<1>2. j \in Jobs
  BY AtInformer DEF JobOf
<1>3. /\ th.pc = "handle"
      /\ UNCHANGED <<api, pods, events, cache, queues, created, index, mem, names, turn, admitted, budget>>
  BY DEF EnqueueForObject, server, watch, core, picker, At
<1>4. Onward
  BY <1>3, StaysOnward
<1>5. CASE Go("informer", "owner") /\ UNCHANGED wq
  <2>1. /\ thread' \in [Threads -> ThreadType] /\ thread'["scheduler"] = thread["scheduler"]
        /\ thread'["informer"].pc = "owner" /\ thread'["informer"].unit = th.unit
        /\ thread'["informer"].gone = th.gone
    BY <1>1, <1>5, Goes, TheThreads DEF PCs, Typed
  <2>2. Typed'
    BY <1>1, <1>3, <1>5, <2>1 DEF Typed
  <2>3. InformerTells'
    BY <1>1, <1>3, <2>1 DEF InformerTells, Dequeuing, JobOf
  <2>4. CachedJobsWait'
    BY <1>1, <1>3 DEF CachedJobsWait, LetGo, IsQueuing, get, Enqueuing
  <2> QED BY <1>1, <1>3, <1>4, <1>5, <2>1, <2>2, <2>3, <2>4, KeepConditions, KeepScheduler, KeepWork,
             KeepPods DEF IInv
<1>6. CASE /\ th.gone \/ ~IsQueuing(j)
           /\ wq' = wq \cup {j}
           /\ thread' = [thread EXCEPT !["informer"] = Idle]
  <2>1. /\ thread' \in [Threads -> ThreadType] /\ thread'["scheduler"] = thread["scheduler"]
        /\ thread'["informer"].pc = "idle"
    BY <1>1, <1>6, Moves, IdleType, TheThreads DEF Typed
  <2>2. wq' = wq \cup {j}
    BY <1>6
  <2>3. Typed'
    BY <1>1, <1>2, <1>3, <2>1, <2>2 DEF Typed
  <2>4. InformerTells'
    BY <2>1 DEF InformerTells, Dequeuing
  <2>5. CachedJobsWait'
    BY <1>1, <1>3 DEF CachedJobsWait, LetGo, IsQueuing, get, Enqueuing
  <2>6. LetGo(j)
    <3>1. CASE th.gone
      BY <1>1, <1>3, <3>1 DEF InformerTells, JobOf, LetGo
    <3>2. CASE ~th.gone
      BY <1>1, <1>2, <1>3, <1>6, <3>2 DEF InformerTells, JobOf, CachedJobsWait, Enqueuing
    <3> QED BY <3>1, <3>2
  <2>7. WorkIsLetGo'
    BY <1>1, <1>3, <2>2, <2>6 DEF WorkIsLetGo, LetGo
  <2> QED BY <1>1, <1>3, <1>4, <2>1, <2>3, <2>4, <2>5, <2>7, KeepConditions, KeepScheduler, KeepPods
      DEF IInv
<1> QED BY <1>5, <1>6 DEF EnqueueForObject, shouldSetOwnerQueueAndBreak

(* SetQueueUnitOwner. *)
LEMMA OwnerKeeps ==
  ASSUME CoordinatorAssumption, IInv, SetQueueUnitOwner
  PROVE  IInv'
<1> DEFINE j     == JobOf("informer")
           Up(u) == IF u.job = j THEN [u EXCEPT !.owner = TRUE] ELSE u
<1>1. Typed /\ ConditionsTell /\ InformerTells /\ SchedulerTells /\ CachedJobsWait
      /\ WorkIsLetGo /\ PodsOnlyAfterAdmission
  BY DEF IInv
<1>2. /\ thread["informer"].pc = "owner" /\ thread' = [thread EXCEPT !["informer"] = Idle]
      /\ queues' = [t \in Tenants |-> IF t \in index[j] THEN {Up(u) : u \in queues[t]} ELSE queues[t]]
      /\ UNCHANGED <<api, pods, events, cache, created, index, mem, names, turn, wq, admitted, budget>>
  BY DEF SetQueueUnitOwner, server, watch, picker, At
<1>3. Onward
  BY <1>2, StaysOnward
<1>4. /\ thread' \in [Threads -> ThreadType] /\ thread'["scheduler"] = thread["scheduler"]
      /\ thread'["informer"].pc = "idle"
  BY <1>1, <1>2, Moves, IdleType, TheThreads DEF Typed
<1>5. \A u \in Unit : Up(u) \in Unit /\ Up(u).job = u.job
  BY DEF Unit
<1> HIDE DEF Up
<1>6. queues' \in [Tenants -> SUBSET Unit]
  BY <1>1, <1>2, <1>5 DEF Typed
<1>7. \A t \in Tenants : \A u \in queues[t] : \E v \in queues'[t] : v.job = u.job
  BY <1>1, <1>2, <1>5 DEF Typed
<1>8. Typed'
  BY <1>1, <1>2, <1>4, <1>6 DEF Typed
<1>9. InformerTells'
  BY <1>4 DEF InformerTells, Dequeuing
<1>10. CachedJobsWait'
  <2>1. ASSUME NEW k \in Jobs, cache'[k].live
        PROVE  (LetGo(k) \/ IsQueuing(k))'
    <3>1. LetGo(k) \/ IsQueuing(k)
      BY <1>1, <1>2, <2>1 DEF CachedJobsWait, Enqueuing
    <3>2. index[k] \subseteq Tenants
      BY <1>1 DEF Typed
    <3>3. ASSUME IsQueuing(k) PROVE IsQueuing(k)'
      <4>1. PICK t \in index[k] : \E u \in queues[t] : u.job = k
        BY <3>3 DEF IsQueuing, get
      <4>2. \E v \in queues'[t] : v.job = k
        BY <1>7, <3>2, <4>1
      <4>3. t \in index'[k]
        BY <1>2
      <4> QED BY <4>2, <4>3 DEF IsQueuing, get
    <3> QED BY <1>2, <3>1, <3>3 DEF LetGo
  <2> QED BY <2>1 DEF CachedJobsWait
<1> QED BY <1>1, <1>2, <1>3, <1>4, <1>8, <1>9, <1>10, KeepConditions, KeepScheduler, KeepWork, KeepPods
    DEF IInv

-----------------------------------------------------------------------------
(***************************************************************************)
(* Dequeue, by either goroutine.                                           *)
(***************************************************************************)
(* What the invariant tells of a goroutine that dequeues. *)
LEMMA AtDequeue ==
  ASSUME IInv, NEW th \in Threads, Dequeuing(th)
  PROVE  /\ thread[th] \in ThreadType /\ thread[th].unit \in Unit /\ JobOf(th) \in Jobs
         /\ LetGo(JobOf(th)) /\ (th = "scheduler" => JobOf(th) \in admitted)
<1>1. thread[th] \in ThreadType
  BY DEF IInv, Typed
<1>2. thread[th].unit \in Unit
  BY <1>1 DEF ThreadType
<1>3. JobOf(th) \in Jobs
  BY <1>2 DEF Unit, JobOf
<1>4. th = "scheduler" => JobOf(th) \in admitted
  BY DEF IInv, SchedulerTells
<1>5. LetGo(JobOf(th))
  BY <1>4 DEF IInv, InformerTells, LetGo, Threads
<1> QED BY <1>1, <1>2, <1>3, <1>4, <1>5

(* What keeps the parts about the goroutines when one of them goes on with *)
(* the same job, or the scheduler is done.                                 *)
LEMMA GoesOn ==
  ASSUME IInv, NEW th \in Threads, Dequeuing(th), Onward, UNCHANGED cache,
         thread' \in [Threads -> ThreadType], \A o \in Threads : o # th => thread'[o] = thread[o],
         \/ /\ thread'[th].pc \in {"give", "markOut", "handle"}
            /\ thread'[th].unit.job = thread[th].unit.job /\ thread'[th].gone = thread[th].gone
         \/ th = "scheduler" /\ thread'[th].pc = "idle",
         index' = index \/ index' = [index EXCEPT ![JobOf(th)] = {}]
  PROVE  InformerTells' /\ SchedulerTells'
<1>1. LetGo(JobOf(th)) /\ (th = "scheduler" => JobOf(th) \in admitted) /\ JobOf(th) \in Jobs
  BY AtDequeue
<1>2. JobOf("informer") \in Jobs
  BY AtInformer
<1>3. th = "informer" \/ th = "scheduler"
  BY DEF Threads
<1>4. SchedulerTells'
  <2>1. CASE th = "informer"
    BY <2>1, TheThreads, KeepScheduler DEF IInv
  <2>2. CASE th = "scheduler"
    BY <1>1, <2>2 DEF SchedulerTells, Dequeuing, JobOf, Onward
  <2> QED BY <1>3, <2>1, <2>2
<1>5. InformerTells'
  <2>1. CASE th = "informer"
    <3>1. thread["informer"].pc # "idle" /\ (thread["informer"].gone => ~api[JobOf(th)].live)
          /\ (~thread["informer"].gone => cache[JobOf(th)].live)
      BY <2>1 DEF IInv, InformerTells, Dequeuing
    <3> QED BY <1>1, <2>1, <3>1 DEF InformerTells, Dequeuing, JobOf, LetGo, Onward
  <2>2. CASE th = "scheduler"
    <3>1. thread'["informer"] = thread["informer"]
      BY <2>2, TheThreads
    <3>2. JobOf("informer") # JobOf(th) => index'[JobOf("informer")] = index[JobOf("informer")]
      BY <1>1, <1>2 DEF IInv, Typed
    <3>3. JobOf("informer") = JobOf(th) => JobOf("informer") \in admitted
      BY <1>1, <2>2
    <3>4. InformerTells
      BY DEF IInv
    <3> QED BY <1>2, <3>1, <3>2, <3>3, <3>4 DEF InformerTells, Dequeuing, JobOf, LetGo, Onward
  <2> QED BY <1>3, <2>1, <2>2
<1> QED BY <1>4, <1>5

(* Where a goroutine is when it is done with a unit. *)
LEMMA DequeuedFacts ==
  ASSUME CoordinatorAssumption, IInv, NEW th \in Threads,
         thread' = [thread EXCEPT ![th] = Dequeued(th)]
  PROVE  /\ thread' \in [Threads -> ThreadType]
         /\ \A o \in Threads : o # th => thread'[o] = thread[o]
         /\ \/ /\ th = "informer" /\ thread'[th].pc = "handle"
               /\ thread'[th].unit.job = thread[th].unit.job /\ thread'[th].gone = thread[th].gone
            \/ th = "scheduler" /\ thread'[th].pc = "idle"
<1>1. thread \in [Threads -> ThreadType]
  BY DEF IInv, Typed
<1>2. CASE th = "informer"
  <2> DEFINE r == [thread[th] EXCEPT !.pc = "handle"]
  <2>1. r \in ThreadType /\ r.pc = "handle" /\ r.unit = thread[th].unit /\ r.gone = thread[th].gone
    BY <1>1 DEF ThreadType
  <2>2. thread' = [thread EXCEPT ![th] = r]
    BY <1>2 DEF Dequeued
  <2> HIDE DEF r
  <2> QED BY <1>1, <1>2, <2>1, <2>2, Moves
<1>3. CASE th # "informer"
  <2>1. th = "scheduler" /\ Dequeued(th) = Idle
    BY <1>3 DEF Threads, Dequeued
  <2> QED BY <1>1, <2>1, Moves, IdleType
<1> QED BY <1>2, <1>3

(* The unit leaves its queue. *)
LEMMA PopKeeps ==
  ASSUME CoordinatorAssumption, IInv, NEW th \in Threads, popQueueUnitFromQueue(th)
  PROVE  IInv'
<1> DEFINE j     == JobOf(th)
           found == UNION {get(t, j) : t \in index[j]}
<1>1. Typed /\ ConditionsTell /\ InformerTells /\ SchedulerTells /\ CachedJobsWait
      /\ WorkIsLetGo /\ PodsOnlyAfterAdmission
  BY DEF IInv
<1>2. /\ queues' = [t \in Tenants |-> IF t \in index[j] THEN queues[t] \ found ELSE queues[t]]
      /\ index' = [index EXCEPT ![j] = {}]
      /\ IF found = {} THEN thread' = [thread EXCEPT ![th] = Dequeued(th)]
         ELSE \E u \in found : thread' = [thread EXCEPT ![th].pc = "give", ![th].unit = u]
      /\ UNCHANGED <<api, pods, events, cache, created, mem, names, turn, wq, admitted, budget>>
  BY DEF popQueueUnitFromQueue, server, watch, picker
<1>3. Dequeuing(th)
  BY DEF popQueueUnitFromQueue, At, Dequeuing
<1>4. j \in Jobs /\ LetGo(j) /\ thread[th] \in ThreadType
  BY <1>3, AtDequeue
<1>5. Onward
  BY <1>2, StaysOnward
<1>6. \A u \in found : u \in Unit /\ u.job = j
  BY <1>1, <1>4 DEF get, Typed
<1> HIDE DEF found
<1>7. /\ thread' \in [Threads -> ThreadType]
      /\ \A o \in Threads : o # th => thread'[o] = thread[o]
      /\ \/ /\ thread'[th].pc \in {"give", "markOut", "handle"}
            /\ thread'[th].unit.job = thread[th].unit.job /\ thread'[th].gone = thread[th].gone
         \/ th = "scheduler" /\ thread'[th].pc = "idle"
  <2>1. CASE found = {}
    BY <1>2, <2>1, DequeuedFacts
  <2>2. CASE found # {}
    <3>1. PICK u \in found : thread' = [thread EXCEPT ![th].pc = "give", ![th].unit = u]
      BY <1>2, <2>2
    <3> DEFINE r == [thread[th] EXCEPT !.pc = "give", !.unit = u]
    <3>2. u \in Unit /\ u.job = thread[th].unit.job
      BY <1>6 DEF JobOf
    <3>3. r \in ThreadType /\ r.pc = "give" /\ r.unit = u /\ r.gone = thread[th].gone
      BY <1>4, <3>2 DEF ThreadType
    <3>4. thread' = [thread EXCEPT ![th] = r]
      BY <1>1, <3>1 DEF Typed, ThreadType
    <3> HIDE DEF r
    <3>5. /\ thread' \in [Threads -> ThreadType] /\ thread'[th] = r
          /\ \A o \in Threads : o # th => thread'[o] = thread[o]
      BY <1>1, <3>3, <3>4, Moves DEF Typed
    <3> QED BY <3>2, <3>3, <3>5
  <2> QED BY <2>1, <2>2
<1>8. InformerTells' /\ SchedulerTells'
  BY <1>2, <1>3, <1>5, <1>7, GoesOn
<1>9. /\ queues' \in [Tenants -> SUBSET Unit]
      /\ \A t \in Tenants : \A u \in queues[t] : u.job # j => u \in queues'[t]
  BY <1>1, <1>2, <1>6 DEF Typed
<1>10. index' \in [Jobs -> SUBSET Tenants] /\ \A k \in Jobs : k # j => index'[k] = index[k]
  BY <1>1, <1>2, <1>4 DEF Typed
<1>11. Typed'
  BY <1>1, <1>2, <1>7, <1>9, <1>10 DEF Typed
<1>12. CachedJobsWait'
  <2>1. ASSUME NEW k \in Jobs, cache'[k].live
        PROVE  (LetGo(k) \/ IsQueuing(k) \/ (Enqueuing /\ JobOf("informer") = k))'
    <3>1. CASE k = j
      BY <1>2, <1>4, <3>1 DEF LetGo
    <3>2. CASE k # j
      <4>1. LetGo(k) => LetGo(k)'
        BY <1>2 DEF LetGo
      <4>2. ASSUME IsQueuing(k) PROVE IsQueuing(k)'
        <5>1. PICK t \in index[k] : \E u \in queues[t] : u.job = k
          BY <4>2 DEF IsQueuing, get
        <5>2. t \in Tenants
          BY <1>1 DEF Typed
        <5>3. \E u \in queues'[t] : u.job = k
          BY <1>9, <3>2, <5>1, <5>2
        <5>4. t \in index'[k]
          BY <1>10, <3>2
        <5> QED BY <5>3, <5>4 DEF IsQueuing, get
      <4>3. ASSUME Enqueuing /\ JobOf("informer") = k PROVE (Enqueuing /\ JobOf("informer") = k)'
        <5>1. th # "informer"
          BY <1>3, <4>3 DEF Enqueuing, Dequeuing
        <5>2. thread'["informer"] = thread["informer"]
          BY <1>7, <5>1, TheThreads
        <5> QED BY <4>3, <5>2 DEF Enqueuing, JobOf
      <4>4. LetGo(k) \/ IsQueuing(k) \/ (Enqueuing /\ JobOf("informer") = k)
        BY <1>1, <1>2, <2>1 DEF CachedJobsWait
      <4> QED BY <4>1, <4>2, <4>3, <4>4
    <3> QED BY <3>1, <3>2
  <2> QED BY <2>1 DEF CachedJobsWait
<1> QED BY <1>1, <1>2, <1>5, <1>8, <1>11, <1>12, KeepConditions, KeepWork, KeepPods DEF IInv

(* Nobody who dequeues is just enqueuing. *)
LEMMA DequeueWaits ==
  ASSUME IInv, NEW th \in Threads, Dequeuing(th), UNCHANGED <<cache, queues, index>>, Onward,
         \A o \in Threads : o # th => thread'[o] = thread[o]
  PROVE  CachedJobsWait'
<1>1. CASE th = "informer"
  <2>1. ~Enqueuing
    BY <1>1 DEF Enqueuing, Dequeuing
  <2> QED BY <2>1 DEF IInv, CachedJobsWait, LetGo, IsQueuing, get, Onward
<1>2. CASE th # "informer"
  BY <1>2, KeepWaiting, TheThreads DEF IInv
<1> QED BY <1>1, <1>2

(* The job goes to the work queue of its controller. *)
LEMMA GiveKeeps ==
  ASSUME CoordinatorAssumption, IInv, NEW th \in Threads, AddToOwner(th)
  PROVE  IInv'
<1>1. Typed /\ ConditionsTell /\ WorkIsLetGo /\ PodsOnlyAfterAdmission
  BY DEF IInv
<1>2. /\ wq' = wq \cup {JobOf(th)} /\ Go(th, "markOut")
      /\ UNCHANGED <<api, pods, events, cache, queues, created, index, mem, names, turn, admitted, budget>>
  BY DEF AddToOwner, server, watch, core, picker
<1>3. Dequeuing(th)
  BY DEF AddToOwner, At, Dequeuing
<1>4. JobOf(th) \in Jobs /\ LetGo(JobOf(th))
  BY <1>3, AtDequeue
<1>5. Onward
  BY <1>2, StaysOnward
<1>6. /\ thread' \in [Threads -> ThreadType] /\ thread'[th].pc = "markOut"
      /\ thread'[th].unit = thread[th].unit /\ thread'[th].gone = thread[th].gone
      /\ \A o \in Threads : o # th => thread'[o] = thread[o]
  BY <1>1, <1>2, Goes DEF PCs, Typed
<1>7. InformerTells' /\ SchedulerTells'
  BY <1>2, <1>3, <1>5, <1>6, GoesOn
<1>8. Typed'
  BY <1>1, <1>2, <1>4, <1>6 DEF Typed
<1>9. CachedJobsWait'
  BY <1>2, <1>3, <1>5, <1>6, DequeueWaits
<1>10. WorkIsLetGo'
  BY <1>1, <1>2, <1>4 DEF WorkIsLetGo, LetGo
<1> QED BY <1>1, <1>2, <1>5, <1>7, <1>8, <1>9, <1>10, KeepConditions, KeepPods DEF IInv

(* The job is marked as dequeued. *)
LEMMA MarkDequeuedKeeps ==
  ASSUME CoordinatorAssumption, IInv, NEW th \in Threads, MarkDequeued(th)
  PROVE  IInv'
<1>1. Typed /\ ConditionsTell /\ WorkIsLetGo /\ PodsOnlyAfterAdmission
  BY DEF IInv
<1>2. /\ QueueStateMarker(thread[th].unit, "JobDequeued")
      /\ thread' = [thread EXCEPT ![th] = Dequeued(th)]
      /\ UNCHANGED <<pods, cache, queues, created, index, names, turn, wq, admitted>>
  BY DEF MarkDequeued, picker
<1>3. Dequeuing(th)
  BY DEF MarkDequeued, At, Dequeuing
<1>4. thread[th].unit \in Unit /\ LetGo(thread[th].unit.job)
  BY <1>3, AtDequeue DEF JobOf
<1>5. /\ api' \in [Jobs -> Object] /\ events' \in [Jobs -> Seq(Object)]
      /\ mem' \in [Jobs -> [Versions -> Seq(CL!Condition)]]
      /\ budget' \in Budget /\ budget'.edits = budget.edits
      /\ \A k \in Jobs : api'[k].ver = api[k].ver
      /\ ConditionsTell' /\ Onward
  BY <1>1, <1>2, <1>4, Marks
<1>6. /\ thread' \in [Threads -> ThreadType]
      /\ \A o \in Threads : o # th => thread'[o] = thread[o]
      /\ \/ /\ th = "informer" /\ thread'[th].pc = "handle"
            /\ thread'[th].unit.job = thread[th].unit.job /\ thread'[th].gone = thread[th].gone
         \/ th = "scheduler" /\ thread'[th].pc = "idle"
  BY <1>2, DequeuedFacts
<1>7. InformerTells' /\ SchedulerTells'
  BY <1>2, <1>3, <1>5, <1>6, GoesOn
<1>8. Typed'
  BY <1>1, <1>2, <1>5, <1>6 DEF Typed
<1>9. CachedJobsWait'
  BY <1>2, <1>3, <1>5, <1>6, DequeueWaits
<1> QED BY <1>1, <1>2, <1>5, <1>7, <1>8, <1>9, KeepWork, KeepPods DEF IInv

-----------------------------------------------------------------------------
(***************************************************************************)
(* The scheduler's steps.                                                  *)
(***************************************************************************)
(* A step that moves the scheduler, the selector and the assumptions only. *)
LEMMA ScheduleKeeps ==
  ASSUME CoordinatorAssumption, IInv,
         UNCHANGED <<api, pods, events, cache, queues, created, index, mem, wq, budget>>,
         names' \in Seq(Tenants), turn' \in Nat, admitted \subseteq admitted',
         NEW r \in ThreadType, thread' = [thread EXCEPT !["scheduler"] = r],
         r.pc \in {"pop", "give", "markOut"} => r.unit.job \in admitted'
  PROVE  IInv'
<1>1. Typed /\ ConditionsTell /\ InformerTells /\ SchedulerTells /\ CachedJobsWait
      /\ WorkIsLetGo /\ PodsOnlyAfterAdmission
  BY DEF IInv
<1>2. /\ thread' \in [Threads -> ThreadType] /\ thread'["scheduler"] = r
      /\ thread'["informer"] = thread["informer"]
  BY <1>1, Moves, TheThreads DEF Typed
<1>3. Onward
  BY DEF Onward
<1>4. Typed'
  BY <1>1, <1>2 DEF Typed
<1>5. SchedulerTells'
  BY <1>2 DEF SchedulerTells, Dequeuing, JobOf
<1> QED BY <1>1, <1>2, <1>3, <1>4, <1>5, KeepConditions, KeepInformer, KeepWaiting, KeepWork, KeepPods
    DEF IInv

(* The selector's list only gets new queues, and is not empty then. *)
LEMMA NamesType ==
  ASSUME CoordinatorAssumption, names \in Seq(Tenants), created \subseteq Tenants, created # {},
         names' \in (IF queuesChanged THEN appendNewQueues ELSE {names})
  PROVE  names' \in Seq(Tenants) /\ Len(names') \in Nat \ {0}
<1> DEFINE new == created \ Range(names)
           n   == Cardinality(new)
<1>1. CASE queuesChanged
  <2>1. n \in Nat
    <3>1. new \subseteq Tenants /\ IsFiniteSet(Tenants)
      BY DEF CoordinatorAssumption
    <3> HIDE DEF new
    <3> QED BY <3>1, FS_Subset, FS_CardinalityType
  <2>2. PICK s \in [1..n -> new] : Range(s) = new /\ names' = names \o s
    BY <1>1 DEF appendNewQueues
  <2> HIDE DEF n
  <2>3. s \in Seq(Tenants) /\ Len(s) = n
    BY <2>1
  <2>4. names' \in Seq(Tenants) /\ Len(names') = Len(names) + n
    BY <2>2, <2>3, ConcatProperties
  <2>5. Len(names) # 0 \/ n # 0
    <3>1. SUFFICES ASSUME Len(names) = 0, n = 0 PROVE FALSE
      OBVIOUS
    <3>2. names = << >>
      BY <3>1
    <3>3. Range(names) = {}
      BY <3>2 DEF Range
    <3>4. new # {}
      BY <3>3
    <3>5. DOMAIN s = {}
      BY <3>1
    <3> HIDE DEF new
    <3> QED BY <2>2, <3>4, <3>5 DEF Range
  <2> QED BY <2>1, <2>4, <2>5
<1>2. CASE ~queuesChanged
  BY <1>2 DEF queuesChanged
<1> QED BY <1>1, <1>2

(* A cycle selects a queue. *)
LEMMA SelectKeeps ==
  ASSUME CoordinatorAssumption, IInv, nextQueueToSchedule
  PROVE  IInv'
<1> DEFINE tenant == names'[(turn % Len(names')) + 1]
           r      == [Idle EXCEPT !.pc = "scan", !.view = queues[tenant]]
<1>1. Typed
  BY DEF IInv
<1>2. /\ created # {} /\ names' \in (IF queuesChanged THEN appendNewQueues ELSE {names})
      /\ turn' = (turn + 1) % Period /\ thread' = [thread EXCEPT !["scheduler"] = r]
      /\ UNCHANGED <<api, pods, events, cache, queues, created, index, mem, wq, admitted, budget>>
  BY DEF nextQueueToSchedule, server, watch, core
<1>3. names' \in Seq(Tenants) /\ Len(names') \in Nat \ {0}
  BY <1>1, <1>2, NamesType DEF Typed
<1>4. turn' \in Nat
  <2>1. turn + 1 \in Nat /\ Period \in Nat \ {0}
    BY <1>1 DEF Typed, CoordinatorAssumption
  <2> QED BY <1>2, <2>1
<1>5. tenant \in Tenants
  <2>1. turn \in Nat
    BY <1>1 DEF Typed
  <2>2. turn % Len(names') \in 0..Len(names') - 1
    BY <1>3, <2>1
  <2>3. (turn % Len(names')) + 1 \in 1..Len(names')
    BY <1>3, <2>2
  <2> QED BY <1>3, <2>3
<1> HIDE DEF tenant
<1>6. queues[tenant] \subseteq Unit
  BY <1>1, <1>5 DEF Typed
<1>7. r \in ThreadType /\ r.pc = "scan"
  BY <1>6, IdleType DEF ThreadType
<1> HIDE DEF r
<1> QED BY <1>2, <1>3, <1>4, <1>7, ScheduleKeeps

(* Where the scheduler stands, as the invariant tells it. *)
LEMMA AtScheduler ==
  ASSUME IInv
  PROVE  /\ thread["scheduler"] \in ThreadType /\ names \in Seq(Tenants) /\ turn \in Nat
         /\ thread["scheduler"].view \subseteq Unit /\ thread["scheduler"].cands \subseteq Unit
BY TheThreads DEF IInv, Typed, ThreadType

(* A unit without an owner is skipped. *)
LEMMA SkipKeeps ==
  ASSUME CoordinatorAssumption, IInv, NEW u \in Unit, SkipUnowned(u)
  PROVE  IInv'
<1> DEFINE th == thread["scheduler"]
           r  == [th EXCEPT !.view = th.view \ {u}]
<1>1. /\ th.pc = "scan" /\ thread' = [thread EXCEPT !["scheduler"].view = @ \ {u}]
      /\ UNCHANGED <<api, pods, events, cache, queues, created, index, mem, names, turn, wq, admitted, budget>>
  BY DEF SkipUnowned, Scanning, At, server, watch, core, picker
<1>2. thread' = [thread EXCEPT !["scheduler"] = r]
  BY <1>1
<1>3. r \in ThreadType /\ r.pc = "scan"
  BY <1>1, AtScheduler DEF ThreadType
<1> HIDE DEF r
<1> QED BY <1>1, <1>2, <1>3, AtScheduler, ScheduleKeeps

(* A unit is filtered. *)
LEMMA FilterKeeps ==
  ASSUME CoordinatorAssumption, IInv, NEW u \in Unit, isQueueUnitAcceptable(u)
  PROVE  IInv'
<1> DEFINE th == thread["scheduler"]
           Got(counted) == IF Filter(u, counted) THEN th.cands \cup {u} ELSE th.cands
           r(counted) == [th EXCEPT !.pc = "scan", !.view = th.view \ {u}, !.cands = Got(counted)]
<1>1. UNCHANGED <<api, pods, events, cache, queues, created, index, mem, names, turn, wq, admitted, budget>>
  BY DEF isQueueUnitAcceptable, server, watch, core
<1>2. PICK counted \in invalidateAssumedQuotas(u.tenant) :
        thread' = [thread EXCEPT
            !["scheduler"].pc = "scan",
            !["scheduler"].view = @ \ {u},
            !["scheduler"].cands = IF Filter(u, counted) THEN @ \cup {u} ELSE @]
  BY DEF isQueueUnitAcceptable
<1>3. Got(counted) \subseteq Unit
  BY AtScheduler
<1>4. thread \in [Threads -> ThreadType]
  BY DEF IInv, Typed
<1>5. thread' = [thread EXCEPT !["scheduler"] = r(counted)]
  BY <1>2, <1>4, TheThreads DEF ThreadType
<1> HIDE DEF Got
<1>6. r(counted) \in ThreadType /\ r(counted).pc = "scan"
  BY <1>3, AtScheduler DEF ThreadType
<1> HIDE DEF r
<1> QED BY <1>1, <1>5, <1>6, AtScheduler, ScheduleKeeps

(* A cycle ends without a unit. *)
LEMMA EndKeeps ==
  ASSUME CoordinatorAssumption, IInv, CycleEnds
  PROVE  IInv'
<1>1. /\ thread' = [thread EXCEPT !["scheduler"] = Idle]
      /\ UNCHANGED <<api, pods, events, cache, queues, created, index, mem, names, turn, wq, admitted, budget>>
  BY DEF CycleEnds, server, watch, core, picker
<1> QED BY <1>1, IdleType, AtScheduler, ScheduleKeeps

(* PreDequeue: the selected job is admitted. *)
LEMMA PreDequeueKeeps ==
  ASSUME CoordinatorAssumption, IInv, PreDequeue
  PROVE  IInv'
<1>1. UNCHANGED <<api, pods, events, cache, queues, created, index, mem, names, turn, wq, budget>>
  BY DEF PreDequeue, server, watch, core
<1>2. PICK u \in selectQueueUnit(thread["scheduler"].cands) :
        /\ admitted' = admitted \cup {u.job}
        /\ thread' = [thread EXCEPT !["scheduler"] = [Idle EXCEPT !.pc = "pop", !.unit = u]]
  BY DEF PreDequeue
<1> DEFINE r == [Idle EXCEPT !.pc = "pop", !.unit = u]
<1>3. u \in Unit
  BY AtScheduler DEF selectQueueUnit
<1>4. r \in ThreadType /\ r.unit = u
  BY <1>3, IdleType DEF ThreadType
<1>5. thread' = [thread EXCEPT !["scheduler"] = r]
  BY <1>2
<1> HIDE DEF r
<1> QED BY <1>1, <1>2, <1>4, <1>5, AtScheduler, ScheduleKeeps

(* Remark, before the unit is filtered. *)
LEMMA RemarkKeeps ==
  ASSUME CoordinatorAssumption, IInv, NEW u \in Unit, Remark(u)
  PROVE  IInv'
<1> DEFINE th == thread["scheduler"]
           r  == [th EXCEPT !.pc = "filter", !.unit = u]
<1>1. Typed /\ ConditionsTell /\ InformerTells /\ SchedulerTells /\ CachedJobsWait
      /\ WorkIsLetGo /\ PodsOnlyAfterAdmission
  BY DEF IInv
<1>2. /\ QueueStateMarker(u, "JobEnqueued")
      /\ thread' = [thread EXCEPT !["scheduler"].pc = "filter", !["scheduler"].unit = u]
      /\ UNCHANGED <<pods, cache, queues, created, index, names, turn, wq, admitted>>
  BY DEF Remark, picker
<1>3. thread' = [thread EXCEPT !["scheduler"] = r]
  BY <1>1, <1>2, TheThreads DEF Typed, ThreadType
<1>4. r \in ThreadType /\ r.pc = "filter"
  BY AtScheduler DEF ThreadType
<1> HIDE DEF r
<1>5. /\ thread' \in [Threads -> ThreadType] /\ thread'["scheduler"] = r
      /\ thread'["informer"] = thread["informer"]
  BY <1>1, <1>3, <1>4, Moves, TheThreads DEF Typed
<1>6. /\ api' \in [Jobs -> Object] /\ events' \in [Jobs -> Seq(Object)]
      /\ mem' \in [Jobs -> [Versions -> Seq(CL!Condition)]]
      /\ budget' \in Budget /\ budget'.edits = budget.edits
      /\ \A k \in Jobs : api'[k].ver = api[k].ver
      /\ ConditionsTell' /\ Onward
  BY <1>1, <1>2, Marks
<1>7. Typed'
  BY <1>1, <1>2, <1>5, <1>6 DEF Typed
<1>8. SchedulerTells'
  BY <1>4, <1>5 DEF SchedulerTells, Dequeuing
<1> QED BY <1>1, <1>2, <1>5, <1>6, <1>7, <1>8, KeepInformer, KeepWaiting, KeepWork, KeepPods DEF IInv

-----------------------------------------------------------------------------
(***************************************************************************)
(* The engine, the users and the restarts.                                 *)
(***************************************************************************)
LEMMA ReconcileKeeps ==
  ASSUME CoordinatorAssumption, IInv, NEW j \in Jobs, Reconcile(j)
  PROVE  IInv'
<1>1. Typed /\ ConditionsTell /\ InformerTells /\ SchedulerTells /\ CachedJobsWait
      /\ WorkIsLetGo /\ PodsOnlyAfterAdmission
  BY DEF IInv
<1>2. /\ j \in wq /\ wq' \subseteq wq
      /\ UNCHANGED <<api, events, cache, queues, created, index, mem, names, turn, thread, admitted, budget>>
  BY DEF Reconcile, watch, core, picker
<1>3. Onward
  BY <1>2, StaysOnward
<1>4. /\ pods' \in [Jobs -> Nat]
      /\ pods' # pods => api[j].live /\ \A k \in Jobs : k # j => pods'[k] = pods[k]
  BY <1>1 DEF Reconcile, Typed
<1>5. Typed'
  BY <1>1, <1>2, <1>4 DEF Typed
<1>6. PodsOnlyAfterAdmission'
  <2>1. CASE pods' = pods
    BY <1>1, <1>3, <2>1, KeepPods
  <2>2. CASE pods' # pods
    <3>1. j \in admitted
      BY <1>1, <1>2, <1>4, <2>2 DEF WorkIsLetGo, LetGo
    <3>2. DOMAIN pods' = Jobs /\ DOMAIN pods = Jobs
      BY <1>1, <1>4 DEF Typed
    <3> QED BY <1>1, <1>2, <1>4, <2>2, <3>1, <3>2 DEF PodsOnlyAfterAdmission
  <2> QED BY <2>1, <2>2
<1> QED BY <1>1, <1>2, <1>3, <1>5, <1>6, KeepConditions, KeepInformer, KeepScheduler, KeepWaiting,
           KeepWork DEF IInv

(* A step that only writes an object. *)
LEMMA WriteKeeps ==
  ASSUME CoordinatorAssumption, IInv, NEW j \in Jobs, NEW obj \in Object, Write(j, obj),
         obj.live => api[j].live, Says(obj.conds, j),
         budget' \in Budget, obj.ver + budget'.edits <= MaxEdits, budget'.edits <= budget.edits,
         UNCHANGED <<pods, cache, queues, created, index, mem, names, turn, thread, wq, admitted>>
  PROVE  IInv'
<1>1. Typed /\ ConditionsTell /\ InformerTells /\ SchedulerTells /\ CachedJobsWait
      /\ WorkIsLetGo /\ PodsOnlyAfterAdmission
  BY DEF IInv
<1>2. /\ api' \in [Jobs -> Object] /\ events' \in [Jobs -> Seq(Object)]
      /\ api'[j] = obj /\ \A k \in Jobs : k # j => api'[k] = api[k]
      /\ ConditionsTell' /\ Onward
  BY <1>1, Writes
<1>3. ASSUME NEW k \in Jobs PROVE api'[k].ver + budget'.edits <= MaxEdits
  <2>1. api[k].ver \in Nat /\ budget.edits \in Nat /\ budget'.edits \in Nat /\ MaxEdits \in Nat
    BY <1>1 DEF Typed, Object, Versions, Budget, CoordinatorAssumption
  <2>2. api[k].ver + budget.edits <= MaxEdits
    BY <1>1 DEF Typed
  <2> QED BY <1>2, <2>1, <2>2
<1>4. Typed'
  BY <1>1, <1>2, <1>3 DEF Typed
<1> QED BY <1>1, <1>2, <1>4, KeepInformer, KeepScheduler, KeepWaiting, KeepWork, KeepPods DEF IInv

(* A job and the edits still to come. *)
LEMMA ObjectFacts ==
  ASSUME CoordinatorAssumption, IInv, NEW j \in Jobs
  PROVE  /\ api[j] \in Object /\ api[j].conds \in Seq(CL!Condition) /\ api[j].tenant \in Tenants
         /\ api[j].live \in BOOLEAN
         /\ api[j].ver \in Nat /\ budget \in Budget /\ budget.edits \in Nat
         /\ api[j].ver + budget.edits <= MaxEdits /\ MaxEdits \in Nat /\ Says(api[j].conds, j)
<1>1. Typed /\ ConditionsTell
  BY DEF IInv
<1>2. api[j] \in Object /\ budget \in Budget /\ api[j].ver + budget.edits <= MaxEdits
  BY <1>1 DEF Typed
<1>3. MaxEdits \in Nat
  BY DEF CoordinatorAssumption
<1> QED BY <1>1, <1>2, <1>3 DEF Object, Budget, Versions, ConditionsTell

(* The engine writes conditions. *)
LEMMA StatusKeeps ==
  ASSUME CoordinatorAssumption, IInv, NEW j \in Jobs, UpdateJobStatus(j)
  PROVE  IInv'
<1> DEFINE t     == IF j \in done THEN "Succeeded" ELSE "Running"
           why   == IF j \in done THEN "JobSucceeded" ELSE "JobRunning"
           c     == CL!newCondition(t, why)
           conds == CL!setCondition(api[j].conds, c)
           obj   == [api[j] EXCEPT !.conds = conds]
<1>1. /\ api[j].live /\ pods[j] = Request[j] /\ Write(j, obj)
      /\ UNCHANGED <<pods, cache, queues, created, index, mem, names, turn, thread, wq, admitted, budget>>
  BY DEF UpdateJobStatus, core, picker
<1>2. c \in CL!Condition
  BY EngineTypes
<1> HIDE DEF c
<1>3. conds \in Seq(CL!Condition)
  BY <1>2, ObjectFacts, SetStaysList
<1> HIDE DEF conds
<1>4. obj \in Object /\ obj.conds = conds /\ obj.live = api[j].live /\ obj.ver = api[j].ver
  BY <1>3, ObjectFacts DEF Object
<1> HIDE DEF obj
<1>5. j \in admitted
  <2>1. Request[j] \in 1..Hard /\ Hard \in Nat
    BY DEF CoordinatorAssumption
  <2>2. j \in DOMAIN pods /\ PodsOnlyAfterAdmission
    BY DEF IInv, Typed
  <2> QED BY <1>1, <2>1, <2>2 DEF PodsOnlyAfterAdmission
<1>6. Says(obj.conds, j)
  BY <1>5 DEF Says
<1>7. budget' \in Budget /\ budget'.edits <= budget.edits /\ obj.ver + budget'.edits <= MaxEdits
  BY <1>1, <1>4, ObjectFacts
<1> QED BY <1>1, <1>4, <1>6, <1>7, WriteKeeps

(* Pods complete. *)
LEMMA CompleteKeeps ==
  ASSUME CoordinatorAssumption, IInv, NEW j \in Jobs, PodsComplete(j)
  PROVE  IInv'
<1>1. Typed /\ ConditionsTell /\ InformerTells /\ SchedulerTells /\ CachedJobsWait
      /\ WorkIsLetGo /\ PodsOnlyAfterAdmission
  BY DEF IInv
<1>2. UNCHANGED <<api, pods, events, cache, queues, created, index, mem, names, turn, thread, wq, admitted, budget>>
  BY DEF PodsComplete, watch, core, picker
<1>3. Onward
  BY <1>2, StaysOnward
<1>4. Typed'
  BY <1>1, <1>2 DEF Typed
<1> QED BY <1>1, <1>2, <1>3, <1>4, KeepConditions, KeepInformer, KeepScheduler, KeepWaiting, KeepWork,
           KeepPods DEF IInv

(* Pods of a deleted job are collected. *)
LEMMA CollectKeeps ==
  ASSUME CoordinatorAssumption, IInv, NEW j \in Jobs, PodsCollected(j)
  PROVE  IInv'
<1>1. Typed /\ ConditionsTell /\ InformerTells /\ SchedulerTells /\ CachedJobsWait
      /\ WorkIsLetGo /\ PodsOnlyAfterAdmission
  BY DEF IInv
<1>2. /\ pods' = [pods EXCEPT ![j] = 0]
      /\ UNCHANGED <<api, events, cache, queues, created, index, mem, names, turn, thread, wq, admitted, budget>>
  BY DEF PodsCollected, watch, core, picker
<1>3. Onward
  BY <1>2, StaysOnward
<1>4. /\ pods' \in [Jobs -> Nat] /\ DOMAIN pods = Jobs /\ DOMAIN pods' = Jobs
      /\ \A k \in Jobs : pods'[k] = pods[k] \/ pods'[k] = 0
  BY <1>1, <1>2 DEF Typed
<1>5. Typed'
  BY <1>1, <1>2, <1>4 DEF Typed
<1>6. PodsOnlyAfterAdmission'
  BY <1>1, <1>2, <1>4 DEF PodsOnlyAfterAdmission
<1> QED BY <1>1, <1>2, <1>3, <1>5, <1>6, KeepConditions, KeepInformer, KeepScheduler, KeepWaiting, KeepWork
    DEF IInv

(* A user edits a job. *)
LEMMA EditKeeps ==
  ASSUME CoordinatorAssumption, IInv, NEW j \in Jobs, UserEdits(j)
  PROVE  IInv'
<1>1. /\ budget.edits > 0 /\ budget' = [budget EXCEPT !.edits = @ - 1]
      /\ UNCHANGED <<pods, cache, queues, created, index, mem, names, turn, thread, wq, admitted>>
  BY DEF UserEdits, core, picker
<1>2. PICK t \in IF MayMove THEN Tenants ELSE {api[j].tenant} :
        Write(j, [api[j] EXCEPT !.ver = @ + 1, !.tenant = t])
  BY DEF UserEdits
<1>3. t \in Tenants
  BY ObjectFacts
<1> DEFINE obj == [api[j] EXCEPT !.ver = api[j].ver + 1, !.tenant = t]
<1>4. api[j].ver + 1 \in Versions
  BY <1>1, ObjectFacts DEF Versions
<1>5. obj \in Object /\ obj.conds = api[j].conds /\ obj.live = api[j].live /\ obj.ver = api[j].ver + 1
  BY <1>3, <1>4, ObjectFacts DEF Object
<1>6. Write(j, obj)
  BY <1>2
<1> HIDE DEF obj
<1>7. budget' \in Budget /\ budget'.edits = budget.edits - 1
  <2>1. budget.edits - 1 \in Nat
    BY <1>1, ObjectFacts
  <2> QED BY <1>1, <2>1, ObjectFacts DEF Budget
<1>8. budget'.edits <= budget.edits /\ obj.ver + budget'.edits <= MaxEdits /\ Says(obj.conds, j)
  BY <1>5, <1>7, ObjectFacts
<1> QED BY <1>1, <1>5, <1>6, <1>7, <1>8, WriteKeeps

(* A user deletes a job. *)
LEMMA UserDeleteKeeps ==
  ASSUME CoordinatorAssumption, IInv, NEW j \in Jobs, UserDeletes(j)
  PROVE  IInv'
<1> DEFINE obj == [api[j] EXCEPT !.live = FALSE]
<1>1. /\ Write(j, obj)
      /\ UNCHANGED <<pods, cache, queues, created, index, mem, names, turn, thread, wq, admitted, budget>>
  BY DEF UserDeletes, core, picker
<1>2. obj \in Object /\ obj.conds = api[j].conds /\ ~obj.live /\ obj.ver = api[j].ver
  BY ObjectFacts DEF Object
<1> HIDE DEF obj
<1>3. /\ budget' \in Budget /\ budget'.edits <= budget.edits /\ obj.ver + budget'.edits <= MaxEdits
      /\ Says(obj.conds, j)
  BY <1>1, <1>2, ObjectFacts
<1> QED BY <1>1, <1>2, <1>3, WriteKeeps

(* A job as users create it. *)
LEMMA NewJobType ==
  ASSUME CoordinatorAssumption, NEW j \in Jobs
  PROVE  NewJob(j) \in Object /\ NotCached \in [Jobs -> Object] /\ ~NotCached[j].live
         /\ NewJob(j).conds = << >> /\ NewJob(j).live /\ NewJob(j).ver = 0
<1>1. \A k \in Jobs : NewJob(k) \in Object
  BY DEF NewJob, Object, Versions, CoordinatorAssumption
<1>2. \A k \in Jobs : [NewJob(k) EXCEPT !.live = FALSE] \in Object
  BY <1>1 DEF Object
<1>3. NotCached \in [Jobs -> Object] /\ ~NotCached[j].live
  BY <1>2 DEF NotCached, NewJob
<1> QED BY <1>1, <1>3 DEF NewJob

(* A restarted manager starts from the server. *)
LEMMA RestartKeeps ==
  ASSUME CoordinatorAssumption, IInv, Restart, budget' \in Budget, budget'.edits = budget.edits
  PROVE  IInv'
<1>1. Typed /\ ConditionsTell /\ PodsOnlyAfterAdmission
  BY DEF IInv
<1>2. /\ events' = [j \in Jobs |-> IF api[j].live THEN <<api[j]>> ELSE << >>]
      /\ cache' = NotCached
      /\ queues' = [t \in Tenants |-> {}] /\ created' = {} /\ index' = [j \in Jobs |-> {}]
      /\ mem' = [j \in Jobs |-> [v \in Versions |-> << >>]]
      /\ names' = << >> /\ turn' = 0
      /\ thread' = [th \in Threads |-> Idle] /\ wq' = {}
      /\ UNCHANGED <<api, pods, admitted>>
  BY DEF Restart, server
<1>3. Onward
  BY <1>2, StaysOnward
<1>4. \A j \in Jobs : ~cache'[j].live /\ cache' \in [Jobs -> Object]
  BY <1>2, NewJobType
<1>5. cache' \in [Jobs -> Object]
  BY <1>4 DEF CoordinatorAssumption
<1>6. /\ thread' \in [Threads -> ThreadType]
      /\ thread'["informer"].pc = "idle" /\ thread'["scheduler"].pc = "idle"
  BY <1>2, IdleType, TheThreads
<1>7. events' \in [Jobs -> Seq(Object)]
  BY <1>1, <1>2 DEF Typed
<1>8. ASSUME NEW j \in Jobs, NEW i \in DOMAIN events'[j]
      PROVE  events'[j][i] = api[j] /\ api[j].live
  BY <1>1, <1>2 DEF Typed
<1>9. ConditionsTell'
  BY <1>1, <1>2, <1>8 DEF ConditionsTell, Says
<1>10. mem' \in [Jobs -> [Versions -> Seq(CL!Condition)]]
  BY <1>2
<1>11. Typed'
  BY <1>1, <1>2, <1>5, <1>6, <1>7, <1>10 DEF Typed
<1>12. InformerTells' /\ SchedulerTells'
  BY <1>6 DEF InformerTells, SchedulerTells, Dequeuing
<1>13. CachedJobsWait'
  BY <1>4 DEF CachedJobsWait
<1>14. WorkIsLetGo'
  BY <1>2 DEF WorkIsLetGo
<1> QED BY <1>1, <1>2, <1>3, <1>9, <1>11, <1>12, <1>13, <1>14, KeepPods DEF IInv

(* A crash ends both goroutines. *)
LEMMA CrashKeeps ==
  ASSUME CoordinatorAssumption, IInv, Crash \/ Panic
  PROVE  IInv'
<1>1. budget \in Budget
  BY DEF IInv, Typed
<1>2. CASE Crash
  <2>1. Restart /\ budget.crashes > 0 /\ budget' = [budget EXCEPT !.crashes = @ - 1]
    BY <1>2 DEF Crash
  <2>2. budget.crashes - 1 \in Nat
    BY <1>1, <2>1 DEF Budget
  <2>3. budget' \in Budget /\ budget'.edits = budget.edits
    BY <1>1, <2>1, <2>2 DEF Budget
  <2> QED BY <2>1, <2>3, RestartKeeps
<1>3. CASE Panic
  BY <1>1, <1>3, RestartKeeps DEF Panic
<1> QED BY <1>2, <1>3

-----------------------------------------------------------------------------
(* At the start nothing is cached or queued. *)
LEMMA InitHolds ==
  ASSUME CoordinatorAssumption, Init
  PROVE  IInv
<1>1. \A j \in Jobs : NewJob(j) \in Object /\ NotCached \in [Jobs -> Object] /\ ~NotCached[j].live
         /\ NewJob(j).conds = << >> /\ NewJob(j).live /\ NewJob(j).ver = 0
  BY NewJobType
<1>2. cache \in [Jobs -> Object] /\ \A j \in Jobs : ~cache[j].live
  BY <1>1 DEF Init, CoordinatorAssumption
<1>3. /\ thread \in [Threads -> ThreadType]
      /\ thread["informer"].pc = "idle" /\ thread["scheduler"].pc = "idle"
  BY IdleType, TheThreads DEF Init
<1>4. api \in [Jobs -> Object] /\ events \in [Jobs -> Seq(Object)]
  BY <1>1 DEF Init
<1>5. budget \in Budget /\ budget.edits = MaxEdits /\ MaxEdits \in Nat
  BY DEF Init, Budget, CoordinatorAssumption
<1>6. \A j \in Jobs : api[j].ver + budget.edits <= MaxEdits
  BY <1>1, <1>5 DEF Init
<1>7. mem \in [Jobs -> [Versions -> Seq(CL!Condition)]]
  BY DEF Init
<1>8. Typed
  BY <1>2, <1>3, <1>4, <1>5, <1>6, <1>7 DEF Typed, Init
<1>9. \A j : Says(<< >>, j)
  BY DEF Says, CL!NeedEnqueueToCoordinator
<1>10. ConditionsTell
  <2>1. ASSUME NEW j \in Jobs
        PROVE  /\ Says(api[j].conds, j)
               /\ \A i \in DOMAIN events[j] : Says(events[j][i].conds, j) /\ events[j][i].live
    <3>1. api[j] = NewJob(j) /\ events[j] = <<NewJob(j)>>
      BY DEF Init
    <3> QED BY <1>1, <1>9, <3>1
  <2> QED BY <2>1 DEF ConditionsTell
<1>11. InformerTells /\ SchedulerTells
  BY <1>3 DEF InformerTells, SchedulerTells, Dequeuing
<1>12. CachedJobsWait
  BY <1>2 DEF CachedJobsWait
<1> QED BY <1>8, <1>10, <1>11, <1>12 DEF IInv, WorkIsLetGo, PodsOnlyAfterAdmission, Init

(* Every step keeps the invariant. *)
LEMMA StepKeeps ==
  ASSUME CoordinatorAssumption, IInv, [Next]_vars
  PROVE  IInv'
<1>1. CASE UNCHANGED vars
  <2>1. UNCHANGED <<api, pods, events, cache, queues, created, index, mem, names, turn, thread, wq,
                    admitted, budget>>
    BY <1>1 DEF vars, server, watch, core, picker
  <2>2. Onward
    BY <2>1, StaysOnward
  <2>3. Typed'
    BY <2>1 DEF IInv, Typed
  <2> QED BY <2>1, <2>2, <2>3, KeepConditions, KeepInformer, KeepScheduler, KeepWaiting, KeepWork, KeepPods
      DEF IInv
<1>2. CASE Informer
  BY <1>2, CreateKeeps, UpdateKeeps, DeleteKeeps, InitializeKeeps, MarkEnqueuedKeeps, AddKeeps,
     EnqueueKeeps, OwnerKeeps, PopKeeps, GiveKeeps, MarkDequeuedKeeps, TheThreads DEF Informer, Dequeue
<1>3. CASE schedule
  BY <1>3, SelectKeeps, SkipKeeps, RemarkKeeps, FilterKeeps, EndKeeps, PreDequeueKeeps,
     PopKeeps, GiveKeeps, MarkDequeuedKeeps, TheThreads DEF schedule, Dequeue
<1>4. CASE Engine
  BY <1>4, ReconcileKeeps, StatusKeeps DEF Engine
<1>5. CASE User
  BY <1>5, EditKeeps, UserDeleteKeeps DEF User
<1>6. CASE Crash \/ Panic
  BY <1>6, CrashKeeps
<1>7. CASE \E j \in Jobs : PodsComplete(j) \/ PodsCollected(j)
  BY <1>7, CompleteKeeps, CollectKeeps
<1> QED BY <1>1, <1>2, <1>3, <1>4, <1>5, <1>6, <1>7 DEF Next

(***************************************************************************)
(* No job gets a pod before a scheduling cycle has selected it: for any    *)
(* jobs, queues, quota and priorities, any number of edits, queue changes, *)
(* deletions, patches that fail and restarts, and any interleaving of the  *)
(* informer and the scheduler (pkg/jobcoordinator, eventhandler.go).       *)
(***************************************************************************)
THEOREM AdmissionHolds ==
  ASSUME CoordinatorAssumption
  PROVE  Spec => []PodsOnlyAfterAdmission
<1>1. Init => IInv
  BY InitHolds
<1>2. IInv /\ [Next]_vars => IInv'
  BY StepKeeps
<1>3. IInv => PodsOnlyAfterAdmission
  BY DEF IInv
<1> QED BY <1>1, <1>2, <1>3, PTL DEF Spec

-----------------------------------------------------------------------------
(***************************************************************************)
(* The quota: what is kept besides IInv.                                   *)
(***************************************************************************)
(* The informer knows the job, or the job is gone. *)
Seen(j) == cache[j].live \/ ~api[j].live

SeenBy(r) ==
  /\ \A u \in r.view \cup r.cands : Seen(u.job)
  /\ r.pc = "filter" => Seen(r.unit.job)

(* Every unit in a queue or with the scheduler is about such a job, and so *)
(* is every selection: an assumed job that is not in the cache is gone.    *)
UnitsAreSeen ==
  /\ \A t \in Tenants : \A u \in queues[t] : Seen(u.job)
  /\ SeenBy(thread["scheduler"])
  /\ \A j \in admitted : Seen(j)

(* The job has all its pods, or is gone. *)
Filled(j) == pods[j] = Request[j] \/ ~api[j].live

(* Conditions that end the assumption about a job, wherever they are kept, *)
(* tell of a job whose pods the quota counts.                              *)
Decided(conds) == \E t \in {"Running", "Failed", "Succeeded"} : CL!HasCondition(conds, t)

Fits(conds, j) == Decided(conds) => Filled(j)

WatchFits ==
  \A j \in Jobs : /\ Fits(api[j].conds, j) /\ Fits(cache[j].conds, j)
                  /\ \A i \in DOMAIN events[j] : Fits(events[j][i].conds, j)

MemoryFits == \A j \in Jobs : \A v \in Versions : Fits(mem[j][v], j)

(* What a job that is let go asks for is used or assumed. *)
CommittedAreCounted ==
  \A j \in Committed : pods[j] = Request[j] \/ \E t \in Tenants : j \in assumed[t]

(* Each candidate of a cycle fits into the quota beside them. *)
CandidatesFit ==
  \A u \in thread["scheduler"].cands : SumFunctionOnSet(Request, Committed \cup {u.job}) <= Hard

Within == SumFunctionOnSet(Request, Committed) <= Hard

Safe == UnitsAreSeen /\ WatchFits /\ MemoryFits /\ CommittedAreCounted /\ CandidatesFit /\ Within

(* What TypeOK says and Typed does not. *)
Ranges ==
  /\ done \subseteq Jobs /\ admitted \subseteq Jobs /\ restarted \in BOOLEAN
  /\ assumed \in [Tenants -> SUBSET Jobs]
  /\ IsInjective(names) /\ turn \in 0..Period - 1
  /\ budget \in [edits : 0..MaxEdits, faults : 0..MaxFaults, crashes : 0..MaxCrashes]

-----------------------------------------------------------------------------
(***************************************************************************)
(* Steps that disturb little.                                              *)
(***************************************************************************)
(* What is seen stays seen, what is filled stays filled, and no job comes  *)
(* back or is done no longer.                                              *)
Calm ==
  /\ \A j \in Jobs : Seen(j) => Seen(j)'
  /\ \A j \in Jobs : Filled(j) => Filled(j)'
  /\ \A j \in Jobs : api'[j].live => api[j].live
  /\ done \subseteq done'

(* A step that leaves the jobs, their pods and the cache alone. *)
LEMMA StaysCalm ==
  ASSUME UNCHANGED <<api, pods, done, cache>>
  PROVE  Calm
BY DEF Calm, Seen, Filled

(* The jobs that were let go can only get fewer. *)
LEMMA FewerCommitted ==
  ASSUME Ranges, Calm, UNCHANGED admitted
  PROVE  Committed' \subseteq Committed /\ Committed \subseteq Jobs
BY DEF Committed, Calm, Ranges

(* And so does what they ask for. *)
LEMMA LessAsked ==
  ASSUME CoordinatorAssumption, NEW B \in SUBSET Jobs, NEW A \in SUBSET B,
         SumFunctionOnSet(Request, B) <= Hard
  PROVE  SumFunctionOnSet(Request, A) <= Hard
<1>1. IsFiniteSet(Jobs) /\ Request \in [Jobs -> Nat] /\ Hard \in Nat
  <2>1. Hard \in Nat /\ Request \in [Jobs -> 1..Hard] /\ IsFiniteSet(Jobs)
    BY DEF CoordinatorAssumption
  <2> QED BY <2>1
<1>2. SumFunctionOnSet(Request, A) <= SumFunctionOnSet(Request, B)
  BY <1>1, SumPart
<1>3. SumFunctionOnSet(Request, A) \in Nat /\ SumFunctionOnSet(Request, B) \in Nat
  BY <1>1, SumNat
<1> QED BY <1>1, <1>2, <1>3

(* A calm step that selects nothing. *)
LEMMA QuietStep ==
  ASSUME CoordinatorAssumption, IInv, Ranges, Safe, Calm, UNCHANGED <<admitted, assumed>>,
         UnitsAreSeen', WatchFits', MemoryFits',
         thread'["scheduler"].cands \subseteq thread["scheduler"].cands
  PROVE  Safe'
<1>1. Committed' \subseteq Committed /\ Committed \subseteq Jobs
  BY FewerCommitted
<1>2. CommittedAreCounted'
  <2>1. ASSUME NEW j \in Committed'
        PROVE  pods'[j] = Request[j] \/ \E t \in Tenants : j \in assumed'[t]
    <3>1. j \in Committed /\ j \in Jobs /\ api'[j].live /\ api[j].live
      BY <1>1 DEF Committed
    <3>2. pods[j] = Request[j] \/ \E t \in Tenants : j \in assumed[t]
      BY <3>1 DEF Safe, CommittedAreCounted
    <3>3. pods[j] = Request[j] => pods'[j] = Request[j]
      BY <3>1 DEF Calm, Filled
    <3> QED BY <3>2, <3>3
  <2> QED BY <2>1 DEF CommittedAreCounted
<1>3. CandidatesFit'
  <2>1. ASSUME NEW u \in thread'["scheduler"].cands
        PROVE  SumFunctionOnSet(Request, Committed' \cup {u.job}) <= Hard
    <3>1. u \in thread["scheduler"].cands /\ u.job \in Jobs
      BY AtScheduler DEF Unit
    <3>2. SumFunctionOnSet(Request, Committed \cup {u.job}) <= Hard
      BY <3>1 DEF Safe, CandidatesFit
    <3>3. Committed \cup {u.job} \in SUBSET Jobs
          /\ Committed' \cup {u.job} \in SUBSET (Committed \cup {u.job})
      BY <1>1, <3>1
    <3> QED BY <3>2, <3>3, LessAsked
  <2> QED BY <2>1 DEF CandidatesFit
<1>4. Within'
  <2>1. SumFunctionOnSet(Request, Committed) <= Hard
    BY DEF Safe, Within
  <2>2. SumFunctionOnSet(Request, Committed') <= Hard
    BY <1>1, <2>1, LessAsked
  <2> QED BY <2>2 DEF Within
<1> QED BY <1>2, <1>3, <1>4 DEF Safe

(* What is seen stays seen. *)
LEMMA SeenStays ==
  ASSUME Calm, NEW r \in ThreadType, SeenBy(r)
  PROVE  SeenBy(r)'
<1>1. r.view \subseteq Unit /\ r.cands \subseteq Unit /\ r.unit \in Unit
  BY DEF ThreadType
<1>2. \A u \in Unit : Seen(u.job) => Seen(u.job)'
  BY DEF Calm, Unit
<1> QED BY <1>1, <1>2 DEF SeenBy

(* So do the units that stay. *)
LEMMA KeepSeen ==
  ASSUME IInv, Ranges, UnitsAreSeen, Calm, UNCHANGED <<queues, admitted>>,
         thread'["scheduler"] = thread["scheduler"]
  PROVE  UnitsAreSeen'
<1>1. \A u \in Unit : u.job \in Jobs
  BY DEF Unit
<1>2. \A t \in Tenants : queues[t] \subseteq Unit
  BY DEF IInv, Typed
<1>3. \A j \in Jobs : Seen(j) => Seen(j)'
  BY DEF Calm
<1>4. \A t \in Tenants : \A u \in queues'[t] : Seen(u.job)'
  BY <1>1, <1>2, <1>3 DEF UnitsAreSeen
<1>5. SeenBy(thread["scheduler"])'
  <2>1. \A r \in ThreadType : SeenBy(r) => SeenBy(r)'
    BY SeenStays
  <2>2. SeenBy(thread["scheduler"]) /\ thread["scheduler"] \in ThreadType
    BY AtScheduler DEF UnitsAreSeen
  <2>3. \A r : thread'["scheduler"] = r /\ SeenBy(r)' => SeenBy(thread["scheduler"])'
    BY DEF SeenBy
  <2> QED BY <2>1, <2>2, <2>3
<1>6. \A j \in admitted' : Seen(j)'
  BY <1>3 DEF UnitsAreSeen, Ranges
<1> QED BY <1>4, <1>5, <1>6 DEF UnitsAreSeen

(* The conditions stay and the pods do. *)
LEMMA KeepWatch ==
  ASSUME WatchFits, Calm, UNCHANGED <<api, events, cache>>
  PROVE  WatchFits'
<1>1. ASSUME NEW j \in Jobs, NEW conds, Fits(conds, j) PROVE Fits(conds, j)'
  BY <1>1 DEF Calm, Fits
<1> QED BY <1>1 DEF WatchFits

(* So does the memory. *)
LEMMA KeepMemory ==
  ASSUME MemoryFits, Calm, UNCHANGED mem
  PROVE  MemoryFits'
<1>1. ASSUME NEW j \in Jobs, NEW conds, Fits(conds, j) PROVE Fits(conds, j)'
  BY <1>1 DEF Calm, Fits
<1> QED BY <1>1 DEF MemoryFits

(* A step that only moves units, all of jobs that are seen. *)
LEMMA UnitsMove ==
  ASSUME CoordinatorAssumption, IInv, Ranges, Safe,
         UNCHANGED <<api, pods, done, events, cache, mem, admitted, assumed>>,
         \A t \in Tenants : \A u \in queues'[t] : Seen(u.job), SeenBy(thread'["scheduler"]),
         thread'["scheduler"].cands \subseteq thread["scheduler"].cands
  PROVE  Safe'
<1>1. Calm
  BY StaysCalm
<1>2. WatchFits' /\ MemoryFits'
  BY <1>1, KeepWatch, KeepMemory DEF Safe
<1>3. \A j : Seen(j)' = Seen(j)
  BY DEF Seen
<1>4. UnitsAreSeen'
  BY <1>3 DEF UnitsAreSeen, SeenBy, Safe
<1> QED BY <1>1, <1>2, <1>4, QuietStep

-----------------------------------------------------------------------------
(***************************************************************************)
(* Conditions.                                                             *)
(***************************************************************************)
(* The coordinator's own conditions decide nothing. *)
LEMMA NothingDecided ==
  ASSUME NEW conds \in Seq(CL!Condition), NEW c \in CL!Condition, c.type \in {"Queuing", "Created"},
         Decided(CL!setCondition(conds, c))
  PROVE  Decided(conds)
<1> DEFINE new == CL!setCondition(conds, c)
<1>1. CASE new = conds
  BY <1>1
<1>2. CASE new # conds
  <2>1. PICK t \in {"Running", "Failed", "Succeeded"} : CL!HasCondition(new, t)
    BY DEF Decided
  <2>2. CP!HasCondition(CP!setCondition(conds, c), t)
    BY <2>1, SameSet DEF CL!HasCondition, CP!HasCondition
  <2>3. t \in CP!ConditionType /\ t # c.type
    BY DEF CP!ConditionType
  <2>4. conds \in Seq(CP!Condition) /\ c \in CP!Condition /\ CP!setCondition(conds, c) # conds
    BY <1>2, SameSet, SameCondition
  <2>5. CP!HasCondition(conds, t)
    BY <2>2, <2>3, <2>4, CP!SetOthers
  <2>6. CL!HasCondition(conds, t)
    BY <2>5 DEF CL!HasCondition, CP!HasCondition
  <2> QED BY <2>6 DEF Decided
<1> QED BY <1>1, <1>2

(* An object is written whose conditions decide about a filled job only. *)
LEMMA WriteFits ==
  ASSUME IInv, WatchFits, NEW j \in Jobs, NEW obj \in Object, Write(j, obj),
         obj.live => api[j].live, Fits(obj.conds, j), UNCHANGED <<pods, done, cache>>
  PROVE  Calm /\ WatchFits'
<1>1. api \in [Jobs -> Object] /\ events \in [Jobs -> Seq(Object)]
  BY DEF IInv, Typed
<1>2. api'[j] = obj /\ \A k \in Jobs : k # j => api'[k] = api[k]
  BY <1>1 DEF Write
<1>3. Calm
  BY <1>2 DEF Calm, Seen, Filled
<1>4. \A k \in Jobs : \A conds : Fits(conds, k) => Fits(conds, k)'
  BY <1>3 DEF Calm, Fits
<1>5. ASSUME NEW k \in Jobs, NEW i \in DOMAIN events'[k]
      PROVE  Fits(events'[k][i].conds, k)
  <2>1. CASE i \in DOMAIN events[k] /\ events'[k][i] = events[k][i]
    BY <2>1 DEF WatchFits
  <2>2. CASE k = j /\ events'[k][i] = obj
    BY <2>2
  <2>3. CASE events' = events
    BY <2>1, <2>3
  <2>4. CASE events' = [events EXCEPT ![j] = Append(events[j], obj)]
    <3>1. events[j] \in Seq(Object)
      BY <1>1
    <3>2. CASE k # j
      BY <1>1, <2>1, <2>4, <3>2
    <3>3. CASE k = j
      <4>1. events'[k] = Append(events[j], obj)
        BY <1>1, <2>4, <3>3
      <4> QED BY <2>1, <2>2, <3>1, <3>3, <4>1
    <3> QED BY <3>2, <3>3
  <2> QED BY <1>1, <2>3, <2>4 DEF Write
<1>6. \A k \in Jobs : Fits(api'[k].conds, k) /\ Fits(cache'[k].conds, k)
  BY <1>2 DEF WatchFits
<1>7. WatchFits'
  BY <1>4, <1>5, <1>6 DEF WatchFits
<1> QED BY <1>3, <1>7

(* The memory of a version is set to what fits. *)
LEMMA MemorySet ==
  ASSUME IInv, MemoryFits, Calm, NEW j \in Jobs, NEW v \in Versions, NEW conds, Fits(conds, j),
         mem' = [mem EXCEPT ![j][v] = conds]
  PROVE  MemoryFits'
<1>1. mem \in [Jobs -> [Versions -> Seq(CL!Condition)]]
  BY DEF IInv, Typed
<1>2. \A k \in Jobs : \A w \in Versions : mem'[k][w] = mem[k][w] \/ (k = j /\ mem'[k][w] = conds)
  BY <1>1
<1>3. \A k \in Jobs : \A x : Fits(x, k) => Fits(x, k)'
  BY DEF Calm, Fits
<1>4. \A k \in Jobs : \A w \in Versions : Fits(mem'[k][w], k)
  BY <1>2 DEF MemoryFits
<1> QED BY <1>3, <1>4 DEF MemoryFits

(* QueueStateMarker. *)
LEMMA MarkFits ==
  ASSUME CoordinatorAssumption, IInv, WatchFits, MemoryFits, UNCHANGED <<pods, done, cache>>,
         NEW unit \in Unit, NEW reason \in {"JobEnqueued", "JobDequeued"},
         QueueStateMarker(unit, reason)
  PROVE  Calm /\ WatchFits' /\ MemoryFits'
<1> DEFINE j   == unit.job
           c   == CL!newCondition("Queuing", reason)
           old == mem[j][unit.ver]
           new == CL!setCondition(old, c)
<1>1. j \in Jobs /\ unit.ver \in Versions
  BY DEF Unit
<1>2. old \in Seq(CL!Condition) /\ api[j] \in Object /\ api[j].conds \in Seq(CL!Condition)
  BY <1>1 DEF IInv, Typed, Object
<1>3. c \in CL!Condition /\ c.type = "Queuing"
  BY QueuingType DEF CL!newCondition
<1>4. new \in Seq(CL!Condition)
  BY <1>2, <1>3, SetStaysList
<1>5. Fits(old, j) /\ Fits(api[j].conds, j)
  BY <1>1 DEF WatchFits, MemoryFits
<1>6. Fits(new, j)
  BY <1>2, <1>3, <1>5, NothingDecided DEF Fits
<1> HIDE DEF c, new, old
<1>7. CASE /\ Write(j, [api[j] EXCEPT !.conds = new])
           /\ mem' = [mem EXCEPT ![j][unit.ver] = new]
  <2> DEFINE obj == [api[j] EXCEPT !.conds = new]
  <2>1. obj \in Object /\ obj.live = api[j].live /\ obj.conds = new
    BY <1>2, <1>4 DEF Object
  <2>2. Write(j, obj)
    BY <1>7
  <2> HIDE DEF obj, j
  <2>3. Calm /\ WatchFits'
    BY <1>1, <1>6, <2>1, <2>2, WriteFits
  <2> QED BY <1>1, <1>6, <1>7, <2>3, MemorySet
<1>8. CASE UNCHANGED <<api, events>> /\ (\/ mem' = [mem EXCEPT ![j][unit.ver] = new]
                                          \/ mem' = [mem EXCEPT ![j][unit.ver] = api[j].conds])
  <2>1. Calm
    BY <1>8, StaysCalm
  <2>2. WatchFits'
    BY <1>8, <2>1, KeepWatch
  <2> HIDE DEF j
  <2>3. MemoryFits'
    BY <1>1, <1>5, <1>6, <1>8, <2>1, MemorySet
  <2> QED BY <2>1, <2>2, <2>3
<1> QED BY <1>7, <1>8, Zenon DEF QueueStateMarker, c, new, old

-----------------------------------------------------------------------------
(***************************************************************************)
(* The informer's steps.                                                   *)
(***************************************************************************)
(* An event reaches the cache and its handler. *)
LEMMA EventSafe ==
  ASSUME CoordinatorAssumption, IInv, Ranges, Safe, NEW j \in Jobs, NextEvent(j), Take(j),
         thread'["scheduler"] = thread["scheduler"],
         \/ UNCHANGED mem
         \/ \E v \in Versions : \E conds :
              Fits(conds, j) /\ mem' = [mem EXCEPT ![j][v] = conds]
  PROVE  Safe'
<1> DEFINE obj == Head(events[j])
<1>1. /\ ~obj.live => ~api[j].live
      /\ cache'[j] = obj /\ \A k \in Jobs : k # j => cache'[k] = cache[k]
      /\ UNCHANGED <<api, pods, queues, admitted>>
  BY Takes DEF IInv
<1>2. UNCHANGED <<done, assumed>>
  BY DEF Take, server, picker
<1>3. Calm
  BY <1>1, <1>2 DEF Calm, Seen, Filled
<1>4. events \in [Jobs -> Seq(Object)] /\ events[j] # << >>
  BY DEF IInv, Typed, NextEvent
<1>5. /\ obj = events[j][1] /\ 1 \in DOMAIN events[j]
      /\ \A i \in DOMAIN Tail(events[j]) : i + 1 \in DOMAIN events[j] /\ Tail(events[j])[i] = events[j][i + 1]
  BY <1>4
<1>6. events'[j] = Tail(events[j]) /\ \A k \in Jobs : k # j => events'[k] = events[k]
  BY <1>4 DEF Take
<1>7. Fits(obj.conds, j)
  BY <1>5 DEF Safe, WatchFits
<1> HIDE DEF obj
<1>8. \A k \in Jobs : Fits(api'[k].conds, k) /\ Fits(cache'[k].conds, k)
  BY <1>1, <1>7 DEF Safe, WatchFits
<1>9. ASSUME NEW k \in Jobs, NEW i \in DOMAIN events'[k] PROVE Fits(events'[k][i].conds, k)
  <2>1. CASE k # j
    BY <1>6, <2>1 DEF Safe, WatchFits
  <2>2. CASE k = j
    <3>1. i + 1 \in DOMAIN events[j] /\ events'[j][i] = events[j][i + 1]
      BY <1>5, <1>6, <2>2
    <3> QED BY <2>2, <3>1 DEF Safe, WatchFits
  <2> QED BY <2>1, <2>2
<1>10. \A k \in Jobs : \A conds : Fits(conds, k) => Fits(conds, k)'
  BY <1>3 DEF Calm, Fits
<1>11. WatchFits'
  BY <1>8, <1>9, <1>10 DEF WatchFits
<1>12. MemoryFits'
  <2>1. CASE UNCHANGED mem
    BY <1>3, <2>1, KeepMemory DEF Safe
  <2>2. CASE \E v \in Versions : \E conds : Fits(conds, j) /\ mem' = [mem EXCEPT ![j][v] = conds]
    <3>1. PICK v \in Versions : \E conds : Fits(conds, j) /\ mem' = [mem EXCEPT ![j][v] = conds]
      BY <2>2
    <3>2. PICK conds : Fits(conds, j) /\ mem' = [mem EXCEPT ![j][v] = conds]
      BY <3>1
    <3> QED BY <1>3, <3>2, MemorySet DEF Safe
  <2> QED BY <2>1, <2>2
<1>13. UnitsAreSeen'
  BY <1>1, <1>3, KeepSeen DEF Safe
<1> QED BY <1>1, <1>2, <1>3, <1>11, <1>12, <1>13, QuietStep

(* The event at hand. *)
LEMMA EventFacts ==
  ASSUME IInv, Safe, NEW j \in Jobs, NextEvent(j), Take(j)
  PROVE  /\ Head(events[j]) \in Object /\ Head(events[j]).ver \in Versions
         /\ Head(events[j]).conds \in Seq(CL!Condition) /\ Fits(Head(events[j]).conds, j)
<1>1. Head(events[j]) \in Object
  BY Takes DEF IInv
<1>2. events[j] \in Seq(Object) /\ events[j] # << >>
  BY DEF IInv, Typed, NextEvent
<1>3. Head(events[j]) = events[j][1] /\ 1 \in DOMAIN events[j]
  BY <1>2
<1> QED BY <1>1, <1>3 DEF Object, Safe, WatchFits

(* OnOwnerCreateFunc. *)
LEMMA CreateSafe ==
  ASSUME CoordinatorAssumption, IInv, Ranges, Safe, NEW j \in Jobs, OnOwnerCreateFunc(j)
  PROVE  Safe'
<1> DEFINE obj   == Head(events[j])
           c     == CL!newCondition("Created", "JobCreated")
           conds == CL!setCondition(obj.conds, c)
           pc    == IF CL!NeedEnqueueToCoordinator(conds) THEN "init" ELSE "handle"
<1>1. /\ NextEvent(j) /\ mem' = [mem EXCEPT ![j][obj.ver] = conds]
      /\ Handle(pc, j, obj) /\ Take(j)
  BY DEF OnOwnerCreateFunc
<1>2. /\ obj \in Object /\ obj.ver \in Versions
      /\ obj.conds \in Seq(CL!Condition) /\ Fits(obj.conds, j)
  BY <1>1, EventFacts
<1>3. c \in CL!Condition /\ c.type = "Created"
  BY CreatedType DEF CL!newCondition
<1> HIDE DEF c
<1>4. Fits(conds, j)
  BY <1>2, <1>3, NothingDecided DEF Fits
<1>5. pc \in PCs
  BY DEF PCs
<1> HIDE DEF pc, obj, conds
<1>6. thread'["scheduler"] = thread["scheduler"]
  BY <1>1, <1>2, <1>5, Handles DEF IInv, Typed
<1> QED BY <1>1, <1>2, <1>4, <1>6, EventSafe

(* OnOwnerUpdateFunc and OnOwnerDeleteFunc. *)
LEMMA UpdateSafe ==
  ASSUME CoordinatorAssumption, IInv, Ranges, Safe, NEW j \in Jobs,
         OnOwnerUpdateFunc(j) \/ OnOwnerDeleteFunc(j)
  PROVE  Safe'
<1> DEFINE obj == Head(events[j])
<1>1. /\ NextEvent(j) /\ Take(j) /\ \E pc \in {"init", "handle", "pop"} : Handle(pc, j, obj)
      /\ UNCHANGED mem \/ mem' = [mem EXCEPT ![j][obj.ver] = obj.conds]
  BY DEF OnOwnerUpdateFunc, OnOwnerDeleteFunc
<1>2. /\ obj \in Object /\ obj.ver \in Versions
      /\ obj.conds \in Seq(CL!Condition) /\ Fits(obj.conds, j)
  BY <1>1, EventFacts
<1> HIDE DEF obj
<1>3. thread'["scheduler"] = thread["scheduler"]
  <2>1. PICK pc \in {"init", "handle", "pop"} : Handle(pc, j, obj)
    BY <1>1
  <2>2. pc \in PCs
    BY DEF PCs
  <2> QED BY <1>2, <2>1, <2>2, Handles DEF IInv, Typed
<1> QED BY <1>1, <1>2, <1>3, EventSafe

(* The scheduler's unit, where it is seen. *)
LEMMA SafeUnits ==
  ASSUME IInv, Safe
  PROVE  /\ \A t \in Tenants : \A u \in queues[t] : Seen(u.job)
         /\ SeenBy(thread["scheduler"])
BY DEF Safe, UnitsAreSeen

(* A queue is made, the owner is asked for, or a unit goes to its owner. *)
LEMMA GoSafe ==
  ASSUME CoordinatorAssumption, IInv, Ranges, Safe,
         initializeNewQueue \/ EnqueueForObject \/ AddToOwner("informer")
  PROVE  Safe'
<1>1. UNCHANGED <<api, pods, done, events, cache, queues, mem, admitted, assumed>>
  BY DEF initializeNewQueue, EnqueueForObject, AddToOwner, server, watch, core, picker
<1>2. \/ \E pc \in PCs : Go("informer", pc)
      \/ thread' = [thread EXCEPT !["informer"] = Idle]
  BY DEF initializeNewQueue, EnqueueForObject, AddToOwner, PCs
<1>3. thread'["scheduler"] = thread["scheduler"]
  BY <1>2, Goes, Moves, IdleType, TheThreads DEF IInv, Typed
<1>4. SeenBy(thread'["scheduler"])
  BY <1>3, SafeUnits
<1> QED BY <1>1, <1>3, <1>4, SafeUnits, UnitsMove

(* A unit is added to its queue. *)
LEMMA AddSafe ==
  ASSUME CoordinatorAssumption, IInv, Ranges, Safe, addNewQueueUnit
  PROVE  Safe'
<1> DEFINE u == thread["informer"].unit
           q == (queues[u.tenant] \ get(u.tenant, u.job)) \cup {u}
<1>1. /\ thread["informer"].pc = "add" /\ queues' = [queues EXCEPT ![u.tenant] = q]
      /\ UNCHANGED <<api, pods, done, events, cache, mem, admitted, assumed>>
  BY DEF addNewQueueUnit, server, watch, picker, At
<1>2. thread'["scheduler"] = thread["scheduler"]
  BY Goes, TheThreads DEF addNewQueueUnit, PCs, IInv, Typed
<1>3. Seen(u.job)
  BY <1>1 DEF IInv, InformerTells, JobOf, Seen
<1>4. queues \in [Tenants -> SUBSET Unit] /\ u.tenant \in Tenants
  BY AtInformer DEF IInv, Typed
<1> HIDE DEF u
<1>5. \A t \in Tenants : \A v \in queues'[t] : v \in queues[t] \/ v = u
  BY <1>1, <1>4
<1>6. \A t \in Tenants : \A v \in queues'[t] : Seen(v.job)
  BY <1>3, <1>5, SafeUnits
<1>7. SeenBy(thread'["scheduler"])
  BY <1>2, SafeUnits
<1> QED BY <1>1, <1>2, <1>6, <1>7, UnitsMove

(* A unit gets its owner. *)
LEMMA OwnerSafe ==
  ASSUME CoordinatorAssumption, IInv, Ranges, Safe, SetQueueUnitOwner
  PROVE  Safe'
<1> DEFINE j     == JobOf("informer")
           Up(u) == IF u.job = j THEN [u EXCEPT !.owner = TRUE] ELSE u
<1>1. /\ thread' = [thread EXCEPT !["informer"] = Idle]
      /\ queues' = [t \in Tenants |-> IF t \in index[j] THEN {Up(u) : u \in queues[t]} ELSE queues[t]]
      /\ UNCHANGED <<api, pods, done, events, cache, mem, admitted, assumed>>
  BY DEF SetQueueUnitOwner, server, watch, picker
<1>2. thread'["scheduler"] = thread["scheduler"]
  BY <1>1, Moves, IdleType, TheThreads DEF IInv, Typed
<1>3. \A u \in Unit : Up(u).job = u.job
  BY DEF Unit
<1>4. queues \in [Tenants -> SUBSET Unit]
  BY DEF IInv, Typed
<1> HIDE DEF Up
<1>5. \A t \in Tenants : \A v \in queues'[t] : \E u \in queues[t] : v.job = u.job
  BY <1>1, <1>3, <1>4
<1>6. \A t \in Tenants : \A v \in queues'[t] : Seen(v.job)
  BY <1>5, SafeUnits
<1>7. SeenBy(thread'["scheduler"])
  BY <1>2, SafeUnits
<1> QED BY <1>1, <1>2, <1>6, <1>7, UnitsMove

-----------------------------------------------------------------------------
(***************************************************************************)
(* Marks, and Dequeue by either goroutine.                                 *)
(***************************************************************************)
(* A unit is marked while the scheduler has only units of jobs that are seen. *)
LEMMA MarkSafe ==
  ASSUME CoordinatorAssumption, IInv, Ranges, Safe,
         UNCHANGED <<pods, done, cache, queues, admitted, assumed>>,
         NEW unit \in Unit, NEW reason \in {"JobEnqueued", "JobDequeued"},
         QueueStateMarker(unit, reason),
         thread'["scheduler"] \in ThreadType, SeenBy(thread'["scheduler"]),
         thread'["scheduler"].cands \subseteq thread["scheduler"].cands
  PROVE  Safe'
<1>1. Calm /\ WatchFits' /\ MemoryFits'
  BY MarkFits DEF Safe
<1>2. \A u \in Unit : Seen(u.job) => Seen(u.job)'
  BY <1>1 DEF Calm, Unit
<1>3. \A t \in Tenants : \A u \in queues'[t] : Seen(u.job)'
  <2>1. \A t \in Tenants : queues[t] \subseteq Unit
    BY DEF IInv, Typed
  <2> QED BY <1>2, <2>1, SafeUnits
<1>4. SeenBy(thread["scheduler"])'
  <2>1. \A r \in ThreadType : SeenBy(r) => SeenBy(r)'
    BY <1>1, SeenStays
  <2>2. \A r : thread'["scheduler"] = r /\ SeenBy(r)' => SeenBy(thread["scheduler"])'
    BY DEF SeenBy
  <2> QED BY <2>1, <2>2
<1>5. \A j \in admitted' : Seen(j)'
  BY <1>1 DEF Calm, Safe, UnitsAreSeen, Ranges
<1>6. UnitsAreSeen'
  BY <1>3, <1>4, <1>5 DEF UnitsAreSeen
<1> QED BY <1>1, <1>6, QuietStep

(* A job is marked as enqueued. *)
LEMMA MarkEnqueuedSafe ==
  ASSUME CoordinatorAssumption, IInv, Ranges, Safe, MarkEnqueued
  PROVE  Safe'
<1>1. /\ QueueStateMarker(thread["informer"].unit, "JobEnqueued")
      /\ UNCHANGED <<pods, done, cache, queues, admitted, assumed>>
  BY DEF MarkEnqueued, picker
<1>2. thread'["scheduler"] = thread["scheduler"]
  BY Goes, TheThreads DEF MarkEnqueued, PCs, IInv, Typed
<1>3. thread'["scheduler"] \in ThreadType /\ SeenBy(thread'["scheduler"])
  BY <1>2, AtScheduler, SafeUnits
<1> QED BY <1>1, <1>2, <1>3, AtInformer, MarkSafe

(* An idle scheduler has no units. *)
LEMMA IdleFacts == Idle.pc = "idle" /\ Idle.view = {} /\ Idle.cands = {}
BY DEF Idle

(* Where the scheduler is when a goroutine is done with a unit. *)
LEMMA DequeuedSees ==
  ASSUME CoordinatorAssumption, IInv, Safe, NEW th \in Threads,
         thread' = [thread EXCEPT ![th] = Dequeued(th)]
  PROVE  /\ thread'["scheduler"] \in ThreadType /\ SeenBy(thread'["scheduler"])
         /\ thread'["scheduler"].cands \subseteq thread["scheduler"].cands
<1>1. thread \in [Threads -> ThreadType]
  BY DEF IInv, Typed
<1>2. thread' \in [Threads -> ThreadType] /\ \A o \in Threads : o # th => thread'[o] = thread[o]
  BY DequeuedFacts
<1>3. CASE th = "informer"
  <2>1. thread'["scheduler"] = thread["scheduler"]
    BY <1>2, <1>3, TheThreads
  <2> QED BY <2>1, AtScheduler, SafeUnits
<1>4. CASE th # "informer"
  <2>1. thread'["scheduler"] = Idle
    BY <1>1, <1>4 DEF Threads, Dequeued
  <2> QED BY <2>1, IdleType, IdleFacts DEF SeenBy
<1> QED BY <1>3, <1>4

(* A job is marked as dequeued. *)
LEMMA MarkDequeuedSafe ==
  ASSUME CoordinatorAssumption, IInv, Ranges, Safe, NEW th \in Threads, MarkDequeued(th)
  PROVE  Safe'
<1>1. /\ QueueStateMarker(thread[th].unit, "JobDequeued")
      /\ thread' = [thread EXCEPT ![th] = Dequeued(th)]
      /\ UNCHANGED <<pods, done, cache, queues, admitted, assumed>>
  BY DEF MarkDequeued, picker
<1>2. thread[th].unit \in Unit
  BY DEF IInv, Typed, ThreadType
<1>3. /\ thread'["scheduler"] \in ThreadType /\ SeenBy(thread'["scheduler"])
      /\ thread'["scheduler"].cands \subseteq thread["scheduler"].cands
  BY <1>1, DequeuedSees
<1> QED BY <1>1, <1>2, <1>3, MarkSafe

(* A unit leaves its queue. *)
LEMMA PopSafe ==
  ASSUME CoordinatorAssumption, IInv, Ranges, Safe, NEW th \in Threads, popQueueUnitFromQueue(th)
  PROVE  Safe'
<1> DEFINE j     == JobOf(th)
           found == UNION {get(t, j) : t \in index[j]}
<1>1. /\ queues' = [t \in Tenants |-> IF t \in index[j] THEN queues[t] \ found ELSE queues[t]]
      /\ IF found = {} THEN thread' = [thread EXCEPT ![th] = Dequeued(th)]
         ELSE \E u \in found : thread' = [thread EXCEPT ![th].pc = "give", ![th].unit = u]
      /\ UNCHANGED <<api, pods, done, events, cache, mem, admitted, assumed>>
  BY DEF popQueueUnitFromQueue, server, watch, picker
<1> HIDE DEF found
<1>2. \A t \in Tenants : \A u \in queues'[t] : Seen(u.job)
  <2>1. \A t \in Tenants : queues'[t] \subseteq queues[t]
    BY <1>1
  <2> QED BY <2>1, SafeUnits
<1>3. /\ SeenBy(thread'["scheduler"])
      /\ thread'["scheduler"].cands \subseteq thread["scheduler"].cands
  <2>1. CASE found = {}
    BY <1>1, <2>1, DequeuedSees
  <2>2. CASE found # {}
    <3>1. PICK u \in found : thread' = [thread EXCEPT ![th].pc = "give", ![th].unit = u]
      BY <1>1, <2>2
    <3>2. thread \in [Threads -> ThreadType]
      BY DEF IInv, Typed
    <3>3. CASE th = "informer"
      <4>1. thread'["scheduler"] = thread["scheduler"]
        BY <3>1, <3>2, <3>3, TheThreads
      <4> QED BY <4>1, SafeUnits
    <3>4. CASE th = "scheduler"
      <4>1. thread["scheduler"] \in ThreadType
        BY AtScheduler
      <4>2. /\ thread'["scheduler"].view = thread["scheduler"].view
            /\ thread'["scheduler"].cands = thread["scheduler"].cands
            /\ thread'["scheduler"].pc = "give"
        BY <3>1, <3>2, <3>4, <4>1 DEF ThreadType
      <4> QED BY <4>2, SafeUnits DEF SeenBy
    <3> QED BY <3>3, <3>4 DEF Threads
  <2> QED BY <2>1, <2>2
<1> QED BY <1>1, <1>2, <1>3, UnitsMove

(* The scheduler hands a unit over. *)
LEMMA GiveSafe ==
  ASSUME CoordinatorAssumption, IInv, Ranges, Safe, NEW th \in Threads, AddToOwner(th)
  PROVE  Safe'
<1>1. CASE th = "informer"
  BY <1>1, GoSafe
<1>2. CASE th = "scheduler"
  <2>1. UNCHANGED <<api, pods, done, events, cache, queues, mem, admitted, assumed>>
    BY DEF AddToOwner, server, watch, core, picker
  <2>2. Go("scheduler", "markOut")
    BY <1>2 DEF AddToOwner
  <2>3. thread \in [Threads -> ThreadType] /\ thread["scheduler"] \in ThreadType
    BY AtScheduler DEF IInv, Typed
  <2>4. /\ thread'["scheduler"].view = thread["scheduler"].view
        /\ thread'["scheduler"].cands = thread["scheduler"].cands
        /\ thread'["scheduler"].pc = "markOut"
    BY <2>2, <2>3, TheThreads DEF ThreadType, Go
  <2>5. SeenBy(thread'["scheduler"])
    BY <2>4, SafeUnits DEF SeenBy
  <2> QED BY <2>1, <2>4, <2>5, SafeUnits, UnitsMove
<1> QED BY <1>1, <1>2 DEF Threads

-----------------------------------------------------------------------------
(***************************************************************************)
(* The scheduler's steps.                                                  *)
(***************************************************************************)
(* A cycle looks at the units of one queue. *)
LEMMA SelectViews ==
  ASSUME CoordinatorAssumption, IInv, nextQueueToSchedule
  PROVE  \E t \in Tenants :
           thread' = [thread EXCEPT !["scheduler"] = [Idle EXCEPT !.pc = "scan", !.view = queues[t]]]
<1> DEFINE tenant == names'[(turn % Len(names')) + 1]
<1>1. /\ created # {} /\ names' \in (IF queuesChanged THEN appendNewQueues ELSE {names})
      /\ thread' = [thread EXCEPT !["scheduler"] = [Idle EXCEPT !.pc = "scan", !.view = queues[tenant]]]
  BY DEF nextQueueToSchedule
<1>2. names' \in Seq(Tenants) /\ Len(names') \in Nat \ {0}
  BY <1>1, NamesType DEF IInv, Typed
<1>3. turn \in Nat
  BY AtScheduler
<1>4. turn % Len(names') \in 0..Len(names') - 1
  BY <1>2, <1>3
<1>5. (turn % Len(names')) + 1 \in 1..Len(names')
  BY <1>2, <1>4
<1>6. tenant \in Tenants
  BY <1>2, <1>5
<1> HIDE DEF tenant
<1> QED BY <1>1, <1>6

(* A step that moves the scheduler only. *)
LEMMA SchedulerMoves ==
  ASSUME CoordinatorAssumption, IInv, Ranges, Safe,
         UNCHANGED <<api, pods, done, events, cache, queues, mem, admitted, assumed>>,
         NEW r \in ThreadType, thread' = [thread EXCEPT !["scheduler"] = r],
         SeenBy(r), r.cands \subseteq thread["scheduler"].cands
  PROVE  Safe'
<1>1. thread'["scheduler"] = r
  BY TheThreads DEF IInv, Typed
<1>2. SeenBy(thread'["scheduler"])
  BY <1>1
<1> QED BY <1>1, <1>2, SafeUnits, UnitsMove

(* A cycle starts. *)
LEMMA SelectSafe ==
  ASSUME CoordinatorAssumption, IInv, Ranges, Safe, nextQueueToSchedule
  PROVE  Safe'
<1>1. UNCHANGED <<api, pods, done, events, cache, queues, mem, admitted, assumed>>
  BY DEF nextQueueToSchedule, server, watch, core
<1>2. PICK t \in Tenants :
        thread' = [thread EXCEPT !["scheduler"] = [Idle EXCEPT !.pc = "scan", !.view = queues[t]]]
  BY SelectViews
<1> DEFINE r == [Idle EXCEPT !.pc = "scan", !.view = queues[t]]
<1>3. queues[t] \subseteq Unit
  BY DEF IInv, Typed
<1>4. r \in ThreadType /\ r.pc = "scan" /\ r.view = queues[t] /\ r.cands = {}
  BY <1>3, IdleType, IdleFacts DEF ThreadType
<1>5. thread' = [thread EXCEPT !["scheduler"] = r]
  BY <1>2
<1> HIDE DEF r
<1>6. SeenBy(r)
  BY <1>4, SafeUnits DEF SeenBy
<1> QED BY <1>1, <1>4, <1>5, <1>6, SchedulerMoves

(* A unit without an owner is skipped. *)
LEMMA SkipSafe ==
  ASSUME CoordinatorAssumption, IInv, Ranges, Safe, NEW u \in Unit, SkipUnowned(u)
  PROVE  Safe'
<1> DEFINE th == thread["scheduler"]
           r  == [th EXCEPT !.view = th.view \ {u}]
<1>1. /\ th.pc = "scan" /\ thread' = [thread EXCEPT !["scheduler"].view = @ \ {u}]
      /\ UNCHANGED <<api, pods, done, events, cache, queues, mem, admitted, assumed>>
  BY DEF SkipUnowned, Scanning, At, server, watch, core, picker
<1>2. thread' = [thread EXCEPT !["scheduler"] = r]
  BY <1>1
<1>3. r \in ThreadType /\ r.pc = "scan" /\ r.view \subseteq th.view /\ r.cands = th.cands
  BY <1>1, AtScheduler DEF ThreadType
<1> HIDE DEF r
<1>4. SeenBy(r)
  BY <1>3, SafeUnits DEF SeenBy
<1> QED BY <1>1, <1>2, <1>3, <1>4, SchedulerMoves

(* A cycle ends without a unit. *)
LEMMA EndSafe ==
  ASSUME CoordinatorAssumption, IInv, Ranges, Safe, CycleEnds
  PROVE  Safe'
<1>1. /\ thread' = [thread EXCEPT !["scheduler"] = Idle]
      /\ UNCHANGED <<api, pods, done, events, cache, queues, mem, admitted, assumed>>
  BY DEF CycleEnds, server, watch, core, picker
<1>2. SeenBy(Idle) /\ Idle.cands \subseteq thread["scheduler"].cands
  BY IdleFacts DEF SeenBy
<1> QED BY <1>1, <1>2, IdleType, SchedulerMoves

(* A unit is marked again before it is filtered. *)
LEMMA RemarkSafe ==
  ASSUME CoordinatorAssumption, IInv, Ranges, Safe, NEW u \in Unit, Remark(u)
  PROVE  Safe'
<1> DEFINE th == thread["scheduler"]
           r  == [th EXCEPT !.pc = "filter", !.unit = u]
<1>1. /\ u \in th.view /\ QueueStateMarker(u, "JobEnqueued")
      /\ thread' = [thread EXCEPT !["scheduler"].pc = "filter", !["scheduler"].unit = u]
      /\ UNCHANGED <<pods, done, cache, queues, admitted, assumed>>
  BY DEF Remark, Scanning, picker
<1>2. thread \in [Threads -> ThreadType]
  BY DEF IInv, Typed
<1>3. thread' = [thread EXCEPT !["scheduler"] = r]
  BY <1>1, <1>2, TheThreads DEF ThreadType
<1>4. r \in ThreadType /\ r.unit = u /\ r.view = th.view /\ r.cands = th.cands
  BY AtScheduler DEF ThreadType
<1> HIDE DEF r
<1>5. SeenBy(r)
  BY <1>1, <1>4, SafeUnits DEF SeenBy
<1>6. thread'["scheduler"] = r
  BY <1>2, <1>3, TheThreads
<1>7. thread'["scheduler"] \in ThreadType /\ SeenBy(thread'["scheduler"])
      /\ thread'["scheduler"].cands \subseteq th.cands
  BY <1>4, <1>5, <1>6
<1> QED BY <1>1, <1>7, MarkSafe

(* What the quota plugin assumes once a unit of the only queue is filtered: *)
(* every job that was let go is used or assumed.                            *)
LEMMA StillCounted ==
  ASSUME IInv, Ranges, Safe, ~Slow, \A s, t \in Tenants : s = t,
         NEW t \in Tenants, NEW counted \in invalidateAssumedQuotas(t)
  PROVE  /\ counted \subseteq Jobs
         /\ \A j \in Committed : pods[j] = Request[j] \/ j \in counted
<1>1. counted = {j \in assumed[t] : ~expired(j)}
  BY DEF invalidateAssumedQuotas
<1>2. assumed[t] \subseteq Jobs
  BY DEF Ranges
<1>3. ASSUME NEW j \in Committed, pods[j] # Request[j]
      PROVE  j \in counted
  <2>1. j \in admitted /\ j \in Jobs /\ api[j].live
    BY DEF Committed, Ranges
  <2>2. j \in assumed[t]
    BY <1>3 DEF Safe, CommittedAreCounted
  <2>3. cache[j].live
    BY <2>1 DEF Safe, UnitsAreSeen, Seen
  <2>4. ~Decided(cache[j].conds)
    BY <1>3, <2>1 DEF Safe, WatchFits, Fits, Filled
  <2>5. ~expired(j)
    BY <2>3, <2>4 DEF expired, Decided
  <2> QED BY <1>1, <2>2, <2>5
<1> QED BY <1>1, <1>2, <1>3

(* So a unit that passes the filter fits beside them. *)
LEMMA PassingFits ==
  ASSUME CoordinatorAssumption, IInv, Ranges, NEW u \in Unit, NEW counted \in SUBSET Jobs,
         \A j \in Committed : pods[j] = Request[j] \/ j \in counted,
         Filter(u, counted)
  PROVE  SumFunctionOnSet(Request, Committed \cup {u.job}) <= Hard
<1> DEFINE Asked(s) == SumFunctionOnSet(Request, s)
<1>1. IsFiniteSet(Jobs) /\ Request \in [Jobs -> Nat] /\ Hard \in Nat
  <2>1. Hard \in Nat /\ Request \in [Jobs -> 1..Hard] /\ IsFiniteSet(Jobs)
    BY DEF CoordinatorAssumption
  <2> QED BY <2>1
<1>2. pods \in [Jobs -> Nat] /\ u.job \in Jobs /\ Committed \in SUBSET Jobs /\ Jobs \ done \in SUBSET Jobs
  BY DEF IInv, Typed, Unit, Committed, Ranges
<1>3. \A j \in Committed : j \in counted \/ (j \in Jobs \ done /\ pods[j] = Request[j])
  BY <1>2 DEF Committed
<1>4. Asked(Committed) <= Used + Asked(counted)
  BY <1>1, <1>2, <1>3, SumCovered DEF Used
<1>5. Asked(Committed \cup {u.job}) <= Asked(Committed) + Request[u.job]
  BY <1>1, <1>2, SumMore
<1>6. Used + Asked(counted) + Request[u.job] <= Hard
  BY DEF Filter
<1>7. Asked(Committed) \in Nat /\ Asked(counted) \in Nat /\ Asked(Committed \cup {u.job}) \in Nat
  <2> Committed \cup {u.job} \in SUBSET Jobs
    BY <1>2
  <2> QED BY <1>1, <1>2, SumNat
<1>8. Used \in Nat /\ Request[u.job] \in Nat
  BY <1>1, <1>2, SumNat DEF Used
<1> HIDE DEF Asked
<1>9. Asked(Committed \cup {u.job}) <= Hard
  BY <1>1, <1>4, <1>5, <1>6, <1>7, <1>8
<1> QED BY <1>9 DEF Asked

(* isQueueUnitAcceptable. *)
LEMMA FilterSafe ==
  ASSUME CoordinatorAssumption, IInv, Ranges, Safe, ~Slow, \A s, t \in Tenants : s = t,
         NEW u \in Unit, isQueueUnitAcceptable(u)
  PROVE  Safe'
<1> DEFINE th == thread["scheduler"]
           Got(counted) == IF Filter(u, counted) THEN th.cands \cup {u} ELSE th.cands
           r(counted) == [th EXCEPT !.pc = "scan", !.view = th.view \ {u}, !.cands = Got(counted)]
<1>1. /\ UNCHANGED <<api, pods, done, events, cache, queues, mem, admitted>>
      /\ u \in th.view \/ (th.pc = "filter" /\ u = th.unit)
  BY DEF isQueueUnitAcceptable, Scanning, At, server, watch, core
<1>2. PICK counted \in invalidateAssumedQuotas(u.tenant) :
        /\ assumed' = [assumed EXCEPT ![u.tenant] = counted]
        /\ thread' = [thread EXCEPT
            !["scheduler"].pc = "scan",
            !["scheduler"].view = @ \ {u},
            !["scheduler"].cands = IF Filter(u, counted) THEN @ \cup {u} ELSE @]
  BY DEF isQueueUnitAcceptable
<1>3. thread \in [Threads -> ThreadType]
  BY DEF IInv, Typed
<1>4. thread' = [thread EXCEPT !["scheduler"] = r(counted)]
  BY <1>2, <1>3, TheThreads DEF ThreadType
<1> HIDE DEF Got
<1>5. /\ r(counted).pc = "scan" /\ r(counted).view = th.view \ {u} /\ r(counted).cands = Got(counted)
  BY AtScheduler DEF ThreadType
<1> HIDE DEF r
<1>6. /\ thread'["scheduler"].pc = "scan" /\ thread'["scheduler"].view = th.view \ {u}
      /\ thread'["scheduler"].cands = Got(counted)
  BY <1>3, <1>4, <1>5, TheThreads
<1>7. u.tenant \in Tenants
  BY DEF Unit
<1>8. counted \subseteq Jobs /\ \A j \in Committed : pods[j] = Request[j] \/ j \in counted
  BY <1>7, StillCounted
<1>9. Committed' = Committed
  BY <1>1 DEF Committed
<1>10. \A v \in Got(counted) : v \in th.cands \/ (v = u /\ Filter(u, counted))
  BY DEF Got
<1>11. CandidatesFit'
  <2>1. ASSUME NEW v \in Got(counted)
        PROVE  SumFunctionOnSet(Request, Committed \cup {v.job}) <= Hard
    <3>1. CASE v \in th.cands
      BY <3>1 DEF Safe, CandidatesFit
    <3>2. CASE v = u /\ Filter(u, counted)
      BY <1>8, <3>2, PassingFits
    <3> QED BY <1>10, <3>1, <3>2
  <2> QED BY <1>6, <1>9, <2>1 DEF CandidatesFit
<1>12. CommittedAreCounted'
  <2>1. assumed'[u.tenant] = counted
    BY <1>2, <1>7 DEF Ranges
  <2>2. \A j \in Committed' : pods'[j] = Request[j] \/ j \in assumed'[u.tenant]
    BY <1>1, <1>8, <1>9, <2>1
  <2> QED BY <1>7, <2>2 DEF CommittedAreCounted
<1>13. Within'
  BY <1>9 DEF Within, Safe
<1>14. Calm /\ WatchFits' /\ MemoryFits'
  BY <1>1, StaysCalm, KeepWatch, KeepMemory DEF Safe
<1>15. UnitsAreSeen'
  <2>1. Seen(u.job)
    BY <1>1, SafeUnits DEF SeenBy
  <2>2. \A j : Seen(j)' = Seen(j)
    BY <1>1 DEF Seen
  <2>3. SeenBy(thread'["scheduler"])
    <3>1. \A v \in th.view \cup th.cands : Seen(v.job)
      BY SafeUnits DEF SeenBy
    <3> QED BY <1>6, <1>10, <2>1, <3>1 DEF SeenBy
  <2> QED BY <1>1, <2>2, <2>3 DEF Safe, UnitsAreSeen, SeenBy
<1> QED BY <1>11, <1>12, <1>13, <1>14, <1>15 DEF Safe

(* A candidate is selected, and its quota assumed. *)
LEMMA PreDequeueSafe ==
  ASSUME CoordinatorAssumption, IInv, Ranges, Safe, PreDequeue
  PROVE  Safe'
<1>1. UNCHANGED <<api, pods, done, events, cache, queues, mem>>
  BY DEF PreDequeue, server, watch, core
<1>2. PICK u \in selectQueueUnit(thread["scheduler"].cands) :
        /\ assumed' = [assumed EXCEPT ![u.tenant] = @ \cup {u.job}]
        /\ admitted' = admitted \cup {u.job}
        /\ thread' = [thread EXCEPT !["scheduler"] = [Idle EXCEPT !.pc = "pop", !.unit = u]]
  BY DEF PreDequeue
<1>3. u \in thread["scheduler"].cands /\ u \in Unit /\ u.job \in Jobs /\ u.tenant \in Tenants
  BY AtScheduler DEF selectQueueUnit, Unit
<1>4. /\ thread'["scheduler"].pc = "pop" /\ thread'["scheduler"].view = {}
      /\ thread'["scheduler"].cands = {}
  BY <1>2, <1>3, IdleType, IdleFacts, TheThreads DEF IInv, Typed, ThreadType
<1>5. /\ u.job \in assumed'[u.tenant]
      /\ \A t \in Tenants : assumed[t] \subseteq assumed'[t]
  BY <1>2, <1>3 DEF Ranges
<1>6. Committed' \subseteq Committed \cup {u.job} /\ Committed \cup {u.job} \subseteq Jobs
  BY <1>1, <1>2, <1>3 DEF Committed, Ranges
<1>7. Within'
  <2>1. SumFunctionOnSet(Request, Committed \cup {u.job}) <= Hard
    BY <1>3 DEF Safe, CandidatesFit
  <2>2. SumFunctionOnSet(Request, Committed') <= Hard
    BY <1>6, <2>1, LessAsked
  <2> QED BY <2>2 DEF Within
<1>8. CommittedAreCounted'
  <2>1. \A j \in Committed' : pods'[j] = Request[j] \/ \E t \in Tenants : j \in assumed'[t]
    BY <1>1, <1>3, <1>5, <1>6 DEF Safe, CommittedAreCounted
  <2> QED BY <2>1 DEF CommittedAreCounted
<1>9. CandidatesFit'
  BY <1>4 DEF CandidatesFit
<1>10. Calm /\ WatchFits' /\ MemoryFits'
  BY <1>1, StaysCalm, KeepWatch, KeepMemory DEF Safe
<1>11. UnitsAreSeen'
  <2>1. Seen(u.job)
    BY <1>3, SafeUnits DEF SeenBy
  <2>2. \A j : Seen(j)' = Seen(j)
    BY <1>1 DEF Seen
  <2> QED BY <1>1, <1>2, <1>4, <2>1, <2>2 DEF Safe, UnitsAreSeen, SeenBy
<1> QED BY <1>7, <1>8, <1>9, <1>10, <1>11 DEF Safe

-----------------------------------------------------------------------------
(***************************************************************************)
(* The engine and the users.                                               *)
(***************************************************************************)
(* A step that leaves the coordinator alone. *)
LEMMA OutsideSafe ==
  ASSUME CoordinatorAssumption, IInv, Ranges, Safe, Calm, WatchFits',
         UNCHANGED <<cache, queues, mem, thread, admitted, assumed>>
  PROVE  Safe'
<1>1. MemoryFits'
  BY KeepMemory DEF Safe
<1>2. UnitsAreSeen'
  BY KeepSeen DEF Safe
<1> QED BY <1>1, <1>2, QuietStep

(* Pods are created, complete and are collected. *)
LEMMA PodsSafe ==
  ASSUME CoordinatorAssumption, IInv, Ranges, Safe, NEW j \in Jobs,
         Reconcile(j) \/ PodsComplete(j) \/ PodsCollected(j)
  PROVE  Safe'
<1>1. UNCHANGED <<api, events, cache, queues, mem, thread, admitted, assumed>>
  BY DEF Reconcile, PodsComplete, PodsCollected, watch, core, picker
<1>2. done \subseteq done'
  BY DEF Reconcile, PodsComplete, PodsCollected
<1>3. pods \in [Jobs -> Nat] /\ Request[j] \in Nat
  BY DEF IInv, Typed, CoordinatorAssumption
<1>4. \A k \in Jobs : pods[k] = Request[k] => pods'[k] = Request[k] \/ ~api[k].live
  BY <1>3 DEF Reconcile, PodsComplete, PodsCollected
<1>5. Calm
  BY <1>1, <1>2, <1>4 DEF Calm, Seen, Filled
<1>6. WatchFits'
  BY <1>1, <1>5, KeepWatch DEF Safe
<1> QED BY <1>1, <1>5, <1>6, OutsideSafe

(* An object is written by the engine or by a user. *)
LEMMA WriteSafe ==
  ASSUME CoordinatorAssumption, IInv, Ranges, Safe, NEW j \in Jobs, NEW obj \in Object, Write(j, obj),
         obj.live => api[j].live, Fits(obj.conds, j),
         UNCHANGED <<pods, done, cache, queues, mem, thread, admitted, assumed>>
  PROVE  Safe'
<1>1. Calm /\ WatchFits'
  BY WriteFits DEF Safe
<1> QED BY <1>1, OutsideSafe

(* The engine tells of a job that has all its pods. *)
LEMMA StatusSafe ==
  ASSUME CoordinatorAssumption, IInv, Ranges, Safe, NEW j \in Jobs, UpdateJobStatus(j)
  PROVE  Safe'
<1> DEFINE t     == IF j \in done THEN "Succeeded" ELSE "Running"
           why   == IF j \in done THEN "JobSucceeded" ELSE "JobRunning"
           c     == CL!newCondition(t, why)
           conds == CL!setCondition(api[j].conds, c)
           obj   == [api[j] EXCEPT !.conds = conds]
<1>1. /\ pods[j] = Request[j] /\ Write(j, obj)
      /\ UNCHANGED <<pods, done, cache, queues, mem, thread, admitted, assumed>>
  BY DEF UpdateJobStatus, core, picker
<1>2. c \in CL!Condition
  BY EngineTypes
<1> HIDE DEF c
<1>3. conds \in Seq(CL!Condition)
  BY <1>2, ObjectFacts, SetStaysList
<1> HIDE DEF conds
<1>4. obj \in Object /\ obj.live = api[j].live
  BY <1>3, ObjectFacts DEF Object
<1> HIDE DEF obj
<1>5. Fits(obj.conds, j)
  BY <1>1 DEF Fits, Filled
<1> QED BY <1>1, <1>4, <1>5, WriteSafe

(* A user edits or deletes a job. *)
LEMMA UserSafe ==
  ASSUME CoordinatorAssumption, IInv, Ranges, Safe, NEW j \in Jobs, UserEdits(j) \/ UserDeletes(j)
  PROVE  Safe'
<1>1. UNCHANGED <<pods, done, cache, queues, mem, thread, admitted, assumed>>
  BY DEF UserEdits, UserDeletes, core, picker
<1>2. Fits(api[j].conds, j)
  BY DEF Safe, WatchFits
<1>3. CASE UserEdits(j)
  <2>1. PICK t \in IF MayMove THEN Tenants ELSE {api[j].tenant} :
          Write(j, [api[j] EXCEPT !.ver = @ + 1, !.tenant = t])
    BY <1>3 DEF UserEdits
  <2>2. t \in Tenants
    BY ObjectFacts
  <2> DEFINE obj == [api[j] EXCEPT !.ver = api[j].ver + 1, !.tenant = t]
  <2>3. api[j].ver + 1 \in Versions
    <3>1. budget.edits > 0
      BY <1>3 DEF UserEdits
    <3> QED BY <3>1, ObjectFacts DEF Versions
  <2>4. obj \in Object /\ obj.conds = api[j].conds /\ obj.live = api[j].live
    BY <2>2, <2>3, ObjectFacts DEF Object
  <2>5. Write(j, obj)
    BY <2>1
  <2> HIDE DEF obj
  <2> QED BY <1>1, <1>2, <2>4, <2>5, WriteSafe
<1>4. CASE UserDeletes(j)
  <2> DEFINE obj == [api[j] EXCEPT !.live = FALSE]
  <2>1. Write(j, obj)
    BY <1>4 DEF UserDeletes
  <2>2. obj \in Object /\ obj.conds = api[j].conds /\ ~obj.live
    BY ObjectFacts DEF Object
  <2> HIDE DEF obj
  <2> QED BY <1>1, <1>2, <2>1, <2>2, WriteSafe
<1> QED BY <1>3, <1>4

-----------------------------------------------------------------------------
(***************************************************************************)
(* Types.                                                                  *)
(***************************************************************************)
(* New queues are appended once each. *)
LEMMA NamesStayDistinct ==
  ASSUME CoordinatorAssumption, names \in Seq(Tenants), created \subseteq Tenants, IsInjective(names),
         names' \in (IF queuesChanged THEN appendNewQueues ELSE {names})
  PROVE  IsInjective(names')
<1> DEFINE new == created \ Range(names)
           n   == Cardinality(new)
<1>1. CASE queuesChanged
  <2>1. IsFiniteSet(new) /\ n \in Nat
    <3>1. new \subseteq Tenants /\ IsFiniteSet(Tenants)
      BY DEF CoordinatorAssumption
    <3> HIDE DEF new
    <3> QED BY <3>1, FS_Subset, FS_CardinalityType
  <2>2. PICK s \in [1..n -> new] : Range(s) = new /\ names' = names \o s
    BY <1>1 DEF appendNewQueues
  <2>3. new \subseteq Tenants /\ \A i \in 1..Len(names) : names[i] \notin new
    BY DEF Range
  <2>4. IsFiniteSet(1..n) /\ Cardinality(1..n) = n
    <3> HIDE DEF n
    <3> QED BY <2>1, FS_Interval
  <2>5. s \in Surjection(1..n, new)
    <3> HIDE DEF n, new
    <3> QED BY <2>2 DEF Range, Surjection
  <2>6. Cardinality(1..n) = Cardinality(new)
    BY <2>4
  <2>7. s \in Injection(1..n, new)
    <3> HIDE DEF n, new
    <3> QED BY <2>4, <2>5, <2>6, FS_SurjSameCardinalityImpliesInj
  <2>8. IsInjective(s)
    BY <2>7 DEF Injection
  <2> HIDE DEF n, new
  <2>9. s \in Seq(Tenants) /\ Len(s) = n /\ \A i \in 1..n : s[i] \in new
    BY <2>1, <2>3
  <2>10. \A i, k \in 1..n : s[i] = s[k] => i = k
    BY <2>2, <2>8 DEF IsInjective
  <2>11. \A i, k \in 1..Len(names) : names[i] = names[k] => i = k
    BY DEF IsInjective
  <2>12. /\ DOMAIN names' = 1..Len(names) + n /\ Len(names) \in Nat
         /\ \A i \in 1..Len(names) : names'[i] = names[i]
         /\ \A i \in Len(names) + 1..Len(names) + n : names'[i] = s[i - Len(names)]
    BY <2>1, <2>2, <2>9, ConcatProperties
  <2>13. ASSUME NEW i \in 1..Len(names) + n, NEW k \in 1..Len(names) + n, names'[i] = names'[k]
         PROVE  i = k
    <3>1. CASE i <= Len(names) /\ k <= Len(names)
      BY <2>1, <2>11, <2>12, <2>13, <3>1
    <3>2. CASE i > Len(names) /\ k > Len(names)
      <4>1. i - Len(names) \in 1..n /\ k - Len(names) \in 1..n
        BY <2>1, <2>12, <3>2
      <4>2. s[i - Len(names)] = s[k - Len(names)]
        BY <2>1, <2>12, <2>13, <3>2
      <4>3. i - Len(names) = k - Len(names)
        BY <2>10, <4>1, <4>2
      <4> QED BY <2>1, <2>12, <4>3
    <3>3. CASE i <= Len(names) /\ k > Len(names)
      <4>1. names'[i] = names[i] /\ names[i] \notin new
        BY <2>1, <2>3, <2>12, <3>3
      <4>2. k - Len(names) \in 1..n /\ names'[k] = s[k - Len(names)]
        BY <2>1, <2>12, <3>3
      <4> QED BY <2>9, <2>13, <4>1, <4>2
    <3>4. CASE i > Len(names) /\ k <= Len(names)
      <4>1. names'[k] = names[k] /\ names[k] \notin new
        BY <2>1, <2>3, <2>12, <3>4
      <4>2. i - Len(names) \in 1..n /\ names'[i] = s[i - Len(names)]
        BY <2>1, <2>12, <3>4
      <4> QED BY <2>9, <2>13, <4>1, <4>2
    <3> QED BY <2>1, <2>12, <3>1, <3>2, <3>3, <3>4
  <2> QED BY <2>12, <2>13 DEF IsInjective
<1>2. CASE ~queuesChanged
  BY <1>2
<1> QED BY <1>1, <1>2

BudgetLeft == [edits : 0..MaxEdits, faults : 0..MaxFaults, crashes : 0..MaxCrashes]

(* A bound is used up step by step. *)
LEMMA LessBudget ==
  ASSUME CoordinatorAssumption, budget \in BudgetLeft,
         \/ UNCHANGED budget
         \/ budget.edits > 0 /\ budget' = [budget EXCEPT !.edits = budget.edits - 1]
         \/ budget.faults > 0 /\ budget' = [budget EXCEPT !.faults = budget.faults - 1]
         \/ budget.crashes > 0 /\ budget' = [budget EXCEPT !.crashes = budget.crashes - 1]
  PROVE  budget' \in BudgetLeft
<1>1. MaxEdits \in Nat /\ MaxFaults \in Nat /\ MaxCrashes \in Nat
  BY DEF CoordinatorAssumption
<1>2. budget.edits \in 0..MaxEdits /\ budget.faults \in 0..MaxFaults /\ budget.crashes \in 0..MaxCrashes
  BY DEF BudgetLeft
<1>3. /\ budget.edits > 0 => budget.edits - 1 \in 0..MaxEdits
      /\ budget.faults > 0 => budget.faults - 1 \in 0..MaxFaults
      /\ budget.crashes > 0 => budget.crashes - 1 \in 0..MaxCrashes
  BY <1>1, <1>2
<1> QED BY <1>3 DEF BudgetLeft

(* What a step may do to the budget, and what Marks may. *)
Spends ==
  \/ UNCHANGED budget
  \/ budget.edits > 0 /\ budget' = [budget EXCEPT !.edits = budget.edits - 1]
  \/ budget.faults > 0 /\ budget' = [budget EXCEPT !.faults = budget.faults - 1]
  \/ budget.crashes > 0 /\ budget' = [budget EXCEPT !.crashes = budget.crashes - 1]

(* A step that leaves the selector and the history alone. *)
LEMMA RangesStay ==
  ASSUME CoordinatorAssumption, Ranges, Spends,
         UNCHANGED <<done, admitted, restarted, assumed, names, turn>>
  PROVE  Ranges'
<1>1. budget' \in BudgetLeft
  BY LessBudget DEF Ranges, BudgetLeft, Spends
<1> QED BY <1>1 DEF Ranges, BudgetLeft

(* A marker may use up a fault, and nothing else of the budget. *)
LEMMA MarkSpends ==
  ASSUME NEW unit, NEW reason, QueueStateMarker(unit, reason)
  PROVE  Spends
BY DEF QueueStateMarker, Fault, Spends

(* A unit is handed over. *)
LEMMA DequeueRanges ==
  ASSUME CoordinatorAssumption, Ranges, NEW th, Dequeue(th)
  PROVE  Ranges'
<1>1. UNCHANGED <<done, admitted, restarted, assumed, names, turn>>
  BY DEF Dequeue, popQueueUnitFromQueue, AddToOwner, MarkDequeued, server, picker
<1>2. Spends
  <2>1. CASE MarkDequeued(th)
    BY <2>1, MarkSpends DEF MarkDequeued
  <2>2. CASE ~MarkDequeued(th)
    BY <2>2 DEF Dequeue, popQueueUnitFromQueue, AddToOwner, Spends
  <2> QED BY <2>1, <2>2
<1> QED BY <1>1, <1>2, RangesStay

(* The informer takes an event and handles it. *)
LEMMA InformerRanges ==
  ASSUME CoordinatorAssumption, Ranges, Informer
  PROVE  Ranges'
<1>1. CASE \E j \in Jobs : OnOwnerCreateFunc(j) \/ OnOwnerUpdateFunc(j) \/ OnOwnerDeleteFunc(j)
  <2>1. PICK j \in Jobs : Take(j)
    BY <1>1 DEF OnOwnerCreateFunc, OnOwnerUpdateFunc, OnOwnerDeleteFunc
  <2>2. UNCHANGED <<done, admitted, restarted, assumed, names, turn, budget>>
    BY <2>1 DEF Take, server, picker
  <2> QED BY <2>2, RangesStay DEF Spends
<1>2. CASE initializeNewQueue \/ addNewQueueUnit \/ EnqueueForObject \/ SetQueueUnitOwner
  <2>1. UNCHANGED <<done, admitted, restarted, assumed, names, turn, budget>>
    BY <1>2 DEF initializeNewQueue, addNewQueueUnit, EnqueueForObject, SetQueueUnitOwner, server, picker
  <2> QED BY <2>1, RangesStay DEF Spends
<1>3. CASE MarkEnqueued
  <2>1. UNCHANGED <<done, admitted, restarted, assumed, names, turn>> /\ Spends
    BY <1>3, MarkSpends DEF MarkEnqueued, picker
  <2> QED BY <2>1, RangesStay
<1> QED BY <1>1, <1>2, <1>3, DequeueRanges DEF Informer

(* Those of the scheduler. *)
LEMMA ScheduleRanges ==
  ASSUME CoordinatorAssumption, IInv, Ranges, schedule
  PROVE  Ranges'
<1>1. CASE nextQueueToSchedule
  <2>1. /\ names' \in (IF queuesChanged THEN appendNewQueues ELSE {names})
        /\ turn' = (turn + 1) % Period
        /\ UNCHANGED <<done, admitted, restarted, assumed, budget>>
    BY <1>1 DEF nextQueueToSchedule, server
  <2>2. IsInjective(names')
    BY <2>1, NamesStayDistinct DEF IInv, Typed, Ranges
  <2>3. turn' \in 0..Period - 1
    <3>1. turn \in Nat /\ Period \in Nat \ {0}
      BY AtScheduler DEF CoordinatorAssumption
    <3> QED BY <2>1, <3>1
  <2> QED BY <2>1, <2>2, <2>3 DEF Ranges
<1>2. CASE \E u \in Unit : SkipUnowned(u) \/ Remark(u)
  <2>1. UNCHANGED <<done, admitted, restarted, assumed, names, turn>> /\ Spends
    BY <1>2, MarkSpends DEF SkipUnowned, Remark, server, picker, Spends
  <2> QED BY <2>1, RangesStay
<1>3. CASE \E u \in Unit : isQueueUnitAcceptable(u)
  <2>1. PICK u \in Unit : isQueueUnitAcceptable(u)
    BY <1>3
  <2>2. UNCHANGED <<done, admitted, restarted, names, turn, budget>>
    BY <2>1 DEF isQueueUnitAcceptable, server
  <2>3. PICK counted \in invalidateAssumedQuotas(u.tenant) : assumed' = [assumed EXCEPT ![u.tenant] = counted]
    BY <2>1 DEF isQueueUnitAcceptable
  <2>4. u.tenant \in Tenants
    BY DEF Unit
  <2>5. counted \subseteq Jobs
    <3>1. assumed[u.tenant] \subseteq Jobs
      BY <2>4 DEF Ranges
    <3> QED BY <3>1 DEF invalidateAssumedQuotas
  <2>6. assumed' \in [Tenants -> SUBSET Jobs]
    BY <2>3, <2>4, <2>5 DEF Ranges
  <2> QED BY <2>2, <2>6 DEF Ranges
<1>4. CASE CycleEnds
  <2>1. UNCHANGED <<done, admitted, restarted, assumed, names, turn, budget>>
    BY <1>4 DEF CycleEnds, server, picker
  <2> QED BY <2>1, RangesStay DEF Spends
<1>5. CASE PreDequeue
  <2>1. UNCHANGED <<done, restarted, names, turn, budget>>
    BY <1>5 DEF PreDequeue, server
  <2>2. PICK u \in selectQueueUnit(thread["scheduler"].cands) :
          /\ assumed' = [assumed EXCEPT ![u.tenant] = @ \cup {u.job}]
          /\ admitted' = admitted \cup {u.job}
    BY <1>5 DEF PreDequeue
  <2>3. u.job \in Jobs /\ u.tenant \in Tenants
    BY AtScheduler DEF selectQueueUnit, Unit
  <2>4. assumed' \in [Tenants -> SUBSET Jobs] /\ admitted' \subseteq Jobs
    BY <2>2, <2>3 DEF Ranges
  <2> QED BY <2>1, <2>4 DEF Ranges
<1> QED BY <1>1, <1>2, <1>3, <1>4, <1>5, DequeueRanges DEF schedule

(* Every step keeps the ranges. *)
LEMMA RangesKept ==
  ASSUME CoordinatorAssumption, IInv, Ranges, [Next]_vars
  PROVE  Ranges'
<1>1. CASE UNCHANGED vars
  <2>1. UNCHANGED <<done, admitted, restarted, assumed, names, turn, budget>>
    BY <1>1 DEF vars, server, picker
  <2> QED BY <2>1, RangesStay DEF Spends
<1>2. CASE Engine \/ User
  <2>1. UNCHANGED <<done, admitted, restarted, assumed, names, turn>>
    BY <1>2 DEF Engine, User, Reconcile, UpdateJobStatus, UserEdits, UserDeletes, picker
  <2>2. Spends
    BY <1>2 DEF Engine, User, Reconcile, UpdateJobStatus, UserEdits, UserDeletes, Spends
  <2> QED BY <2>1, <2>2, RangesStay
<1>3. CASE Crash \/ Panic
  <2>1. Restart /\ Spends
    BY <1>3 DEF Crash, Panic, Spends
  <2>2. /\ names' = << >> /\ turn' = 0 /\ assumed' = [t \in Tenants |-> {}] /\ restarted' = TRUE
        /\ UNCHANGED <<done, admitted>>
    BY <2>1 DEF Restart, server
  <2>3. IsInjective(names')
    BY <2>2 DEF IsInjective
  <2>4. budget' \in BudgetLeft
    BY <2>1, LessBudget DEF Ranges, BudgetLeft, Spends
  <2>5. turn' \in 0..Period - 1
    BY <2>2 DEF CoordinatorAssumption
  <2> QED BY <2>2, <2>3, <2>4, <2>5 DEF Ranges, BudgetLeft
<1>4. CASE \E j \in Jobs : PodsComplete(j) \/ PodsCollected(j)
  <2>1. done' \subseteq Jobs /\ UNCHANGED <<admitted, restarted, assumed, names, turn, budget>>
    BY <1>4 DEF PodsComplete, PodsCollected, picker, Ranges
  <2> QED BY <2>1 DEF Ranges
<1> QED BY <1>1, <1>2, <1>3, <1>4, InformerRanges, ScheduleRanges DEF Next

(* At the start. *)
LEMMA InitRanges ==
  ASSUME CoordinatorAssumption, Init
  PROVE  Ranges
<1>1. names = << >> /\ turn = 0 /\ IsInjective(names)
  BY DEF Init, IsInjective
<1>2. turn \in 0..Period - 1
  BY <1>1 DEF CoordinatorAssumption
<1>3. budget \in [edits : 0..MaxEdits, faults : 0..MaxFaults, crashes : 0..MaxCrashes]
  BY DEF Init, CoordinatorAssumption
<1> QED BY <1>1, <1>2, <1>3 DEF Init, Ranges

(***************************************************************************)
(* Every variable of the coordinator keeps its type, and the selector      *)
(* knows every queue once, whatever the order in which queues appear: the  *)
(* number of queues and the length of its list tell whether there are new  *)
(* ones (queuesChanged, pkg/jobcoordinator/core/next_queue_selector.go).   *)
(***************************************************************************)
THEOREM TypesHold ==
  ASSUME CoordinatorAssumption
  PROVE  Spec => []TypeOK
<1>1. Init => IInv /\ Ranges
  BY InitHolds, InitRanges
<1>2. IInv /\ Ranges /\ [Next]_vars => IInv' /\ Ranges'
  BY StepKeeps, RangesKept
<1>3. IInv /\ Ranges => TypeOK
  BY DEF IInv, Typed, Ranges, TypeOK
<1> QED BY <1>1, <1>2, <1>3, PTL DEF Spec

-----------------------------------------------------------------------------
(* At the start no job is let go, and none has a condition. *)
LEMMA InitSafe ==
  ASSUME CoordinatorAssumption, Init
  PROVE  Safe
<1>1. \A j \in Jobs : NewJob(j).conds = << >> /\ NewJob(j).live
  BY NewJobType
<1>2. \A j : Fits(<< >>, j)
  BY DEF Fits, Decided, CL!HasCondition
<1>3. \A j \in Jobs : api[j].conds = << >> /\ events[j] = <<NewJob(j)>> /\ cache[j].conds = << >>
  <2>1. \A j \in Jobs : api[j] = NewJob(j) /\ events[j] = <<NewJob(j)>>
                        /\ cache[j] = [NewJob(j) EXCEPT !.live = FALSE]
    BY DEF Init, NotCached
  <2>2. \A j \in Jobs : [NewJob(j) EXCEPT !.live = FALSE].conds = NewJob(j).conds
    BY DEF NewJob
  <2> QED BY <1>1, <2>1, <2>2
<1>4. \A j \in Jobs : \A i \in DOMAIN events[j] : events[j][i].conds = << >>
  BY <1>1, <1>3
<1>5. WatchFits
  BY <1>2, <1>3, <1>4 DEF WatchFits
<1>6. MemoryFits
  BY <1>2 DEF MemoryFits, Init
<1>7. thread["scheduler"] = Idle
  BY TheThreads DEF Init
<1>8. UnitsAreSeen
  BY <1>7, IdleFacts DEF UnitsAreSeen, SeenBy, Init
<1>9. Committed = {}
  BY DEF Committed, Init
<1>10. Within
  <2>1. SumFunctionOnSet(Request, {}) = 0
    BY SumStep, FS_EmptySet
  <2>2. Hard \in Nat
    BY DEF CoordinatorAssumption
  <2> QED BY <1>9, <2>1, <2>2 DEF Within
<1> QED BY <1>5, <1>6, <1>7, <1>8, <1>9, <1>10, IdleFacts DEF Safe, CommittedAreCounted, CandidatesFit

(* Every step keeps it until the manager is restarted. *)
LEMMA SafeKept ==
  ASSUME CoordinatorAssumption, ~Slow, \A s, t \in Tenants : s = t,
         IInv, Ranges, ~restarted => Safe, [Next]_vars, ~restarted'
  PROVE  Safe'
<1>1. ~(Crash \/ Panic)
  BY DEF Crash, Panic, Restart
<1>2. ~restarted
  <2>1. CASE UNCHANGED vars
    BY <2>1 DEF vars
  <2>2. CASE Informer
    BY <2>2 DEF Informer, Dequeue, OnOwnerCreateFunc, OnOwnerUpdateFunc, OnOwnerDeleteFunc, Take,
      initializeNewQueue, MarkEnqueued, addNewQueueUnit, EnqueueForObject, SetQueueUnitOwner,
      popQueueUnitFromQueue, AddToOwner, MarkDequeued
  <2>3. CASE schedule
    BY <2>3 DEF schedule, Dequeue, nextQueueToSchedule, SkipUnowned, Remark, isQueueUnitAcceptable,
      CycleEnds, PreDequeue, popQueueUnitFromQueue, AddToOwner, MarkDequeued
  <2>4. CASE Engine \/ User \/ \E j \in Jobs : PodsComplete(j) \/ PodsCollected(j)
    BY <2>4 DEF Engine, User, Reconcile, UpdateJobStatus, UserEdits, UserDeletes, PodsComplete,
      PodsCollected
  <2> QED BY <1>1, <2>1, <2>2, <2>3, <2>4 DEF Next
<1>3. Safe
  BY <1>2
<1>4. CASE UNCHANGED vars
  <2>1. UNCHANGED <<api, pods, done, events, cache, queues, mem, thread, admitted, assumed>>
    BY <1>4 DEF vars, server, watch, core, picker
  <2>2. Calm
    BY <2>1, StaysCalm
  <2>3. WatchFits'
    BY <1>3, <2>1, <2>2, KeepWatch DEF Safe
  <2> QED BY <1>3, <2>1, <2>2, <2>3, OutsideSafe
<1>5. CASE Informer
  BY <1>3, <1>5, CreateSafe, UpdateSafe, GoSafe, MarkEnqueuedSafe, AddSafe, OwnerSafe, PopSafe, GiveSafe,
     MarkDequeuedSafe, TheThreads DEF Informer, Dequeue
<1>6. CASE schedule
  BY <1>3, <1>6, SelectSafe, SkipSafe, RemarkSafe, FilterSafe, EndSafe, PreDequeueSafe, PopSafe, GiveSafe,
     MarkDequeuedSafe, TheThreads DEF schedule, Dequeue
<1>7. CASE Engine
  BY <1>3, <1>7, PodsSafe, StatusSafe DEF Engine
<1>8. CASE User
  BY <1>3, <1>8, UserSafe DEF User
<1>9. CASE \E j \in Jobs : PodsComplete(j) \/ PodsCollected(j)
  BY <1>3, <1>9, PodsSafe
<1> QED BY <1>1, <1>4, <1>5, <1>6, <1>7, <1>8, <1>9 DEF Next

(***************************************************************************)
(* The jobs that are let go and not done never ask for more than the       *)
(* quota, for any jobs, requests, priorities and limit, any number of      *)
(* edits, deletions and failing patches and any interleaving of informer,  *)
(* scheduler and engine, until the manager is restarted: where there is    *)
(* one queue and no job takes more than a minute to get its pods, what the *)
(* plugin assumes (PreDequeue, Filter, pkg/jobcoordinator/plugins/quota)   *)
(* covers every job from its selection until the quota counts its pods.    *)
(***************************************************************************)
THEOREM QuotaKept ==
  ASSUME CoordinatorAssumption, ~Slow, \A s, t \in Tenants : s = t
  PROVE  Spec => []QuotaIsRespected
<1> DEFINE Inv == IInv /\ Ranges /\ (~restarted => Safe)
<1>1. Init => Inv
  BY InitHolds, InitRanges, InitSafe
<1>2. Inv /\ [Next]_vars => Inv'
  BY StepKeeps, RangesKept, SafeKept
<1>3. Inv => QuotaIsRespected
  BY DEF QuotaIsRespected, Safe, Within
<1> HIDE DEF Inv
<1> QED BY <1>1, <1>2, <1>3, PTL DEF Spec
=============================================================================
