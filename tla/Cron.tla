-------------------------------- MODULE Cron --------------------------------
(***************************************************************************)
(* The cron controller (controllers/apps): it starts a workload at each    *)
(* tick of a schedule, keeps the list of active ones and a history in the  *)
(* status of the Cron, and follows the concurrency policy.                 *)
(*                                                                         *)
(* Abstractions.                                                           *)
(*  - One Cron, whose policy never changes; users suspend and resume it.   *)
(*  - The default name of a workload is its tick; a name given in the      *)
(*    template is Fixed.  A uid is the number of the creation, and         *)
(*    NoUid that of an object that was never sent back by the server.      *)
(*  - Every status write names a resourceVersion.  A sync from an old copy *)
(*    of the Cron ends at its first write and changes nothing, so of the   *)
(*    cached Cron the model keeps whether it is the latest (fresh), and of *)
(*    the copy in the worker's hands whether nobody wrote since (own).     *)
(*  - The worker reads the clock once in each sync, as the code does.      *)
(***************************************************************************)
EXTENDS Integers, Sequences, FiniteSets, FiniteSetsExt

CONSTANTS
  Policies,      \* the concurrency policies a Cron may have
  Named,         \* the template names its workload
  Schedule,      \* the times of the schedule
  Deadline,      \* no tick after this time starts
  HistoryLimit,  \* entries of the history that are kept
  MaxTime,       \* bound: the last value of the clock
  MaxStarts,     \* bound: creations of workloads
  MaxEdits,      \* bound: times a user suspends or resumes
  MaxDeletes,    \* bound: workloads that are deleted
  MaxFaults      \* bound: calls that fail for no visible reason and restarts of the manager

ASSUME CronAssumption ==
  /\ Policies \subseteq {"Allow", "Forbid", "Replace"}
  /\ Named \in BOOLEAN
  /\ MaxTime \in Nat \ {0} /\ Schedule \subseteq Nat
  /\ \A t \in 0..MaxTime + 4 : \E s \in Schedule : s > t
  /\ Deadline \in Nat /\ HistoryLimit \in Nat /\ MaxStarts \in Nat
  /\ MaxEdits \in Nat /\ MaxDeletes \in Nat /\ MaxFaults \in Nat

VARIABLES
  policy,   \* spec.concurrencyPolicy
  suspend,  \* spec.suspend
  status,   \* API server: active list, history and last schedule time
  wls,      \* API server: the workloads, by name
  cached,   \* the informer's cache of workloads
  fresh,    \* the informer's copy of the Cron is the latest
  clock,    \* the time
  queued,   \* the key is in the work queue
  timer,    \* the time of the pending RequeueAfter, or NoTime
  worker,   \* the sync in progress
  lost,     \* history: a workload was created and not recorded
  starts,   \* history: the ticks a workload was created for, in order
  budget    \* what is left of the bounds above

object == <<policy, suspend, status>>
vars == <<object, wls, cached, fresh, clock, queued, timer, worker, lost, starts, budget>>

-----------------------------------------------------------------------------
(***************************************************************************)
(* Data.                                                                   *)
(***************************************************************************)
NoTime == 0
NoUid  == 0
Fixed  == 0
Times  == 1..MaxTime
Ticks  == 1..MaxTime + 2
Names  == IF Named THEN {Fixed} ELSE Ticks

Absent == [uid |-> NoUid, created |-> 0, finished |-> FALSE]
Exists(wl) == wl.uid # NoUid

Ref     == [name : Names, uid : 0..MaxStarts]
History == [name : Names, created : Times, finished : BOOLEAN]
Status  == [active : Seq(Ref), history : Seq(History), last : {NoTime} \cup Ticks]

(* The sync: its copy of the status, whether it is still the server's, the *)
(* workloads it listed, the time it read and the tick it starts.           *)
Idle == [pc |-> "idle", st |-> [active |-> << >>, history |-> << >>, last |-> NoTime],
         own |-> TRUE, list |-> << >>, now |-> 0, tick |-> NoTime]

At(pc) == worker.pc = pc

inActiveList(active, uid) == \E i \in DOMAIN active : active[i].uid = uid

(***************************************************************************)
(* A Go slice: its length, and the array below it, which may be longer.    *)
(* deleteFromActiveList shifts the array and shortens the slice.           *)
(***************************************************************************)
SliceOf(seq) == [array |-> seq, len |-> Len(seq)]
Content(s) == SubSeq(s.array, 1, s.len)

deleteFromActiveList(s, uid) ==
  LET found    == {i \in 1..s.len : s.array[i].uid = uid}
      uidIndex == Min(found)
      shifted  == [i \in DOMAIN s.array |->
                     IF i \in uidIndex..s.len - 1 THEN s.array[i + 1] ELSE s.array[i]]
  IN  IF found = {} THEN s ELSE [array |-> shifted, len |-> s.len - 1]

(***************************************************************************)
(* "for _, ref := range active" around deletions: the loop takes the       *)
(* length once and reads the array as shifted so far, behind its new end   *)
(* what was left there.                                                    *)
(***************************************************************************)
DeleteWhileRanging(s, doomed) ==
  LET walk[i \in 0..s.len] ==
        IF i = 0 THEN s
        ELSE LET cur == walk[i - 1]
             IN  IF cur.array[i] \in doomed
                 THEN deleteFromActiveList(cur, cur.array[i].uid) ELSE cur
  IN  walk[s.len]

-----------------------------------------------------------------------------
(***************************************************************************)
(* The schedule.                                                           *)
(***************************************************************************)
(* schedule.Next *)
NextTick == [t \in 0..MaxTime + 4 |-> Min({s \in Schedule : s > t})]

(* Mutant: the missed ticks are counted from one too many. *)
getMostRecentScheduleTimeLate(earliest, now) ==
  LET t1 == NextTick[earliest]  t2 == NextTick[t1]
  IN  IF now < t1 THEN NoTime
      ELSE IF now < t2 THEN t1
      ELSE t1 + ((now - t1) \div (t2 - t1) + 1) * (t2 - t1)

(* Missed ticks are counted as if the schedule were regular. *)
getMostRecentScheduleTime(earliest, now) ==
  LET t1     == NextTick[earliest]
      t2     == NextTick[t1]
      delta  == t2 - t1
      missed == (now - t1) \div delta + 1
  IN  IF now < t1 THEN NoTime
      ELSE IF now < t2 THEN t1
      ELSE t1 + (missed - 1) * delta

getNextScheduleTime(last, now) ==
  IF last > now THEN NoTime ELSE getMostRecentScheduleTime(last, now)

-----------------------------------------------------------------------------
(***************************************************************************)
(* What the worker finds.                                                  *)
(***************************************************************************)
(* The cached workloads named in the active list. *)
listActiveWorkloads ==
  LET NameAt(i) == status.active[i].name
      workloads[i \in 0..Len(status.active)] ==
        IF i = 0 THEN << >>
        ELSE IF Exists(cached[NameAt(i)])
        THEN Append(workloads[i - 1], [name |-> NameAt(i), wl |-> cached[NameAt(i)]])
        ELSE workloads[i - 1]
  IN  workloads[Len(status.active)]

(* As workloadToHistory and the key of refreshCronHistory make them. *)
Entry(e) == [name |-> e.name, created |-> e.wl.created, finished |-> e.wl.finished]
Same(h, e) == h.name = e.name /\ h.created = e.wl.created

(* Mutant: what became of a workload known to the history is not noted. *)
UpdatedOnlyNew(h, list) == h

(* The entry of a listed workload follows its state. *)
Updated(h, list) ==
  [h EXCEPT !.finished = @ \/ \E i \in DOMAIN list : Same(h, list[i]) /\ list[i].wl.finished]

(* The oldest entries beyond the limit are dropped. *)
Truncated(history) ==
  SubSeq(history, IF Len(history) > HistoryLimit THEN Len(history) - HistoryLimit + 1 ELSE 1, Len(history))

(* byHistoryStartTime *)
Before(g, h) == g.created < h.created \/ (g.created = h.created /\ g.name < h.name)

(* A sorted history with one more entry, in its place. *)
Inserted(history, h) ==
  LET new   == Len(history) + 1
      place == Min({i \in 1..new : i = new \/ ~Before(history[i], h)})
  IN  [i \in 1..new |-> IF i < place THEN history[i] ELSE IF i = place THEN h ELSE history[i - 1]]

(***************************************************************************)
(* refreshCronHistory: the entries of listed workloads are updated or      *)
(* added, and sorted.  The status holds a sorted history, so that the sort *)
(* only has to put the new ones in their places.                           *)
(***************************************************************************)
refreshedHistory(list) ==
  LET known == [i \in DOMAIN status.history |-> Updated(status.history[i], list)]
      entries[i \in 0..Len(list)] ==
        IF i = 0 THEN known
        ELSE IF \E k \in DOMAIN known : Same(known[k], list[i]) THEN entries[i - 1]
        ELSE Inserted(entries[i - 1], Entry(list[i]))
  IN  Truncated(entries[Len(list)])

(* Mutant: a workload that is not in the cache is taken for deleted. *)
trimMissingByCache(s, list) ==
  DeleteWhileRanging(s, {r \in Ref : \A i \in DOMAIN list : list[i].wl.uid # r.uid})

(* The entries whose workload was not listed and is not on the server. *)
trimMissing(s, list) ==
  DeleteWhileRanging(s, {r \in Ref : /\ \A i \in DOMAIN list : list[i].wl.uid # r.uid
                                     /\ ~Exists(wls[r.name])})

(* The loop over the listed workloads. *)
trimFinished(s, list) ==
  LET loop[i \in 0..Len(list)] ==
        IF i = 0 THEN s
        ELSE IF list[i].wl.finished THEN deleteFromActiveList(loop[i - 1], list[i].wl.uid)
        ELSE loop[i - 1]
  IN  loop[Len(list)]

(* The finished ones that were listed leave, then the missing ones. *)
trimFinishedWorkloadsFromActiveList(active, list) ==
  Content(trimMissing(trimFinished(SliceOf(active), list), list))

-----------------------------------------------------------------------------
(***************************************************************************)
(* One sync: Reconcile lists the active workloads and writes the history,  *)
(* SyncCron trims the active list, writes it and decides, Create sends the *)
(* workload and Record writes the status again.                            *)
(***************************************************************************)
Put(st) ==
  /\ status' = st
  /\ fresh' = (fresh /\ st = status)

Fault == budget.faults > 0 /\ budget' = [budget EXCEPT !.faults = @ - 1]

(* An error ends the sync and puts the key back. *)
Failed == worker' = Idle /\ queued' = TRUE /\ UNCHANGED timer

(* Mutant: the sync does not ask to be called again. *)
RequeueForgotten(now) == worker' = Idle /\ UNCHANGED timer

(* The end of a sync that asks to be called again at the next tick. *)
Requeue(now) == worker' = Idle /\ timer' = NextTick[now]

Reconcile ==
  /\ At("idle") /\ queued /\ fresh
  /\ \E list \in {listActiveWorkloads} : \E history \in {refreshedHistory(list)} :
       LET st == [status EXCEPT !.history = history]
       IN  /\ Put(st)
           /\ worker' = [Idle EXCEPT !.pc = "sync", !.st = st, !.list = list]
  /\ queued' = FALSE
  /\ UNCHANGED <<policy, suspend, wls, cached, clock, timer, lost, starts, budget>>

(* A conflict at a status write, or any call that fails. *)
SyncFails ==
  /\ worker.pc \in {"sync", "record"}
  /\ \/ ~worker.own /\ UNCHANGED budget
     \/ Fault
  /\ Failed
  /\ lost' = (lost \/ At("record"))
  /\ UNCHANGED <<object, wls, cached, fresh, clock, starts>>

MayStart(active) == policy = "Forbid" => active = << >>

(* deleteWorkload takes the workload off the list and leaves it alone. *)
Replaced(active) ==
  IF policy = "Replace" THEN Content(DeleteWhileRanging(SliceOf(active), Ref)) ELSE active

SyncCron ==
  /\ At("sync") /\ worker.own
  /\ \E active \in {trimFinishedWorkloadsFromActiveList(worker.st.active, worker.list)},
       tick \in {getNextScheduleTime(worker.st.last, clock)} :
       LET st  == [worker.st EXCEPT !.active = active]
           due == tick # NoTime /\ tick # st.last
       IN  /\ Put(st)
           /\ \/ /\ suspend \/ clock > Deadline
                 /\ worker' = Idle /\ UNCHANGED timer
              \/ /\ ~suspend /\ clock <= Deadline
                 /\ ~(due /\ MayStart(active))
                 /\ Requeue(clock)
              \/ /\ ~suspend /\ clock <= Deadline
                 /\ due /\ MayStart(active)
                 /\ worker' = [worker EXCEPT !.pc = "create", !.now = clock, !.tick = tick,
                                             !.st = [st EXCEPT !.active = Replaced(active)]]
                 /\ UNCHANGED timer
  /\ UNCHANGED <<policy, suspend, wls, cached, clock, queued, lost, starts, budget>>

newName == IF Named THEN Fixed ELSE worker.tick

(* The worker goes on to record the workload, with the uid it knows of. *)
Started(uid) ==
  worker' = [worker EXCEPT !.pc = "record", !.st.last = worker.tick,
                           !.st.active = Append(@, [name |-> newName, uid |-> uid])]

Create ==
  LET wl == [uid |-> Len(starts) + 1, created |-> clock, finished |-> FALSE]
  IN  /\ At("create") /\ ~Exists(wls[newName]) /\ Len(starts) < MaxStarts
      /\ wls' = [wls EXCEPT ![newName] = wl]
      /\ starts' = Append(starts, worker.tick)
      /\ Started(wl.uid)
      /\ UNCHANGED <<object, cached, fresh, clock, queued, timer, lost, budget>>

(* The object the worker holds never got a uid from the server. *)
CreateAlreadyExists ==
  /\ At("create") /\ Exists(wls[newName])
  /\ IF inActiveList(worker.st.active, NoUid)
     THEN Failed
     ELSE Started(NoUid) /\ UNCHANGED <<queued, timer>>
  /\ UNCHANGED <<object, wls, cached, fresh, clock, lost, starts, budget>>

CreateFails ==
  /\ At("create") /\ Fault /\ Failed
  /\ UNCHANGED <<object, wls, cached, fresh, clock, lost, starts>>

Record ==
  /\ At("record") /\ worker.own
  /\ Put(worker.st)
  /\ Requeue(worker.now)
  /\ UNCHANGED <<policy, suspend, wls, cached, clock, queued, lost, starts, budget>>

-----------------------------------------------------------------------------
(***************************************************************************)
(* The informers: every event of the Cron and of a workload it controls    *)
(* puts the key in the queue.                                              *)
(***************************************************************************)
DeliverCron ==
  /\ ~fresh /\ fresh' = TRUE /\ queued' = TRUE
  /\ UNCHANGED <<object, wls, cached, clock, timer, worker, lost, starts, budget>>

DeliverWorkload(n) ==
  /\ cached[n] # wls[n]
  /\ cached' = [cached EXCEPT ![n] = wls[n]] /\ queued' = TRUE
  /\ UNCHANGED <<object, wls, fresh, clock, timer, worker, lost, starts, budget>>

TimerFires ==
  /\ timer # NoTime /\ clock >= timer
  /\ timer' = NoTime /\ queued' = TRUE
  /\ UNCHANGED <<object, wls, cached, fresh, clock, worker, lost, starts, budget>>

-----------------------------------------------------------------------------
(***************************************************************************)
(* Time, workloads, users, restarts of the manager.                        *)
(***************************************************************************)
Tick ==
  /\ clock < MaxTime /\ clock' = clock + 1
  /\ UNCHANGED <<object, wls, cached, fresh, queued, timer, worker, lost, starts, budget>>

WorkloadFinishes(n) ==
  /\ Exists(wls[n]) /\ ~wls[n].finished
  /\ wls' = [wls EXCEPT ![n].finished = TRUE]
  /\ UNCHANGED <<object, cached, fresh, clock, queued, timer, worker, lost, starts, budget>>

WorkloadDeleted(n) ==
  /\ Exists(wls[n]) /\ budget.deletes > 0
  /\ wls' = [wls EXCEPT ![n] = Absent]
  /\ budget' = [budget EXCEPT !.deletes = @ - 1]
  /\ UNCHANGED <<object, cached, fresh, clock, queued, timer, worker, lost, starts>>

UserEdits ==
  /\ budget.edits > 0
  /\ suspend' = ~suspend /\ fresh' = FALSE
  /\ worker' = [worker EXCEPT !.own = At("idle")]
  /\ budget' = [budget EXCEPT !.edits = @ - 1]
  /\ UNCHANGED <<policy, status, wls, cached, clock, queued, timer, lost, starts>>

Crash ==
  /\ Fault
  /\ worker' = Idle /\ timer' = NoTime /\ queued' = TRUE /\ fresh' = TRUE /\ cached' = wls
  /\ lost' = (lost \/ At("record"))
  /\ UNCHANGED <<object, wls, clock, starts>>

-----------------------------------------------------------------------------
Init ==
  /\ policy \in Policies /\ suspend = FALSE
  /\ status = [active |-> << >>, history |-> << >>, last |-> NoTime]
  /\ wls = [n \in Names |-> Absent] /\ cached = wls
  /\ fresh = TRUE /\ clock = 1 /\ queued = TRUE /\ timer = NoTime
  /\ worker = Idle /\ lost = FALSE /\ starts = << >>
  /\ budget = [edits |-> MaxEdits, deletes |-> MaxDeletes, faults |-> MaxFaults]

Worker == Reconcile \/ SyncFails \/ SyncCron \/ Create \/ CreateAlreadyExists \/ CreateFails \/ Record

Next ==
  \/ Worker \/ DeliverCron \/ TimerFires \/ Tick \/ UserEdits \/ Crash
  \/ \E n \in Names : DeliverWorkload(n) \/ WorkloadFinishes(n) \/ WorkloadDeleted(n)

Spec == Init /\ [][Next]_vars

(***************************************************************************)
(* The worker and the informers run as long as the manager does and time   *)
(* passes.  Workloads may run for ever.                                    *)
(***************************************************************************)
Fairness ==
  /\ WF_vars(Worker) /\ WF_vars(DeliverCron) /\ WF_vars(TimerFires) /\ WF_vars(Tick)
  /\ WF_vars(\E n \in Names : DeliverWorkload(n))

FairSpec == Spec /\ Fairness

-----------------------------------------------------------------------------
(***************************************************************************)
(* Every variable keeps its type; the history is sorted by the time of     *)
(* creation and keeps to its limit.                                        *)
(***************************************************************************)
TypeOK ==
  /\ policy \in Policies /\ suspend \in BOOLEAN /\ status \in Status
  /\ Len(status.history) <= HistoryLimit
  /\ \A i, j \in DOMAIN status.history : i < j => status.history[i].created <= status.history[j].created
  /\ wls \in [Names -> [uid : 0..MaxStarts, created : 0..MaxTime, finished : BOOLEAN]]
  /\ DOMAIN cached = Names /\ fresh \in BOOLEAN /\ queued \in BOOLEAN /\ lost \in BOOLEAN
  /\ clock \in Times /\ timer \in Nat
  /\ worker.pc \in {"idle", "sync", "create", "record"} /\ worker.st \in Status
  /\ starts \in Seq(Ticks)

(***************************************************************************)
(* With policy Forbid no two workloads run at a time, although the worker  *)
(* decides from a cache that may not show the last one yet, unless a       *)
(* workload was created and the status that names it was not written.      *)
(***************************************************************************)
ForbidHolds ==
  policy = "Forbid" /\ ~lost =>
    Cardinality({n \in Names : Exists(wls[n]) /\ ~wls[n].finished}) <= 1

(***************************************************************************)
(* Workloads are started for ticks of the schedule that have come, each    *)
(* tick once, later ones later, also when workloads are deleted or missed  *)
(* ticks are caught up with.  (Unless one was created and not recorded.)   *)
(***************************************************************************)
StartsAreTicks ==
  /\ \A i \in DOMAIN starts : starts[i] \in Schedule /\ starts[i] <= clock
  /\ ~lost => \A i, j \in DOMAIN starts : i < j => starts[i] < starts[j]

(***************************************************************************)
(* The history tells how a workload ended: once a finished workload is no  *)
(* longer listed as active, its entry (if not dropped) says finished.      *)
(* refreshCronHistory sees it only while it is in the list.  The history   *)
(* keeps to its limit and its order (TypeOK).                              *)
(***************************************************************************)
HistoryTellsOutcome ==
  TypeOK /\ (policy # "Replace" =>
    \A n \in Names : \A i \in DOMAIN status.history :
      /\ Exists(wls[n]) /\ wls[n].finished
      /\ status.history[i].name = n /\ status.history[i].created = wls[n].created
      /\ \A k \in DOMAIN status.active : status.active[k].name # n
      => status.history[i].finished)

(***************************************************************************)
(* Each tick is started, or overtaken by a later one, as long as the Cron  *)
(* is not suspended or past its deadline and no run before it forbids it:  *)
(* no error, restart or event on the way stops the clockwork.  The last    *)
(* tick before the end of time has nothing to overtake it.                 *)
(***************************************************************************)
TicksAreServed ==
  \A t \in {s \in Schedule : \E r \in Times : s < r /\ r \in Schedule} :
    clock >= t ~> (status.last >= t \/ suspend \/ clock > Deadline \/ policy = "Forbid")
=============================================================================
