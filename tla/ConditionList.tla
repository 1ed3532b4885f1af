--------------------------- MODULE ConditionList ---------------------------
(***************************************************************************)
(* status.conditions as the code stores it: an ordered list of entries     *)
(* with a type, a status and a reason, changed only by                     *)
(* UpdateJobConditions.  The order matters: the coordinator looks at the   *)
(* LAST entry to tell a job that waits in a queue from one that left it.   *)
(***************************************************************************)
EXTENDS Naturals, Sequences

ConditionType ==
  {"Created", "Queuing", "Running", "Restarting", "Succeeded", "Failed"}

(* The reasons pkg/util/status.go names, by the condition they go with. *)
ReasonsOf(t) ==
  CASE t = "Created"    -> {"JobCreated"}
    [] t = "Queuing"    -> {"JobEnqueued", "JobDequeued"}
    [] t = "Running"    -> {"JobRunning"}
    [] t = "Restarting" -> {"JobRestarting"}
    [] t = "Succeeded"  -> {"JobSucceeded"}
    [] t = "Failed"     -> {"JobFailed", "JobEvicted"}

Condition ==
  UNION {[type : {t}, status : {"true", "false"}, reason : ReasonsOf(t)] :
           t \in ConditionType}

VARIABLE conditions

-----------------------------------------------------------------------------
newCondition(t, reason) == [type |-> t, status |-> "true", reason |-> reason]

EntriesOf(conds, t) == {i \in DOMAIN conds : conds[i].type = t}

HasCondition(conds, t) ==
  \E i \in DOMAIN conds : conds[i].type = t /\ conds[i].status = "true"

IsSucceeded(conds) == HasCondition(conds, "Succeeded")
IsFailed(conds)    == HasCondition(conds, "Failed")

(* The first entry of a type, as a set of at most one entry. *)
GetCondition(conds, t) ==
  {conds[i] : i \in {j \in EntriesOf(conds, t) :
                       \A k \in EntriesOf(conds, t) : j <= k}}

GetLastCondition(conds, t) ==
  {conds[i] : i \in EntriesOf(conds, t) \cap {Len(conds)}}

LastReasonIs(conds, t, reason) ==
  \E c \in GetLastCondition(conds, t) : c.reason = reason

IsEnqueued(conds)    == LastReasonIs(conds, "Queuing", "JobEnqueued")
IsDequeued(conds)    == LastReasonIs(conds, "Queuing", "JobDequeued")
IsJustCreated(conds) == GetLastCondition(conds, "Created") # {}

NeedEnqueueToCoordinator(conds) ==
  conds = << >> \/ IsJustCreated(conds) \/ IsEnqueued(conds)

(* Mutant: the entry that is replaced is not dropped first. *)
filterOutConditionKeepsOld(conds, t) ==
  LET Kept(c) == /\ ~(t = "Restarting" /\ c.type = "Running")
                 /\ ~(t = "Running" /\ c.type = "Restarting")
  IN  SelectSeq(conds, Kept)

(* An entry goes if it is replaced or excluded by the new one. *)
Kept(c, t) ==
  /\ ~(t = "Restarting" /\ c.type = "Running")
  /\ ~(t = "Running" /\ c.type = "Restarting")
  /\ c.type # t

(* A verdict makes the Running entry False. *)
Stopped(c, t) ==
  IF t \in {"Failed", "Succeeded"} /\ c.type = "Running" THEN [c EXCEPT !.status = "false"] ELSE c

(* The loop over the list: what it has collected after i entries. *)
filterOutCondition(conds, t) ==
  LET newConditions[i \in 0..Len(conds)] ==
        IF i = 0 THEN << >>
        ELSE IF Kept(conds[i], t) THEN Append(newConditions[i - 1], Stopped(conds[i], t))
        ELSE newConditions[i - 1]
  IN  newConditions[Len(conds)]

(* Mutant: a changed condition is put in front of the list. *)
setConditionPrepends(conds, c) ==
  IF \/ IsFailed(conds) \/ IsSucceeded(conds)
     \/ \E cur \in GetCondition(conds, c.type) :
          cur.status = c.status /\ cur.reason = c.reason
  THEN conds
  ELSE <<c>> \o filterOutCondition(conds, c.type)

(* Mutant: only a failed job's conditions are frozen. *)
setConditionFailedOnly(conds, c) ==
  IF \/ IsFailed(conds)
     \/ \E cur \in GetCondition(conds, c.type) :
          cur.status = c.status /\ cur.reason = c.reason
  THEN conds
  ELSE Append(filterOutCondition(conds, c.type), c)

setCondition(conds, c) ==
  IF \/ IsFailed(conds) \/ IsSucceeded(conds)
     \/ \E cur \in GetCondition(conds, c.type) :
          cur.status = c.status /\ cur.reason = c.reason
  THEN conds
  ELSE Append(filterOutCondition(conds, c.type), c)

-----------------------------------------------------------------------------
Init == conditions = << >>

UpdateJobConditions(t, reason) ==
  conditions' = setCondition(conditions, newCondition(t, reason))

Next == \E t \in ConditionType : \E reason \in ReasonsOf(t) :
          UpdateJobConditions(t, reason)

Spec == Init /\ [][Next]_conditions

-----------------------------------------------------------------------------
(***************************************************************************)
(* The abstract view: module JobConditions.                                *)
(***************************************************************************)
View == INSTANCE JobConditions

ViewOf(conds) ==
  [t \in ConditionType |->
     CASE EntriesOf(conds, t) = {} -> "absent"
       [] HasCondition(conds, t)   -> "true"
       [] OTHER                    -> "false"]

(***************************************************************************)
(* Every entry is one of the conditions of pkg/util/status.go, with a      *)
(* status that is True or False.                                           *)
(***************************************************************************)
TypeOK == conditions \in Seq(Condition)

(***************************************************************************)
(* One entry per condition type: the list cannot grow without bound and    *)
(* GetCondition's "first" entry is the only one, so the no-change test of  *)
(* setCondition (pkg/util/status.go) compares with the entry in force.     *)
(***************************************************************************)
OneEntryPerType ==
  \A t \in ConditionType : \A i, j \in EntriesOf(conditions, t) : i = j

(***************************************************************************)
(* The list implements the per-type view the engine's model works with:    *)
(* every UpdateJobConditions of the code is, seen through ViewOf, exactly  *)
(* one setCondition of module JobConditions, or changes nothing.           *)
(***************************************************************************)
ImplementsView ==
  [][conditions' # conditions =>
       \E t \in ConditionType : ViewOf(conditions') = View!setCondition(ViewOf(conditions), t)]_conditions

(***************************************************************************)
(* A job that has left the coordinator's queue never looks as if it had to *)
(* be enqueued again unless the coordinator enqueues it: the engine's own  *)
(* conditions (Running, Restarting, a verdict) take the last place of the  *)
(* list, and no removal by filterOutCondition can bring an older Created   *)
(* or Queuing entry back to the end.                                       *)
(***************************************************************************)
EngineNeverReenqueues ==
  [][conditions' # conditions =>
       \A t \in {"Running", "Restarting", "Succeeded", "Failed"} :
         (\E reason \in ReasonsOf(t) : conditions' = setCondition(conditions, newCondition(t, reason)))
           => ~NeedEnqueueToCoordinator(conditions')]_conditions

(***************************************************************************)
(* What IsRunning, IsSucceeded and IsFailed answer never contradicts: a    *)
(* job with a verdict has one verdict only and is not Running, whatever    *)
(* order the updates came in.                                              *)
(***************************************************************************)
NeverRunningAndDone ==
  (IsSucceeded(conditions) \/ IsFailed(conditions))
    => /\ ~HasCondition(conditions, "Running")
       /\ ~(IsSucceeded(conditions) /\ IsFailed(conditions))

(***************************************************************************)
(* What the readers of a job's conditions are told never contradicts: the  *)
(* list holds every type at most once, and a job with a verdict has one    *)
(* verdict only and is not Running, whatever order the updates came in     *)
(* (filterOutCondition, IsSucceeded, IsFailed, IsRunning).                 *)
(***************************************************************************)
ConditionsAreConsistent == TypeOK /\ OneEntryPerType /\ NeverRunningAndDone
=============================================================================
