--------------------------- MODULE JobConditions ---------------------------
(***************************************************************************)
(* The condition part of a job's status as the rest of the engine sees it: *)
(* for every condition type, whether status.conditions holds no such       *)
(* condition, one whose Status is True or one whose Status is False.       *)
(*                                                                         *)
(* Order, reason, message and times of the entries are abstracted away;    *)
(* module ConditionList keeps the order and the reasons and is shown to    *)
(* implement this view.                                                    *)
(***************************************************************************)

ConditionType ==
  {"Created", "Queuing", "Running", "Restarting", "Succeeded", "Failed"}

ConditionStatus == {"absent", "true", "false"}

Conditions == [ConditionType -> ConditionStatus]

NoConditions == [t \in ConditionType |-> "absent"]

-----------------------------------------------------------------------------
HasCondition(conds, t) == conds[t] = "true"

IsSucceeded(conds)  == HasCondition(conds, "Succeeded")
IsFailed(conds)     == HasCondition(conds, "Failed")
IsRunning(conds)    == HasCondition(conds, "Running")
IsRestarting(conds) == HasCondition(conds, "Restarting")

Finished(conds) == IsSucceeded(conds) \/ IsFailed(conds)

(* Mutant: Running does not take Restarting away. *)
filterOutConditionKeepsRestarting(conds, t, u) ==
  CASE u = t -> "absent"
    [] t = "Restarting" /\ u = "Running" -> "absent"
    [] t \in {"Failed", "Succeeded"} /\ u = "Running" /\ conds[u] = "true" -> "false"
    [] OTHER -> conds[u]

(* What is left of condition type u when a condition of type t is set. *)
filterOutCondition(conds, t, u) ==
  CASE u = t -> "absent"
    [] t = "Restarting" /\ u = "Running" -> "absent"
    [] t = "Running" /\ u = "Restarting" -> "absent"
    [] t \in {"Failed", "Succeeded"} /\ u = "Running" /\ conds[u] = "true" -> "false"
    [] OTHER -> conds[u]

(* Mutant: a finished job still takes conditions. *)
setConditionAlways(conds, t) ==
  [u \in ConditionType |->
     IF u = t THEN "true" ELSE filterOutCondition(conds, t, u)]

(* newCondition always builds a condition whose Status is True.  A job     *)
(* that has finished keeps its conditions for ever.                        *)
setCondition(conds, t) ==
  IF Finished(conds) THEN conds
  ELSE [u \in ConditionType |->
          IF u = t THEN "true" ELSE filterOutCondition(conds, t, u)]
=============================================================================
