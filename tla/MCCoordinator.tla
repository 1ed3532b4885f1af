--------------------------- MODULE MCCoordinator ---------------------------
(***************************************************************************)
(* Two small coordinators, one at a time (scenario tells which): two jobs  *)
(* that compete for a quota, and a job that is edited or deleted while     *)
(* patches fail and the manager crashes or restarts.                       *)
(***************************************************************************)
EXTENDS Coordinator

VARIABLE scenario

Each(jobs, x) == [j \in jobs |-> x]
HighFirst(jobs) == [j \in jobs |-> IF j = "high" THEN 1 ELSE 0]

(* The constants of the first one, whose specification is that of Coordinator. *)
TwoJobs == {"high", "low"}
OneQueue == Each(TwoJobs, "a")
TwoPods == Each(TwoJobs, 2)
TwoPriorities == HighFirst(TwoJobs)

Faulty == INSTANCE Coordinator WITH
  Jobs <- {"high"}, Tenants <- {"a"}, Queue <- Each({"high"}, "a"),
  Request <- Each({"high"}, 1), Priority <- HighFirst({"high"}), Hard <- 1,
  Period <- 1, MaxLag <- 1, MaxEdits <- 1, MaxFaults <- 1, MaxCrashes <- 1,
  MayDelete <- TRUE, MayMove <- FALSE, Slow <- TRUE

ASSUME CoordinatorAssumptions == CoordinatorAssumption /\ Faulty!CoordinatorAssumption

One(quota, faults) ==
  \/ scenario = "quota" /\ quota
  \/ scenario = "faults" /\ faults

OneInit == One(Init, Faulty!Init)
OneNext == UNCHANGED scenario /\ One(Next, Faulty!Next)

(* The fairness of Coordinator, for the one at hand. *)
OneSpec ==
  /\ OneInit /\ [][OneNext]_<<vars, scenario>>
  /\ WF_vars(One(Informer, Faulty!Informer))
  /\ WF_vars(One(schedule, Faulty!schedule))
  /\ WF_vars(One(Panic, Faulty!Panic))
  /\ \A j \in Jobs :
       /\ WF_vars(One(Reconcile(j), j \in DOMAIN api /\ Faulty!Reconcile(j)))
       /\ WF_vars(One(UpdateJobStatus(j), j \in DOMAIN api /\ Faulty!UpdateJobStatus(j)))
       /\ WF_vars(One(PodsComplete(j), j \in DOMAIN api /\ Faulty!PodsComplete(j)))
       /\ WF_vars(One(PodsCollected(j), j \in DOMAIN api /\ Faulty!PodsCollected(j)))

(***************************************************************************)
(* Every job is let go in the end (or deleted), although it may wait for   *)
(* another job's quota, be edited while it waits, lose a patch of its      *)
(* conditions, and see the manager crash or restart.                       *)
(***************************************************************************)
EveryJobIsAdmitted == []<>~(\E j \in DOMAIN api : Waits(j))

(***************************************************************************)
(* "Owner queue pointer has not been assigned yet due to schedule triggers *)
(* before SetQueueUnitOwner": such a unit is left for a later cycle, so a  *)
(* unit that is handed over has an owner (Dequeue dereferences it).        *)
(***************************************************************************)
HandedOverUnitsHaveOwners == \A th \in Threads : ~NilOwner(th)
=============================================================================
