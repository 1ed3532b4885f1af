-------------------------- MODULE MCJobController --------------------------
(* Small instances of JobController. *)
EXTENDS JobController

(* controllers/tensorflow: the types a TFJob reconciles, in order. *)
TFReconcileOrders == <<"PS", "Master", "Chief", "Worker">>
MCOrder == SelectSeq(TFReconcileOrders, LAMBDA rt : rt \in RTypes)

OneEach == [rt \in RTypes |-> 1]
TwoWorkers == [rt \in RTypes |-> IF rt = "Worker" THEN 2 ELSE 1]
NotSet == Unset
AllAlways == [rt \in RTypes |-> "Always"]
AllExitCode == [rt \in RTypes |-> "ExitCode"]
AllOnFailure == [rt \in RTypes |-> "OnFailure"]
=============================================================================
