---------------------------- MODULE MCWorkloads ----------------------------
EXTENDS Workloads

Spec1(n, p) == [replicas |-> n, policy |-> p]
JobWith(kind, specs, dag) == [kind |-> kind, specs |-> specs, dag |-> dag, allWorkers |-> TRUE,
                          minFinish |-> Unset, minNum |-> Unset, clean |-> "Running",
                          legacy |-> FALSE, units |-> 0, perNode |-> 0]

PyTorchPair == "Master" :> Spec1(Unset, "ExitCode") @@ "Worker" :> Spec1(1, "ExitCode")
AIMaster == "AIMaster" :> Spec1(1, "Never")

PyTorchJobs == {JobWith("PyTorch", PyTorchPair, d) : d \in BOOLEAN} \cup {JobWith("PyTorch", AIMaster @@ "Master" :> Spec1(Unset, "ExitCode"), TRUE)}

OtherJobs ==
  {JobWith("XGBoost", "Master" :> Spec1(Unset, "Never") @@ "Worker" :> Spec1(1, "ExitCode"), FALSE),
        JobWith("XDL", "PS" :> Spec1(1, NoPolicy) @@ "Worker" :> Spec1(1, "ExitCode"), TRUE),
        [JobWith("XDL", "Worker" :> Spec1(1, "ExitCode") @@ "ExtendRole" :> Spec1(Unset, "ExitCode"), FALSE)
           EXCEPT !.minFinish = 50],
        JobWith("Mars", "Scheduler" :> Spec1(1, NoPolicy) @@ "WebService" :> Spec1(1, NoPolicy), TRUE),
        JobWith("Mars", "Scheduler" :> Spec1(1, NoPolicy) @@ "Worker" :> Spec1(1, NoPolicy), FALSE),
        JobWith("MPI", "Worker" :> Spec1(1, "ExitCode") @@ "Launcher" :> Spec1(1, "Never"), TRUE),
        [JobWith("MPI", "Launcher" :> Spec1(1, "Never"), FALSE) EXCEPT !.legacy = TRUE, !.units = 2, !.perNode = 1],
        JobWith("ElasticDL", "Master" :> Spec1(2, "ExitCode"), TRUE),
        JobWith("ElasticDL", "Master" :> Spec1(Unset, "ExitCode"), TRUE),
        JobWith("PyTorch", "Worker" :> Spec1(1, "ExitCode"), FALSE),
        JobWith("ElasticBatch", AIMaster @@ "Worker" :> Spec1(1, NoPolicy), TRUE)}

MCJobs == PyTorchJobs \cup OtherJobs

(* A job of which both types are restarted on retryable exit codes. *)
RetryJobs == {JobWith("PyTorch", PyTorchPair, TRUE)}
=============================================================================
