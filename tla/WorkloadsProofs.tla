-------------------------- MODULE WorkloadsProofs --------------------------
(***************************************************************************)
(* Theorems about Workloads: verdicts and ranks of jobs of all seven       *)
(* kinds, for any replicas, failures, deletions, scalings and lost status  *)
(* updates.                                                                *)
(***************************************************************************)
EXTENDS Workloads, LoopTheorems, FiniteSetTheorems, TLAPS

-----------------------------------------------------------------------------
(***************************************************************************)
(* Jobs and their defaults.                                                *)
(***************************************************************************)
SpecsOf(types) == UNION {[D -> ReplicaSpec] : D \in SUBSET types}

LEMMA SpecsFacts ==
  ASSUME NEW types, NEW f \in SpecsOf(types)
  PROVE  /\ DOMAIN f \subseteq types /\ f \in [DOMAIN f -> ReplicaSpec]
         /\ \A rt \in DOMAIN f :
              f[rt].replicas \in 0..MaxReplicas \cup {Unset} /\ f[rt].policy \in Policies \cup {NoPolicy}
<1>1. PICK D \in SUBSET types : f \in [D -> ReplicaSpec]
  BY DEF SpecsOf
<1>2. DOMAIN f = D
  BY <1>1
<1> QED BY <1>1, <1>2 DEF ReplicaSpec

(* The types of a kind. *)
Types(kind) == ToSet(GetReconcileOrders(kind))

Kinds == {"PyTorch", "XGBoost", "XDL", "Mars", "MPI", "ElasticDL", "ElasticBatch"}

LEMMA TypesOfKinds ==
  /\ Types("PyTorch") = {"AIMaster", "Master", "Worker"}
  /\ Types("XGBoost") = {"Master", "Worker"}
  /\ Types("XDL") = {"PS", "Scheduler", "Worker", "ExtendRole"}
  /\ Types("Mars") = {"Scheduler", "WebService", "Worker"}
  /\ Types("MPI") = {"Worker", "Launcher"}
  /\ Types("ElasticDL") = {"Master"}
  /\ Types("ElasticBatch") = {"AIMaster", "Worker"}
<1> USE DEF Types, ToSet
<1>1. Types("PyTorch") = {"AIMaster", "Master", "Worker"}
  <2>1. GetReconcileOrders("PyTorch") = <<"AIMaster", "Master", "Worker">>
    BY Zenon DEF GetReconcileOrders
  <2> QED BY <2>1
<1>2. Types("XGBoost") = {"Master", "Worker"}
  <2>1. GetReconcileOrders("XGBoost") = <<"Master", "Worker">>
    BY Zenon DEF GetReconcileOrders
  <2> QED BY <2>1
<1>3. Types("XDL") = {"PS", "Scheduler", "Worker", "ExtendRole"}
  <2>1. GetReconcileOrders("XDL") = <<"PS", "Scheduler", "Worker", "ExtendRole">>
    BY Zenon DEF GetReconcileOrders
  <2> QED BY <2>1
<1>4. Types("Mars") = {"Scheduler", "WebService", "Worker"}
  <2>1. GetReconcileOrders("Mars") = <<"Scheduler", "WebService", "Worker">>
    BY Zenon DEF GetReconcileOrders
  <2> QED BY <2>1
<1>5. Types("MPI") = {"Worker", "Launcher"}
  <2>1. GetReconcileOrders("MPI") = <<"Worker", "Launcher">>
    BY Zenon DEF GetReconcileOrders
  <2> QED BY <2>1
<1>6. Types("ElasticDL") = {"Master"}
  <2>1. GetReconcileOrders("ElasticDL") = <<"Master">>
    BY Zenon DEF GetReconcileOrders
  <2> QED BY <2>1
<1>7. Types("ElasticBatch") = {"AIMaster", "Worker"}
  <2>1. GetReconcileOrders("ElasticBatch") = <<"AIMaster", "Worker">>
    BY Zenon DEF GetReconcileOrders
  <2> QED BY <2>1
<1> QED BY <1>1, <1>2, <1>3, <1>4, <1>5, <1>6, <1>7

(* The fields of a job. *)
JobFields(j) ==
  /\ j = [kind |-> j.kind, specs |-> j.specs, dag |-> j.dag, allWorkers |-> j.allWorkers,
          minFinish |-> j.minFinish, minNum |-> j.minNum, clean |-> j.clean, legacy |-> j.legacy,
          units |-> j.units, perNode |-> j.perNode]
  /\ j.kind \in Kinds /\ j.specs \in SpecsOf(Types(j.kind))
  /\ j.dag \in BOOLEAN /\ j.allWorkers \in BOOLEAN
  /\ j.minFinish \in 0..100 \cup {Unset} /\ j.minNum \in Nat \cup {Unset}
  /\ j.clean \in CleanPolicies \cup {NoPolicy} /\ j.legacy \in BOOLEAN
  /\ j.units \in Nat /\ j.perNode \in Nat

LEMMA JobOfFields ==
  ASSUME NEW kind \in Kinds, NEW j \in JobOf(kind, Types(kind))
  PROVE  JobFields(j) /\ j.kind = kind
BY DEF JobOf, SpecsOf, JobFields

LEMMA FieldsOfJob ==
  ASSUME NEW kind \in Kinds, NEW j, JobFields(j), j.kind = kind
  PROVE  j \in JobOf(kind, Types(kind))
BY DEF JobOf, SpecsOf, JobFields

LEMMA JobFacts ==
  ASSUME NEW j
  PROVE  j \in Job <=>
           /\ JobFields(j)
           /\ j.kind = "PyTorch" /\ "Master" \in DOMAIN j.specs => j.specs["Master"].replicas \in {1, Unset}
           /\ j.legacy => j.kind = "MPI" /\ j.perNode > 0
<1> DEFINE All == PyTorchJob \cup XGBoostJob \cup XDLJob \cup MarsJob \cup MPIJob \cup ElasticDLJob \cup ElasticBatchJob
<1>1. /\ PyTorchJob = JobOf("PyTorch", Types("PyTorch")) /\ XGBoostJob = JobOf("XGBoost", Types("XGBoost"))
      /\ XDLJob = JobOf("XDL", Types("XDL")) /\ MarsJob = JobOf("Mars", Types("Mars"))
      /\ MPIJob = JobOf("MPI", Types("MPI")) /\ ElasticDLJob = JobOf("ElasticDL", Types("ElasticDL"))
      /\ ElasticBatchJob = JobOf("ElasticBatch", Types("ElasticBatch"))
  BY TypesOfKinds DEF PyTorchJob, XGBoostJob, XDLJob, MarsJob, MPIJob, ElasticDLJob, ElasticBatchJob
<1>2. j \in All => JobFields(j)
  BY <1>1, JobOfFields DEF Kinds
<1>3. JobFields(j) => j \in All
  <2>1. JobFields(j) => j.kind \in Kinds /\ j \in JobOf(j.kind, Types(j.kind))
    BY FieldsOfJob DEF JobFields
  <2> QED BY <1>1, <2>1 DEF Kinds
<1> QED BY <1>2, <1>3 DEF Job

(* A job whose replicas need not keep to the bound. *)
LooseSpec == [replicas : Nat \cup {Unset}, policy : Policies \cup {NoPolicy}]

Fields(j) ==
  /\ j \in [kind : Kinds, specs : {j.specs}, dag : {j.dag}, allWorkers : {j.allWorkers},
            minFinish : {j.minFinish}, minNum : {j.minNum}, clean : {j.clean}, legacy : {j.legacy},
            units : {j.units}, perNode : {j.perNode}]
  /\ j.specs \in [DOMAIN j.specs -> LooseSpec] /\ DOMAIN j.specs \subseteq Types(j.kind)

(* What defaulting fills in for a type. *)
Number(kind, rt) ==
  IF kind \in {"MPI", "ElasticDL"} \/ (kind = "PyTorch" /\ rt = "AIMaster") THEN Unset ELSE 1

PolicyFor(kind, rt) ==
  IF kind \in {"XGBoost", "ElasticDL"} \/ (kind = "PyTorch" /\ rt = "AIMaster") THEN NoPolicy
  ELSE IF kind = "PyTorch" /\ rt = "Worker" THEN "OnFailure"
  ELSE IF kind = "Mars" /\ rt = "WebService" THEN "Always"
  ELSE IF kind \in {"XDL", "MPI"} \/ (kind = "Mars" /\ rt = "Scheduler") \/ (kind = "ElasticBatch" /\ rt = "AIMaster")
  THEN "Never" ELSE "ExitCode"

FilledIn(kind, rt, spec) ==
  [replicas |-> IF kind = "ElasticBatch" /\ rt = "AIMaster" THEN 1
                ELSE IF spec.replicas = Unset THEN Number(kind, rt) ELSE spec.replicas,
   policy   |-> IF spec.policy = NoPolicy THEN PolicyFor(kind, rt) ELSE spec.policy]

(* What defaulting makes of a job. *)
DefaultsAre(j, s) ==
  /\ s.kind = j.kind /\ s.dag = j.dag /\ s.minNum = j.minNum
  /\ s.minFinish = IF j.kind = "XDL" /\ j.minFinish = Unset /\ j.minNum = Unset THEN 90 ELSE j.minFinish
  /\ j.kind \notin {"MPI", "ElasticDL"} => s.clean # NoPolicy
  /\ s.specs = [rt \in DOMAIN j.specs |-> FilledIn(j.kind, rt, j.specs[rt])]

LEMMA CleanedFields ==
  ASSUME NEW j, Fields(j), NEW policy \in CleanPolicies
  PROVE  LET c == Cleaned(j, policy)
         IN  /\ Fields(c) /\ c.kind = j.kind /\ c.dag = j.dag /\ c.minNum = j.minNum
             /\ c.minFinish = j.minFinish /\ c.specs = j.specs /\ c.clean # NoPolicy
BY DEF Cleaned, Fields, CleanPolicies, NoPolicy

(* Specs that are replaced. *)
LEMMA Respecified ==
  ASSUME NEW j, Fields(j), NEW specs
  PROVE  LET k == [j EXCEPT !.specs = specs]
         IN  /\ k.kind = j.kind /\ k.dag = j.dag /\ k.minNum = j.minNum
             /\ k.minFinish = j.minFinish /\ k.specs = specs /\ k.clean = j.clean
BY DEF Fields

LEMMA SpecIsLoose ==
  ASSUME NEW j, Fields(j), NEW rt \in DOMAIN j.specs
  PROVE  j.specs[rt] \in LooseSpec /\ rt \in Types(j.kind)
BY DEF Fields

LEMMA PyTorchDefaults ==
  ASSUME NEW j, Fields(j), j.kind = "PyTorch"
  PROVE  DefaultsAre(j, SetDefaults_PyTorchJob(j))
<1> DEFINE c == Cleaned(j, "None")
           f == [rt \in DOMAIN j.specs |-> FilledIn("PyTorch", rt, j.specs[rt])]
           g == [rt \in DOMAIN c.specs |->
                   CASE rt = "Master"   -> ReplicaDefaults(c.specs[rt], 1, "ExitCode")
                     [] rt = "Worker"   -> ReplicaDefaults(c.specs[rt], 1, "OnFailure")
                     [] rt = "AIMaster" -> c.specs[rt]]
<1>1. Fields(c) /\ c.kind = j.kind /\ c.dag = j.dag /\ c.minNum = j.minNum
      /\ c.minFinish = j.minFinish /\ c.specs = j.specs /\ c.clean # NoPolicy
  BY CleanedFields DEF CleanPolicies
<1>2. SetDefaults_PyTorchJob(j) = [c EXCEPT !.specs = g]
  BY Zenon DEF SetDefaults_PyTorchJob
<1> HIDE DEF c
<1>3. ASSUME NEW rt \in DOMAIN j.specs
      PROVE  g[rt] = FilledIn("PyTorch", rt, j.specs[rt])
  <2>1. j.specs[rt] \in LooseSpec /\ rt \in {"AIMaster", "Master", "Worker"}
    BY SpecIsLoose, TypesOfKinds
  <2>2. CASE rt = "Master"
    <3>1. g[rt] = ReplicaDefaults(j.specs[rt], 1, "ExitCode")
      BY <1>1, <2>2
    <3> QED BY <2>2, <3>1 DEF ReplicaDefaults, FilledIn, Number, PolicyFor
  <2>3. CASE rt = "Worker"
    <3>1. g[rt] = ReplicaDefaults(j.specs[rt], 1, "OnFailure")
      BY <1>1, <2>3
    <3> QED BY <2>3, <3>1 DEF ReplicaDefaults, FilledIn, Number, PolicyFor
  <2>4. CASE rt = "AIMaster"
    <3>1. g[rt] = j.specs[rt]
      BY <1>1, <2>4
    <3> QED BY <2>1, <2>4, <3>1 DEF FilledIn, Number, PolicyFor, LooseSpec
  <2> QED BY <2>1, <2>2, <2>3, <2>4
<1>4. g = f
  BY <1>1, <1>3
<1> HIDE DEF f, g
<1>5. DefaultsAre(j, [c EXCEPT !.specs = f])
  BY <1>1, Respecified DEF DefaultsAre, f
<1> QED BY <1>2, <1>4, <1>5

LEMMA XGBoostDefaults ==
  ASSUME NEW j, Fields(j), j.kind = "XGBoost"
  PROVE  DefaultsAre(j, SetDefaults_XGBoostJob(j))
<1> DEFINE c == Cleaned(j, "None")
           f == [rt \in DOMAIN j.specs |-> FilledIn("XGBoost", rt, j.specs[rt])]
           g == [rt \in DOMAIN c.specs |-> ReplicaDefaults(c.specs[rt], 1, NoPolicy)]
<1>1. Fields(c) /\ c.kind = j.kind /\ c.dag = j.dag /\ c.minNum = j.minNum
      /\ c.minFinish = j.minFinish /\ c.specs = j.specs /\ c.clean # NoPolicy
  BY CleanedFields DEF CleanPolicies
<1>2. SetDefaults_XGBoostJob(j) = [c EXCEPT !.specs = g]
  BY Zenon DEF SetDefaults_XGBoostJob
<1> HIDE DEF c
<1>3. ASSUME NEW rt \in DOMAIN j.specs
      PROVE  g[rt] = FilledIn("XGBoost", rt, j.specs[rt])
  BY <1>1 DEF ReplicaDefaults, FilledIn, Number, PolicyFor
<1>4. g = f
  BY <1>1, <1>3
<1> HIDE DEF f, g
<1>5. DefaultsAre(j, [c EXCEPT !.specs = f])
  BY <1>1, Respecified DEF DefaultsAre, f
<1> QED BY <1>2, <1>4, <1>5

LEMMA MarsDefaults ==
  ASSUME NEW j, Fields(j), j.kind = "Mars"
  PROVE  DefaultsAre(j, SetDefaults_MarsJob(j))
<1> DEFINE c == Cleaned(j, "None")
           f == [rt \in DOMAIN j.specs |-> FilledIn("Mars", rt, j.specs[rt])]
           g == [rt \in DOMAIN c.specs |->
                   CASE rt = "Scheduler"  -> ReplicaDefaults(c.specs[rt], 1, "Never")
                     [] rt = "WebService" -> ReplicaDefaults(c.specs[rt], 1, "Always")
                     [] rt = "Worker"     -> ReplicaDefaults(c.specs[rt], 1, "ExitCode")]
<1>1. Fields(c) /\ c.kind = j.kind /\ c.dag = j.dag /\ c.minNum = j.minNum
      /\ c.minFinish = j.minFinish /\ c.specs = j.specs /\ c.clean # NoPolicy
  BY CleanedFields DEF CleanPolicies
<1>2. SetDefaults_MarsJob(j) = [c EXCEPT !.specs = g]
  BY Zenon DEF SetDefaults_MarsJob
<1> HIDE DEF c
<1>3. ASSUME NEW rt \in DOMAIN j.specs
      PROVE  g[rt] = FilledIn("Mars", rt, j.specs[rt])
  <2>1. rt \in {"Scheduler", "WebService", "Worker"}
    BY SpecIsLoose, TypesOfKinds
  <2>2. CASE rt = "Scheduler"
    <3>1. g[rt] = ReplicaDefaults(j.specs[rt], 1, "Never")
      BY <1>1, <2>2
    <3> QED BY <2>2, <3>1 DEF ReplicaDefaults, FilledIn, Number, PolicyFor
  <2>3. CASE rt = "WebService"
    <3>1. g[rt] = ReplicaDefaults(j.specs[rt], 1, "Always")
      BY <1>1, <2>3
    <3> QED BY <2>3, <3>1 DEF ReplicaDefaults, FilledIn, Number, PolicyFor
  <2>4. CASE rt = "Worker"
    <3>1. g[rt] = ReplicaDefaults(j.specs[rt], 1, "ExitCode")
      BY <1>1, <2>4
    <3> QED BY <2>4, <3>1 DEF ReplicaDefaults, FilledIn, Number, PolicyFor
  <2> QED BY <2>1, <2>2, <2>3, <2>4
<1>4. g = f
  BY <1>1, <1>3
<1> HIDE DEF f, g
<1>5. DefaultsAre(j, [c EXCEPT !.specs = f])
  BY <1>1, Respecified DEF DefaultsAre, f
<1> QED BY <1>2, <1>4, <1>5

LEMMA ElasticBatchDefaults ==
  ASSUME NEW j, Fields(j), j.kind = "ElasticBatch"
  PROVE  DefaultsAre(j, SetDefaults_ElasticBatchJob(j))
<1> DEFINE c == Cleaned(j, "None")
           f == [rt \in DOMAIN j.specs |-> FilledIn("ElasticBatch", rt, j.specs[rt])]
           g == [rt \in DOMAIN c.specs |->
                   IF rt = "AIMaster" THEN [ReplicaDefaults(c.specs[rt], 1, "Never") EXCEPT !.replicas = 1]
                   ELSE ReplicaDefaults(c.specs[rt], 1, "ExitCode")]
<1>1. Fields(c) /\ c.kind = j.kind /\ c.dag = j.dag /\ c.minNum = j.minNum
      /\ c.minFinish = j.minFinish /\ c.specs = j.specs /\ c.clean # NoPolicy
  BY CleanedFields DEF CleanPolicies
<1>2. SetDefaults_ElasticBatchJob(j) = [c EXCEPT !.specs = g]
  BY Zenon DEF SetDefaults_ElasticBatchJob
<1> HIDE DEF c
<1>3. ASSUME NEW rt \in DOMAIN j.specs
      PROVE  g[rt] = FilledIn("ElasticBatch", rt, j.specs[rt])
  BY <1>1 DEF ReplicaDefaults, FilledIn, Number, PolicyFor
<1>4. g = f
  BY <1>1, <1>3
<1> HIDE DEF f, g
<1>5. DefaultsAre(j, [c EXCEPT !.specs = f])
  BY <1>1, Respecified DEF DefaultsAre, f
<1> QED BY <1>2, <1>4, <1>5

LEMMA XDLDefaults ==
  ASSUME NEW j, Fields(j), j.kind = "XDL"
  PROVE  DefaultsAre(j, SetDefaults_XDLJob(j))
<1> DEFINE c == Cleaned(j, "Running")
           m == IF c.minFinish = Unset /\ j.minNum = Unset THEN 90 ELSE c.minFinish
           f == [rt \in DOMAIN j.specs |-> FilledIn("XDL", rt, j.specs[rt])]
           g == [rt \in DOMAIN c.specs |-> ReplicaDefaults(c.specs[rt], 1, "Never")]
<1>1. Fields(c) /\ c.kind = j.kind /\ c.dag = j.dag /\ c.minNum = j.minNum
      /\ c.minFinish = j.minFinish /\ c.specs = j.specs /\ c.clean # NoPolicy
  BY CleanedFields DEF CleanPolicies
<1>2. SetDefaults_XDLJob(j) = [c EXCEPT !.minFinish = m, !.specs = g]
  BY Zenon DEF SetDefaults_XDLJob
<1> HIDE DEF c
<1>3. ASSUME NEW rt \in DOMAIN j.specs
      PROVE  g[rt] = FilledIn("XDL", rt, j.specs[rt])
  BY <1>1 DEF ReplicaDefaults, FilledIn, Number, PolicyFor
<1>4. g = f
  BY <1>1, <1>3
<1>5. m = IF j.minFinish = Unset /\ j.minNum = Unset THEN 90 ELSE j.minFinish
  BY <1>1
<1> HIDE DEF f, g, m
<1>6. DefaultsAre(j, [c EXCEPT !.minFinish = m, !.specs = f])
  BY <1>1, <1>5 DEF DefaultsAre, f, Fields
<1> QED BY <1>2, <1>4, <1>6

LEMMA MPIDefaults ==
  ASSUME NEW j, Fields(j), j.kind = "MPI"
  PROVE  DefaultsAre(j, SetDefaults_MPIJob(j))
<1> DEFINE m == IF j.legacy THEN "Running" ELSE j.clean
           f == [rt \in DOMAIN j.specs |-> FilledIn("MPI", rt, j.specs[rt])]
           g == [rt \in DOMAIN j.specs |-> ReplicaDefaults(j.specs[rt], Unset, "Never")]
<1>2. SetDefaults_MPIJob(j) = [j EXCEPT !.clean = m, !.specs = g]
  BY Zenon DEF SetDefaults_MPIJob
<1>3. ASSUME NEW rt \in DOMAIN j.specs
      PROVE  g[rt] = FilledIn("MPI", rt, j.specs[rt])
  BY DEF ReplicaDefaults, FilledIn, Number, PolicyFor
<1>4. g = f
  BY <1>3
<1> HIDE DEF f, g, m
<1>5. DefaultsAre(j, [j EXCEPT !.clean = m, !.specs = f])
  BY DEF DefaultsAre, f, Fields
<1> QED BY <1>2, <1>4, <1>5

LEMMA ElasticDLDefaults ==
  ASSUME NEW j, Fields(j), j.kind = "ElasticDL"
  PROVE  DefaultsAre(j, j)
<1>1. ASSUME NEW rt \in DOMAIN j.specs
      PROVE  j.specs[rt] = FilledIn("ElasticDL", rt, j.specs[rt])
  <2>1. j.specs[rt] \in LooseSpec
    BY SpecIsLoose
  <2> QED BY <2>1 DEF FilledIn, Number, PolicyFor, LooseSpec
<1>2. j.specs = [rt \in DOMAIN j.specs |-> j.specs[rt]]
  BY DEF Fields
<1>3. j.specs = [rt \in DOMAIN j.specs |-> FilledIn("ElasticDL", rt, j.specs[rt])]
  BY <1>1, <1>2
<1> QED BY <1>3 DEF DefaultsAre

LEMMA SetDefaultsFacts ==
  ASSUME NEW j, Fields(j)
  PROVE  DefaultsAre(j, SetDefaults(j))
<1>1. j.kind \in Kinds
  BY DEF Fields
<1>2. CASE j.kind = "PyTorch"
  <2>1. SetDefaults(j) = SetDefaults_PyTorchJob(j)
    BY <1>2, Zenon DEF SetDefaults
  <2> QED BY <1>2, <2>1, PyTorchDefaults
<1>3. CASE j.kind = "XGBoost"
  <2>1. SetDefaults(j) = SetDefaults_XGBoostJob(j)
    BY <1>3, Zenon DEF SetDefaults
  <2> QED BY <1>3, <2>1, XGBoostDefaults
<1>4. CASE j.kind = "XDL"
  <2>1. SetDefaults(j) = SetDefaults_XDLJob(j)
    BY <1>4, Zenon DEF SetDefaults
  <2> QED BY <1>4, <2>1, XDLDefaults
<1>5. CASE j.kind = "Mars"
  <2>1. SetDefaults(j) = SetDefaults_MarsJob(j)
    BY <1>5, Zenon DEF SetDefaults
  <2> QED BY <1>5, <2>1, MarsDefaults
<1>6. CASE j.kind = "MPI"
  <2>1. SetDefaults(j) = SetDefaults_MPIJob(j)
    BY <1>6, Zenon DEF SetDefaults
  <2> QED BY <1>6, <2>1, MPIDefaults
<1>7. CASE j.kind = "ElasticBatch"
  <2>1. SetDefaults(j) = SetDefaults_ElasticBatchJob(j)
    BY <1>7, Zenon DEF SetDefaults
  <2> QED BY <1>7, <2>1, ElasticBatchDefaults
<1>8. CASE j.kind = "ElasticDL"
  <2>1. SetDefaults(j) = j
    BY <1>8, Zenon DEF SetDefaults
  <2> QED BY <1>8, <2>1, ElasticDLDefaults
<1> QED BY <1>1, <1>2, <1>3, <1>4, <1>5, <1>6, <1>7, <1>8 DEF Kinds

LEMMA UnitsFacts ==
  ASSUME NEW m \in Nat, NEW n \in Nat, n > 0
  PROVE  processingUnitsPerWorker(m, n) \in Nat
<1>1. m \div n \in Nat
  OBVIOUS
<1>2. CASE m < n
  BY <1>2 DEF processingUnitsPerWorker
<1>3. CASE m >= n /\ Disjoint(m, n)
  <2> HIDE DEF Disjoint
  <2>1. processingUnitsPerWorker(m, n) = m \div n
    BY <1>3 DEF processingUnitsPerWorker
  <2> QED BY <1>1, <2>1
<1>4. CASE m >= n /\ ~Disjoint(m, n)
  BY <1>4 DEF processingUnitsPerWorker
<1> QED BY <1>2, <1>3, <1>4

LEMMA JobIsLoose ==
  ASSUME NEW j \in Job
  PROVE  /\ Fields(j) /\ j.kind \in Kinds /\ j.dag \in BOOLEAN /\ j.legacy \in BOOLEAN
         /\ j.units \in Nat /\ j.perNode \in Nat
         /\ j.minFinish \in 0..100 \cup {Unset} /\ j.minNum \in Nat \cup {Unset}
         /\ \A rt \in DOMAIN j.specs :
              j.specs[rt].replicas \in 0..MaxReplicas \cup {Unset} /\ j.specs[rt].policy \in Policies \cup {NoPolicy}
         /\ j.kind = "PyTorch" /\ "Master" \in DOMAIN j.specs => j.specs["Master"].replicas \in {1, Unset}
         /\ j.legacy => j.kind = "MPI" /\ j.perNode > 0
<1>1. /\ JobFields(j)
      /\ j.kind = "PyTorch" /\ "Master" \in DOMAIN j.specs => j.specs["Master"].replicas \in {1, Unset}
      /\ j.legacy => j.kind = "MPI" /\ j.perNode > 0
  BY JobFacts
<1>2. j.specs \in SpecsOf(Types(j.kind))
  BY <1>1 DEF JobFields
<1>3. /\ DOMAIN j.specs \subseteq Types(j.kind) /\ j.specs \in [DOMAIN j.specs -> ReplicaSpec]
      /\ \A rt \in DOMAIN j.specs :
           j.specs[rt].replicas \in 0..MaxReplicas \cup {Unset} /\ j.specs[rt].policy \in Policies \cup {NoPolicy}
  BY <1>2, SpecsFacts
<1>4. ReplicaSpec \subseteq LooseSpec
  BY WorkloadsAssumption DEF ReplicaSpec, LooseSpec
<1>5. j.specs \in [DOMAIN j.specs -> LooseSpec]
  BY <1>3, <1>4
<1>6. j \in [kind : Kinds, specs : {j.specs}, dag : {j.dag}, allWorkers : {j.allWorkers},
            minFinish : {j.minFinish}, minNum : {j.minNum}, clean : {j.clean}, legacy : {j.legacy},
            units : {j.units}, perNode : {j.perNode}]
  BY <1>1 DEF JobFields
<1>7. Fields(j)
  BY <1>3, <1>5, <1>6 DEF Fields
<1> QED BY <1>1, <1>3, <1>7 DEF JobFields

(* What a legacy spec makes of a job. *)
LegacyIs(j, k) ==
  /\ Fields(k) /\ k.kind = j.kind /\ k.dag = j.dag /\ k.minNum = j.minNum /\ k.minFinish = j.minFinish
  /\ ~j.legacy => k = j
  /\ j.legacy => k.specs = [rt \in {"Launcher", "Worker"} |-> LegacySpec(j, rt)]

LEMMA LegacyFacts ==
  ASSUME NEW j \in Job
  PROVE  LegacyIs(j, LegacyMPIJobToV1MPIJob(j))
<1>1. /\ Fields(j) /\ j.kind \in Kinds /\ j.legacy \in BOOLEAN /\ j.units \in Nat /\ j.perNode \in Nat
      /\ j.legacy => j.kind = "MPI" /\ j.perNode > 0
  BY JobIsLoose
<1>2. CASE ~j.legacy
  BY <1>1, <1>2 DEF LegacyIs, LegacyMPIJobToV1MPIJob
<1>3. CASE j.legacy
  <2> DEFINE f == [rt \in {"Launcher", "Worker"} |-> LegacySpec(j, rt)]
             k == [j EXCEPT !.specs = f]
             u == processingUnitsPerWorker(j.units, j.perNode)
  <2>1. LegacyMPIJobToV1MPIJob(j) = k
    BY <1>3 DEF LegacyMPIJobToV1MPIJob
  <2>2. u \in Nat
    BY <1>1, <1>3, UnitsFacts
  <2> HIDE DEF u
  <2>3. LegacySpec(j, "Launcher") \in LooseSpec
    <3>1. LegacySpec(j, "Launcher") = IF "Launcher" \in DOMAIN j.specs THEN j.specs["Launcher"]
                                      ELSE [replicas |-> 1, policy |-> NoPolicy]
      BY Zenon DEF LegacySpec
    <3>2. "Launcher" \in DOMAIN j.specs => j.specs["Launcher"] \in LooseSpec
      BY <1>1, SpecIsLoose
    <3>3. [replicas |-> 1, policy |-> NoPolicy] \in LooseSpec
      BY DEF LooseSpec
    <3> QED BY <3>1, <3>2, <3>3
  <2>4. LegacySpec(j, "Worker") \in LooseSpec
    <3> DEFINE p == IF "Worker" \in DOMAIN j.specs THEN j.specs["Worker"].policy ELSE NoPolicy
    <3>1. LegacySpec(j, "Worker") =
            IF "Worker" \in DOMAIN j.specs /\ j.specs["Worker"].replicas # Unset THEN j.specs["Worker"]
            ELSE [replicas |-> u, policy |-> p]
      BY Zenon DEF LegacySpec, u
    <3>2. "Worker" \in DOMAIN j.specs => j.specs["Worker"] \in LooseSpec
      BY <1>1, SpecIsLoose
    <3>3. p \in Policies \cup {NoPolicy}
      BY <3>2 DEF LooseSpec
    <3> HIDE DEF p
    <3>4. [replicas |-> u, policy |-> p] \in LooseSpec
      BY <2>2, <3>3 DEF LooseSpec
    <3> QED BY <3>1, <3>2, <3>4
  <2>5. f \in [{"Launcher", "Worker"} -> LooseSpec]
    BY <2>3, <2>4
  <2>6. {"Launcher", "Worker"} \subseteq Types(j.kind)
    BY <1>1, <1>3, TypesOfKinds
  <2>7. DOMAIN f = {"Launcher", "Worker"}
    OBVIOUS
  <2> HIDE DEF f
  <2>8. /\ k.specs = f /\ k.kind = j.kind /\ k.dag = j.dag /\ k.minNum = j.minNum /\ k.minFinish = j.minFinish
        /\ k \in [kind : Kinds, specs : {k.specs}, dag : {k.dag}, allWorkers : {k.allWorkers},
                  minFinish : {k.minFinish}, minNum : {k.minNum}, clean : {k.clean}, legacy : {k.legacy},
                  units : {k.units}, perNode : {k.perNode}]
    BY <1>1 DEF Fields
  <2> HIDE DEF k
  <2>9. Fields(k)
    BY <2>5, <2>6, <2>7, <2>8 DEF Fields
  <2> QED BY <1>3, <2>1, <2>8, <2>9 DEF LegacyIs, f
<1> QED BY <1>1, <1>2, <1>3

(***************************************************************************)
(* What a sync takes a job for.                                            *)
(***************************************************************************)
Settled(j, s) ==
  /\ s.kind = j.kind /\ s.kind \in Kinds /\ s.dag = j.dag /\ s.dag \in BOOLEAN
  /\ s.specs \in [DOMAIN s.specs -> LooseSpec] /\ DOMAIN s.specs \subseteq Types(s.kind)
  /\ s.minFinish \in 0..100 \cup {Unset} /\ s.minNum \in Nat \cup {Unset}
  /\ s.kind = "XDL" => s.minFinish # Unset \/ s.minNum # Unset
  /\ s.kind \notin {"MPI", "ElasticDL"} => s.clean # NoPolicy

(* Its replicas. *)
Sized(j, s) ==
  \A rt \in DOMAIN s.specs :
    /\ s.kind # "MPI" => s.specs[rt].replicas \in 0..MaxReplicas \cup {Unset}
    /\ s.kind = "PyTorch" /\ rt = "Master" => s.specs[rt].replicas = 1
    /\ s.kind \notin {"MPI", "ElasticDL"} /\ ~(s.kind = "PyTorch" /\ rt = "AIMaster") => s.specs[rt].replicas # Unset

LEMMA EffectiveFacts ==
  ASSUME NEW j \in Job
  PROVE  LET s == Effective(j)
         IN  /\ Settled(j, s) /\ Sized(j, s)
             /\ s.kind # "MPI" => DOMAIN s.specs = DOMAIN j.specs
<1> DEFINE k == LegacyMPIJobToV1MPIJob(j)
           s == SetDefaults(k)
<1>1. s = Effective(j)
  BY DEF Effective
<1>2. LegacyIs(j, k)
  BY LegacyFacts
<1> HIDE DEF k
<1>3. DefaultsAre(k, s)
  BY <1>2, SetDefaultsFacts DEF LegacyIs
<1> HIDE DEF s
<1>4. /\ j.kind \in Kinds /\ j.dag \in BOOLEAN /\ j.legacy \in BOOLEAN
      /\ j.minFinish \in 0..100 \cup {Unset} /\ j.minNum \in Nat \cup {Unset}
      /\ j.legacy => j.kind = "MPI"
      /\ j.kind = "PyTorch" /\ "Master" \in DOMAIN j.specs => j.specs["Master"].replicas \in {1, Unset}
      /\ \A rt \in DOMAIN j.specs : j.specs[rt].replicas \in 0..MaxReplicas \cup {Unset}
  BY JobIsLoose
<1>5. /\ k.kind = j.kind /\ k.dag = j.dag /\ k.minNum = j.minNum /\ k.minFinish = j.minFinish
      /\ k.specs \in [DOMAIN k.specs -> LooseSpec] /\ DOMAIN k.specs \subseteq Types(k.kind)
      /\ j.kind # "MPI" => k = j
  BY <1>2, <1>4 DEF LegacyIs, Fields
<1>6. s.specs = [rt \in DOMAIN k.specs |-> FilledIn(k.kind, rt, k.specs[rt])]
  BY <1>3 DEF DefaultsAre
<1>7. ASSUME NEW rt \in DOMAIN k.specs
      PROVE  FilledIn(k.kind, rt, k.specs[rt]) \in LooseSpec
  <2>1. k.specs[rt] \in LooseSpec
    BY <1>5
  <2> QED BY <2>1 DEF FilledIn, LooseSpec, Number, PolicyFor, Policies
<1>8. DOMAIN s.specs = DOMAIN k.specs /\ s.specs \in [DOMAIN s.specs -> LooseSpec]
  BY <1>6, <1>7
<1>9. Settled(j, s)
  <2>1. s.kind = j.kind /\ s.dag = j.dag /\ s.minNum = j.minNum
    BY <1>3, <1>5 DEF DefaultsAre
  <2>2. s.minFinish = IF j.kind = "XDL" /\ j.minFinish = Unset /\ j.minNum = Unset THEN 90 ELSE j.minFinish
    BY <1>3, <1>5 DEF DefaultsAre
  <2>3. s.minFinish \in 0..100 \cup {Unset} /\ (s.kind = "XDL" => s.minFinish # Unset \/ s.minNum # Unset)
    BY <1>4, <2>1, <2>2 DEF Unset
  <2>4. s.kind \notin {"MPI", "ElasticDL"} => s.clean # NoPolicy
    BY <1>3, <1>5 DEF DefaultsAre
  <2> QED BY <1>4, <1>5, <1>8, <2>1, <2>3, <2>4 DEF Settled
<1>10. Sized(j, s)
  <2> SUFFICES ASSUME NEW rt \in DOMAIN s.specs, s.kind # "MPI"
               PROVE  /\ s.specs[rt].replicas \in 0..MaxReplicas \cup {Unset}
                      /\ s.kind = "PyTorch" /\ rt = "Master" => s.specs[rt].replicas = 1
                      /\ s.kind # "ElasticDL" /\ ~(s.kind = "PyTorch" /\ rt = "AIMaster")
                           => s.specs[rt].replicas # Unset
    BY DEF Sized
  <2>1. s.kind = j.kind /\ k = j
    BY <1>5, <1>9 DEF Settled
  <2>2. s.specs[rt].replicas = IF j.kind = "ElasticBatch" /\ rt = "AIMaster" THEN 1
                               ELSE IF j.specs[rt].replicas = Unset THEN Number(j.kind, rt) ELSE j.specs[rt].replicas
    BY <1>6, <1>8, <2>1 DEF FilledIn
  <2>3. j.specs[rt].replicas \in 0..MaxReplicas \cup {Unset} /\ rt \in DOMAIN j.specs
    BY <1>4, <1>8, <2>1
  <2> QED BY <1>4, <2>1, <2>2, <2>3, WorkloadsAssumption DEF Number, Unset
<1>11. s.kind # "MPI" => DOMAIN s.specs = DOMAIN j.specs
  BY <1>5, <1>8, <1>9 DEF Settled
<1> QED BY <1>1, <1>9, <1>10, <1>11

(* Scaling changes a number of replicas and nothing else. *)
LEMMA ScaledFacts ==
  ASSUME NEW j \in Job, "Worker" \in DOMAIN j.specs, NEW n \in 1..MaxReplicas
  PROVE  LET k == [j EXCEPT !.specs["Worker"].replicas = n]
         IN  /\ k \in Job /\ k.kind = j.kind /\ k.dag = j.dag /\ DOMAIN k.specs = DOMAIN j.specs
             /\ DOMAIN Effective(k).specs = DOMAIN Effective(j).specs
             /\ \A rt \in DOMAIN Effective(j).specs : Effective(k).specs[rt].policy = Effective(j).specs[rt].policy
<1> DEFINE k == [j EXCEPT !.specs["Worker"].replicas = n]
           w == [j.specs["Worker"] EXCEPT !.replicas = n]
           f == [j.specs EXCEPT !["Worker"] = w]
<1>1. /\ JobFields(j) /\ j.legacy \in BOOLEAN
      /\ j.kind = "PyTorch" /\ "Master" \in DOMAIN j.specs => j.specs["Master"].replicas \in {1, Unset}
      /\ j.legacy => j.kind = "MPI" /\ j.perNode > 0
  BY JobFacts DEF JobFields
<1>2. DOMAIN j.specs \subseteq Types(j.kind) /\ j.specs \in [DOMAIN j.specs -> ReplicaSpec]
  BY <1>1, SpecsFacts DEF JobFields
<1>3. w \in ReplicaSpec /\ w.policy = j.specs["Worker"].policy /\ w.replicas = n
  <2>1. j.specs["Worker"] \in ReplicaSpec
    BY <1>2
  <2> QED BY <2>1 DEF ReplicaSpec
<1> HIDE DEF w
<1>4. /\ f \in [DOMAIN j.specs -> ReplicaSpec] /\ DOMAIN f = DOMAIN j.specs
      /\ f["Worker"] = w /\ \A rt \in DOMAIN j.specs : rt # "Worker" => f[rt] = j.specs[rt]
  BY <1>2, <1>3
<1>5. f \in SpecsOf(Types(j.kind))
  BY <1>2, <1>4 DEF SpecsOf
<1>6. k = [j EXCEPT !.specs = f]
  BY DEF w
<1> HIDE DEF f
<1>7. /\ k.specs = f /\ k.kind = j.kind /\ k.dag = j.dag /\ k.legacy = j.legacy /\ k.perNode = j.perNode
      /\ k.units = j.units /\ JobFields(k)
  <2> HIDE DEF k
  <2>1. j \in [kind : Kinds, specs : {j.specs}, dag : {j.dag}, allWorkers : {j.allWorkers},
            minFinish : {j.minFinish}, minNum : {j.minNum}, clean : {j.clean}, legacy : {j.legacy},
            units : {j.units}, perNode : {j.perNode}]
    BY <1>1 DEF JobFields
  <2>2. /\ k.specs = f /\ k.kind = j.kind /\ k.dag = j.dag /\ k.legacy = j.legacy /\ k.perNode = j.perNode
        /\ k.units = j.units /\ k.allWorkers = j.allWorkers /\ k.minFinish = j.minFinish
        /\ k.minNum = j.minNum /\ k.clean = j.clean
        /\ k \in [kind : Kinds, specs : {k.specs}, dag : {k.dag}, allWorkers : {k.allWorkers},
                  minFinish : {k.minFinish}, minNum : {k.minNum}, clean : {k.clean}, legacy : {k.legacy},
                  units : {k.units}, perNode : {k.perNode}]
    BY <1>6, <2>1
  <2>3. JobFields(k)
    BY <1>1, <1>5, <2>2 DEF JobFields
  <2> QED BY <2>2, <2>3
<1> HIDE DEF k
<1>8. k \in Job
  <2>1. "Master" \in DOMAIN j.specs => f["Master"] = j.specs["Master"]
    BY <1>4
  <2> QED BY <1>1, <1>4, <1>7, <2>1, JobFacts
<1> DEFINE lj == LegacyMPIJobToV1MPIJob(j)
           lk == LegacyMPIJobToV1MPIJob(k)
<1>9. LegacyIs(j, lj) /\ LegacyIs(k, lk) /\ Effective(j) = SetDefaults(lj) /\ Effective(k) = SetDefaults(lk)
  BY <1>8, LegacyFacts DEF Effective
<1> HIDE DEF lj, lk
<1>10. DefaultsAre(lj, Effective(j)) /\ DefaultsAre(lk, Effective(k))
  BY <1>9, SetDefaultsFacts DEF LegacyIs
<1>11. /\ DOMAIN Effective(j).specs = DOMAIN lj.specs /\ DOMAIN Effective(k).specs = DOMAIN lk.specs
       /\ \A rt \in DOMAIN lj.specs : Effective(j).specs[rt] = FilledIn(j.kind, rt, lj.specs[rt])
       /\ \A rt \in DOMAIN lk.specs : Effective(k).specs[rt] = FilledIn(j.kind, rt, lk.specs[rt])
  BY <1>7, <1>9, <1>10 DEF DefaultsAre, LegacyIs
<1>12. DOMAIN lj.specs = DOMAIN lk.specs /\ \A rt \in DOMAIN lj.specs : lj.specs[rt].policy = lk.specs[rt].policy
  <2>1. CASE ~j.legacy
    BY <1>3, <1>4, <1>7, <1>9, <2>1 DEF LegacyIs
  <2>2. CASE j.legacy
    <3>1. /\ lj.specs = [rt \in {"Launcher", "Worker"} |-> LegacySpec(j, rt)]
          /\ lk.specs = [rt \in {"Launcher", "Worker"} |-> LegacySpec(k, rt)]
      BY <1>7, <1>9, <2>2 DEF LegacyIs
    <3>2. LegacySpec(j, "Launcher") = LegacySpec(k, "Launcher")
      BY <1>4, <1>7 DEF LegacySpec
    <3>3. LegacySpec(j, "Worker").policy = j.specs["Worker"].policy
      <4> DEFINE u == processingUnitsPerWorker(j.units, j.perNode)
      <4>1. LegacySpec(j, "Worker") =
              IF "Worker" \in DOMAIN j.specs /\ j.specs["Worker"].replicas # Unset THEN j.specs["Worker"]
              ELSE [replicas |-> u, policy |-> IF "Worker" \in DOMAIN j.specs THEN j.specs["Worker"].policy ELSE NoPolicy]
        BY Zenon DEF LegacySpec
      <4> HIDE DEF u
      <4> QED BY <4>1
    <3>4. LegacySpec(k, "Worker") = w
      <4> DEFINE u == processingUnitsPerWorker(k.units, k.perNode)
      <4>1. LegacySpec(k, "Worker") =
              IF "Worker" \in DOMAIN k.specs /\ k.specs["Worker"].replicas # Unset THEN k.specs["Worker"]
              ELSE [replicas |-> u, policy |-> IF "Worker" \in DOMAIN k.specs THEN k.specs["Worker"].policy ELSE NoPolicy]
        BY Zenon DEF LegacySpec
      <4> HIDE DEF u
      <4>2. n # Unset
        BY DEF Unset
      <4> QED BY <1>3, <1>4, <1>7, <4>1, <4>2
    <3> QED BY <1>3, <3>1, <3>2, <3>3, <3>4
  <2> QED BY <1>1, <2>1, <2>2
<1>13. \A rt \in DOMAIN lj.specs : Effective(k).specs[rt].policy = Effective(j).specs[rt].policy
  <2> SUFFICES ASSUME NEW rt \in DOMAIN lj.specs
               PROVE  Effective(k).specs[rt].policy = Effective(j).specs[rt].policy
    OBVIOUS
  <2>1. \A spec : FilledIn(j.kind, rt, spec).policy =
                    IF spec.policy = NoPolicy THEN PolicyFor(j.kind, rt) ELSE spec.policy
    BY DEF FilledIn
  <2>2. Effective(j).specs[rt] = FilledIn(j.kind, rt, lj.specs[rt])
    BY <1>11
  <2>3. Effective(k).specs[rt] = FilledIn(j.kind, rt, lk.specs[rt])
    BY <1>11, <1>12
  <2>4. lj.specs[rt].policy = lk.specs[rt].policy
    BY <1>12
  <2> QED BY <2>1, <2>2, <2>3, <2>4
<1> QED BY <1>4, <1>7, <1>8, <1>11, <1>12, <1>13 DEF k

-----------------------------------------------------------------------------
(***************************************************************************)
(* Conditions.                                                             *)
(***************************************************************************)
LEMMA SetConditionFacts ==
  ASSUME NEW conds \in Conditions, NEW t \in ConditionType
  PROVE  LET c == setCondition(conds, t)
         IN  /\ c \in Conditions /\ (Finished(conds) => c = conds)
             /\ ~Finished(conds) => IsSucceeded(c) = (t = "Succeeded") /\ IsFailed(c) = (t = "Failed")
<1> DEFINE c == setCondition(conds, t)
           d == [u \in ConditionType |-> IF u = t THEN "true" ELSE filterOutCondition(conds, t, u)]
<1>1. CASE Finished(conds)
  BY <1>1 DEF setCondition
<1>2. CASE ~Finished(conds)
  <2>1. c = d
    BY <1>2, Zenon DEF setCondition
  <2>2. ASSUME NEW u \in ConditionType
        PROVE  filterOutCondition(conds, t, u) \in {"absent", "false", conds[u]}
    BY Zenon DEF filterOutCondition
  <2>3. d \in Conditions
    <3>1. \A u \in ConditionType : conds[u] \in ConditionStatus
      BY DEF Conditions
    <3> QED BY <2>2, <3>1 DEF Conditions, ConditionStatus
  <2>4. ASSUME NEW u \in {"Succeeded", "Failed"}
        PROVE  d[u] = "true" <=> u = t
    <3>1. u \in ConditionType /\ conds[u] # "true"
      BY <1>2 DEF ConditionType, Finished, IsSucceeded, IsFailed, HasCondition
    <3>2. filterOutCondition(conds, t, u) # "true"
      BY <2>2, <3>1
    <3> QED BY <3>1, <3>2
  <2>5. IsSucceeded(d) = (t = "Succeeded") /\ IsFailed(d) = (t = "Failed")
    BY <2>4 DEF IsSucceeded, IsFailed, HasCondition
  <2> HIDE DEF c, d
  <2>6. c \in Conditions /\ IsSucceeded(c) = (t = "Succeeded") /\ IsFailed(c) = (t = "Failed")
    BY <2>1, <2>3, <2>5
  <2> QED BY <1>2, <2>6 DEF c
<1> QED BY <1>1, <1>2

(* A status in the making says completed when it has a verdict, and has no *)
(* verdict without reason.                                                 *)
Result == [conds : Conditions, completed : BOOLEAN, stop : BOOLEAN]

Just(fails, wins) ==
  {r \in Result : /\ r.completed = Finished(r.conds)
                  /\ IsFailed(r.conds) => fails
                  /\ IsSucceeded(r.conds) => wins}

LEMMA MarkFacts ==
  ASSUME NEW r \in Result, NEW t \in ConditionType
  PROVE  LET m == Mark(r, t)
         IN  /\ m \in Result /\ m.conds = setCondition(r.conds, t)
             /\ m.completed = r.completed /\ m.stop = r.stop
<1>1. r.conds \in Conditions /\ setCondition(r.conds, t) \in Conditions
  BY SetConditionFacts DEF Result
<1> QED BY <1>1 DEF Mark, Result

LEMMA MarkJust ==
  ASSUME NEW fails, NEW wins, NEW r \in Just(fails, wins), NEW t \in {"Running", "Restarting"}
  PROVE  /\ Mark(r, t) \in Just(fails, wins)
         /\ Mark(r, t).stop = r.stop /\ (Finished(r.conds) => Finished(Mark(r, t).conds))
<1>1. r \in Result /\ r.conds \in Conditions /\ t \in ConditionType
  BY DEF Just, Result, ConditionType
<1> DEFINE c == setCondition(r.conds, t)
<1>2. /\ Finished(r.conds) => c = r.conds
      /\ ~Finished(r.conds) => IsSucceeded(c) = (t = "Succeeded") /\ IsFailed(c) = (t = "Failed")
  BY <1>1, SetConditionFacts
<1>3. LET m == Mark(r, t) IN m \in Result /\ m.conds = c /\ m.completed = r.completed /\ m.stop = r.stop
  BY <1>1, MarkFacts
<1> HIDE DEF c
<1>4. ~Finished(r.conds) => ~IsSucceeded(c) /\ ~IsFailed(c)
  BY <1>2
<1> QED BY <1>2, <1>3, <1>4 DEF Just, Finished

LEMMA CompleteJust ==
  ASSUME NEW fails, NEW wins, NEW r \in Just(fails, wins), NEW t \in {"Succeeded", "Failed"},
         t = "Succeeded" => wins, t = "Failed" => fails
  PROVE  /\ Complete(r, t) \in Just(fails, wins)
         /\ Finished(Complete(r, t).conds) /\ Complete(r, t).stop = r.stop
<1>1. r \in Result /\ r.conds \in Conditions /\ t \in ConditionType
  BY DEF Just, Result, ConditionType
<1> DEFINE c == setCondition(r.conds, t)
           m == Mark(r, t)
           d == Complete(r, t)
<1>2. /\ Finished(r.conds) => c = r.conds
      /\ ~Finished(r.conds) => IsSucceeded(c) = (t = "Succeeded") /\ IsFailed(c) = (t = "Failed")
  BY <1>1, SetConditionFacts
<1>3. m \in Result /\ m.conds = c /\ m.stop = r.stop
  BY <1>1, MarkFacts
<1> HIDE DEF c
<1>4. d = [m EXCEPT !.completed = TRUE]
  BY DEF Complete
<1> HIDE DEF m
<1>5. d \in Result /\ d.conds = c /\ d.completed = TRUE /\ d.stop = r.stop
  <2> HIDE DEF d
  <2> QED BY <1>3, <1>4 DEF Result
<1>6. Finished(c)
  <2>1. CASE Finished(r.conds)
    BY <1>2, <2>1
  <2>2. CASE ~Finished(r.conds)
    BY <1>2, <2>2 DEF Finished
  <2> QED BY <2>1, <2>2
<1>7. (IsFailed(c) => fails) /\ (IsSucceeded(c) => wins)
  <2>1. CASE Finished(r.conds)
    BY <1>2, <2>1 DEF Just
  <2>2. CASE ~Finished(r.conds)
    BY <1>2, <2>2
  <2> QED BY <2>1, <2>2
<1> HIDE DEF d
<1> QED BY <1>5, <1>6, <1>7 DEF Just, d

LEMMA StopJust ==
  ASSUME NEW fails, NEW wins, NEW r \in Just(fails, wins)
  PROVE  Stop(r) \in Just(fails, wins) /\ Stop(r).conds = r.conds
<1>1. r \in Result
  BY DEF Just
<1>2. Stop(r) \in Result /\ Stop(r).conds = r.conds /\ Stop(r).completed = r.completed
  BY <1>1 DEF Stop, Result
<1> QED BY <1>2 DEF Just

-----------------------------------------------------------------------------
(***************************************************************************)
(* Slots and counts of pods.                                               *)
(***************************************************************************)
LEMMA TypesAreTypes == \A kind \in Kinds : Types(kind) \subseteq RTypes
BY TypesOfKinds DEF Kinds, RTypes

LEMMA WantedFacts ==
  ASSUME NEW s, NEW rt \in RTypes, rt \in DOMAIN s.specs, s.specs[rt].replicas \in Nat
  PROVE  /\ IsFiniteSet(Wanted(s, rt)) /\ Cardinality(Wanted(s, rt)) <= s.specs[rt].replicas
         /\ s.specs[rt].replicas <= MaxReplicas => Cardinality(Wanted(s, rt)) = s.specs[rt].replicas
<1> DEFINE m == s.specs[rt].replicas
           k == IF m <= MaxReplicas THEN m ELSE MaxReplicas
           I == 0..k - 1
           f == [i \in I |-> <<rt, i>>]
<1>1. m \in Nat /\ k \in Nat /\ k <= m /\ (m <= MaxReplicas => k = m) /\ k <= MaxReplicas
  BY WorkloadsAssumption
<1>2. \A i \in 0..MaxReplicas - 1 : i < m <=> i \in I
  BY WorkloadsAssumption
<1>3. \A p : p \in Wanted(s, rt) <=> \E i \in 0..MaxReplicas - 1 : p = <<rt, i>> /\ i < m
  BY DEF Wanted, InRange, Slots
<1> HIDE DEF m
<1>4. I \subseteq 0..MaxReplicas - 1
  BY <1>1, WorkloadsAssumption
<1>5. \A p : p \in Wanted(s, rt) <=> \E i \in I : p = <<rt, i>>
  BY <1>2, <1>3, <1>4
<1> HIDE DEF I
<1>6. f \in Bijection(I, Wanted(s, rt))
  <2>1. f \in [I -> Wanted(s, rt)]
    BY <1>5
  <2>2. \A a, b \in I : f[a] = f[b] => a = b
    OBVIOUS
  <2>3. \A p \in Wanted(s, rt) : \E i \in I : f[i] = p
    BY <1>5
  <2> QED BY <2>1, <2>2, <2>3 DEF Bijection, Injection, Surjection, IsInjective
<1>7. ExistsBijection(I, Wanted(s, rt))
  <2> HIDE DEF f
  <2> QED BY <1>6 DEF ExistsBijection
<1>8. IsFiniteSet(I) /\ Cardinality(I) = k
  <2> HIDE DEF k
  <2>1. k - 1 \in Int /\ 0 \in Int
    BY <1>1
  <2>2. IsFiniteSet(0..k - 1) /\ Cardinality(0..k - 1) = IF 0 > k - 1 THEN 0 ELSE k - 1 - 0 + 1
    BY <2>1, FS_Interval
  <2> QED BY <1>1, <2>2 DEF I
<1>9. IsFiniteSet(Wanted(s, rt)) /\ Cardinality(Wanted(s, rt)) = k
  BY <1>7, <1>8, FS_Bijection
<1> QED BY <1>1, <1>9 DEF m

LEMMA CountedFacts ==
  ASSUME NEW s, NEW rt \in RTypes, rt \in DOMAIN s.specs, s.specs[rt].replicas \in Nat, NEW phases
  PROVE  /\ Counted(s, rt, phases) \in Nat
         /\ Counted(s, rt, phases) > 0 => \E p \in Wanted(s, rt) : pods[p].phase \in phases
         /\ Counted(s, rt, phases) = s.specs[rt].replicas => \A p \in Wanted(s, rt) : pods[p].phase \in phases
<1> DEFINE W == Wanted(s, rt)
           C == {p \in W : pods[p].phase \in phases}
<1>1. IsFiniteSet(W) /\ Cardinality(W) <= s.specs[rt].replicas
  BY WantedFacts
<1> HIDE DEF W
<1>2. C \in SUBSET W
  OBVIOUS
<1>3. IsFiniteSet(C) /\ Cardinality(C) <= Cardinality(W) /\ (Cardinality(W) = Cardinality(C) => W = C)
  BY <1>1, <1>2, FS_Subset
<1>4. Cardinality(C) \in Nat /\ Cardinality(W) \in Nat /\ (Cardinality(C) = 0 <=> C = {})
  BY <1>1, <1>3, FS_CardinalityType, FS_EmptySet
<1>5. Counted(s, rt, phases) = Cardinality(C)
  BY DEF Counted, W
<1>6. Cardinality(C) > 0 => \E p \in W : pods[p].phase \in phases
  BY <1>4
<1>7. Cardinality(C) = s.specs[rt].replicas => \A p \in W : pods[p].phase \in phases
  <2> SUFFICES ASSUME Cardinality(C) = s.specs[rt].replicas PROVE \A p \in W : pods[p].phase \in phases
    OBVIOUS
  <2>1. W = C
    BY <1>1, <1>3, <1>4
  <2> QED BY <2>1
<1> QED BY <1>4, <1>5, <1>6, <1>7 DEF W

-----------------------------------------------------------------------------
(***************************************************************************)
(* The DAG.                                                                *)
(***************************************************************************)
LEMMA Roots ==
  ASSUME NEW s, NEW rt
  PROVE  /\ ~s.dag => DependOn(s, rt) = {}
         /\ s.kind \in {"XDL", "ElasticDL"} => DependOn(s, rt) = {}
         /\ rt \in {"AIMaster", "Scheduler"} => DependOn(s, rt) = {}
         /\ s.kind = "XGBoost" /\ rt = "Master" => DependOn(s, rt) = {}
         /\ "AIMaster" \notin DOMAIN s.specs /\ rt = "Master" => DependOn(s, rt) = {}
         /\ "AIMaster" \notin DOMAIN s.specs /\ s.kind = "ElasticBatch" => DependOn(s, rt) = {}
         /\ s.kind = "PyTorch" /\ rt = "Worker" => DependOn(s, rt) \subseteq {"Master"}
BY DEF DependOn, Upstream

LEMMA RootsAreVisited ==
  ASSUME NEW s, Settled(job, s), ~Frozen(s), NEW rt \in DOMAIN s.specs, dagConditionsReady(s, rt)
  PROVE  rt \in Visited(s)
<1>1. rt \in ToSet(GetReconcileOrders(s.kind))
  BY DEF Settled, Types
<1> QED BY <1>1 DEF Visited

LEMMA NothingToWaitFor ==
  ASSUME NEW s, NEW rt, DependOn(s, rt) = {}
  PROVE  dagConditionsReady(s, rt)
BY DEF dagConditionsReady

LEMMA CountsFacts ==
  ASSUME NEW s, NEW v, NEW rt \in RTypes
  PROVE  LET n == updateJobReplicaStatuses(s, v)
         IN  /\ rt \notin v => n[rt] = status.replicas[rt]
             /\ rt \in v => /\ n[rt].seen = TRUE
                            /\ n[rt].active = Counted(s, rt, {"Running"})
                            /\ n[rt].succeeded = Counted(s, rt, {"Succeeded"})
                            /\ n[rt].failed = Counted(s, rt, Failed)
BY DEF updateJobReplicaStatuses

-----------------------------------------------------------------------------
(***************************************************************************)
(* One visit.  fails and wins are the reasons there are for a verdict.     *)
(***************************************************************************)
LEMMA VerdictJust ==
  ASSUME NEW fails, NEW wins, NEW r \in Just(fails, wins), NEW restart, ~restart => fails
  PROVE  LET q == RestartingOrFailed(r, restart)
         IN  /\ q \in Just(fails, wins) /\ q.stop = r.stop
             /\ Finished(r.conds) => Finished(q.conds)
<1>1. CASE restart
  BY <1>1, MarkJust DEF RestartingOrFailed
<1>2. CASE ~restart
  BY <1>2, CompleteJust DEF RestartingOrFailed
<1> QED BY <1>1, <1>2

(* Kinds that may be told Running, then Succeeded, then the failure. *)
LEMMA ThreeSteps ==
  ASSUME NEW fails, NEW wins, NEW r \in Just(fails, wins), NEW active, NEW succ, NEW failed, NEW restart,
         succ => wins, failed /\ ~restart => fails
  PROVE  LET ran == When(active, Mark(r, "Running"), r)
             won == When(succ, Complete(ran, "Succeeded"), ran)
             q   == When(failed, RestartingOrFailed(won, restart), won)
         IN  /\ q \in Just(fails, wins) /\ q.stop = r.stop
             /\ Finished(r.conds) \/ succ => Finished(q.conds)
<1> DEFINE ran == When(active, Mark(r, "Running"), r)
           won == When(succ, Complete(ran, "Succeeded"), ran)
           q   == When(failed, RestartingOrFailed(won, restart), won)
<1>1. ran \in Just(fails, wins) /\ ran.stop = r.stop /\ (Finished(r.conds) => Finished(ran.conds))
  BY MarkJust DEF When
<1> HIDE DEF ran
<1>2. won \in Just(fails, wins) /\ won.stop = r.stop /\ (Finished(r.conds) \/ succ => Finished(won.conds))
  BY <1>1, CompleteJust DEF When
<1> HIDE DEF won
<1>3. q \in Just(fails, wins) /\ q.stop = r.stop /\ (Finished(r.conds) \/ succ => Finished(q.conds))
  <2>1. CASE failed
    <3>1. ~restart => fails
      BY <2>1
    <3>2. q = RestartingOrFailed(won, restart)
      BY <2>1 DEF When
    <3>3. LET v == RestartingOrFailed(won, restart)
          IN  v \in Just(fails, wins) /\ v.stop = won.stop /\ (Finished(won.conds) => Finished(v.conds))
      BY <1>2, <3>1, VerdictJust
    <3>4. q \in Just(fails, wins) /\ q.stop = won.stop /\ (Finished(won.conds) => Finished(q.conds))
      <4> HIDE DEF q
      <4> QED BY <3>2, <3>3, Zenon
    <3> HIDE DEF q
    <3> QED BY <1>2, <3>4, Zenon
  <2>2. CASE ~failed
    BY <1>2, <2>2 DEF When
  <2> QED BY <2>1, <2>2
<1> QED BY <1>3 DEF q, won, ran

PyTorchWins(s, n, rt) ==
  /\ rt \in {"Master", "AIMaster"} /\ s.specs[rt].replicas > 0 /\ n[rt].succeeded = s.specs[rt].replicas
  /\ rt = "AIMaster" \/ allWorkersSucceed(s, n)

LEMMA PyTorchVisitJust ==
  ASSUME NEW fails, NEW wins, NEW r \in Just(fails, wins), NEW s, NEW n, NEW restart, NEW rt,
         n[rt].failed > 0 /\ (~restart \/ rt = "AIMaster") => fails, PyTorchWins(s, n, rt) => wins
  PROVE  LET q == PyTorchVisit(s, n, restart, r, rt)
         IN  /\ q \in Just(fails, wins) /\ q.stop = r.stop
             /\ Finished(r.conds) \/ PyTorchWins(s, n, rt) => Finished(q.conds)
<1> DEFINE active == rt \in {"Master", "AIMaster"} /\ n[rt].active > 0
           failed == n[rt].failed > 0
           again  == restart /\ rt # "AIMaster"
           ran == When(active, Mark(r, "Running"), r)
           won == When(PyTorchWins(s, n, rt), Complete(ran, "Succeeded"), ran)
<1>1. PyTorchVisit(s, n, restart, r, rt) = When(failed, RestartingOrFailed(won, again), won)
  BY Zenon DEF PyTorchVisit, PyTorchWins
<1>2. failed /\ ~again => fails
  OBVIOUS
<1> HIDE DEF active, failed, again
<1> QED BY <1>1, <1>2, ThreeSteps

ElasticBatchWins(s, n, rt) ==
  /\ n[rt].succeeded = s.specs[rt].replicas
  /\ (rt # "AIMaster" /\ s.allWorkers) => allWorkersSucceed(s, n)

LEMMA ElasticBatchVisitJust ==
  ASSUME NEW fails, NEW wins, NEW r \in Just(fails, wins), NEW s, NEW n, NEW restart, NEW rt,
         n[rt].failed > 0 /\ (~restart \/ rt = "AIMaster") => fails, ElasticBatchWins(s, n, rt) => wins
  PROVE  ElasticBatchVisit(s, n, restart, r, rt) \in Just(fails, wins)
<1> DEFINE active == n[rt].active > 0
           failed == n[rt].failed > 0
           again  == restart /\ rt # "AIMaster"
           ran == When(active, Mark(r, "Running"), r)
           won == When(ElasticBatchWins(s, n, rt), Complete(ran, "Succeeded"), ran)
<1>1. ElasticBatchVisit(s, n, restart, r, rt) = When(failed, RestartingOrFailed(won, again), won)
  BY Zenon DEF ElasticBatchVisit, ElasticBatchWins
<1>2. failed /\ ~again => fails
  OBVIOUS
<1> HIDE DEF active, failed, again
<1> QED BY <1>1, <1>2, ThreeSteps

AllSucceeded(s, n, rt) == n[rt].succeeded = s.specs[rt].replicas

LEMMA ElasticDLVisitJust ==
  ASSUME NEW fails, NEW wins, NEW r \in Just(fails, wins), NEW s, NEW n, NEW restart, NEW rt,
         n[rt].failed > 0 /\ ~restart => fails, AllSucceeded(s, n, rt) => wins
  PROVE  ElasticDLVisit(s, n, restart, r, rt) \in Just(fails, wins)
<1> DEFINE active == n[rt].active > 0
           failed == n[rt].failed > 0
           ran == When(active, Mark(r, "Running"), r)
           won == When(AllSucceeded(s, n, rt), Complete(ran, "Succeeded"), ran)
<1>1. ElasticDLVisit(s, n, restart, r, rt) = When(failed, RestartingOrFailed(won, restart), won)
  BY Zenon DEF ElasticDLVisit, AllSucceeded
<1>2. failed /\ ~restart => fails
  OBVIOUS
<1> HIDE DEF active, failed
<1> QED BY <1>1, <1>2, ThreeSteps

LEMMA XGBoostVisitJust ==
  ASSUME NEW fails, NEW wins, NEW r \in Just(fails, wins), NEW s, NEW n, NEW restart, NEW rt,
         n[rt].failed > 0 /\ ~restart => fails, rt = "Master" /\ AllSucceeded(s, n, rt) => wins
  PROVE  XGBoostVisit(s, n, restart, r, rt) \in Just(fails, wins)
<1> DEFINE active == rt = "Master" /\ n[rt].active > 0
           failed == n[rt].failed > 0
           succ == rt = "Master" /\ AllSucceeded(s, n, rt)
           ran == When(active, Mark(r, "Running"), r)
<1>1. XGBoostVisit(s, n, restart, r, rt) =
        IF succ THEN Stop(Complete(ran, "Succeeded")) ELSE When(failed, RestartingOrFailed(ran, restart), ran)
  BY Zenon DEF XGBoostVisit, AllSucceeded
<1>2. failed /\ ~restart => fails
  OBVIOUS
<1>3. succ => wins
  OBVIOUS
<1> HIDE DEF active, failed, succ
<1>4. ran \in Just(fails, wins)
  BY MarkJust DEF When
<1> HIDE DEF ran
<1>5. succ => Stop(Complete(ran, "Succeeded")) \in Just(fails, wins)
  BY <1>3, <1>4, CompleteJust, StopJust
<1>6. When(failed, RestartingOrFailed(ran, restart), ran) \in Just(fails, wins)
  BY <1>2, <1>4, VerdictJust DEF When
<1> QED BY <1>1, <1>5, <1>6

LEMMA XDLVisitJust ==
  ASSUME NEW fails, NEW wins, NEW r \in Just(fails, wins), NEW s, NEW n, NEW restart, NEW rt,
         n[rt].failed > 0 /\ ~restart => fails
  PROVE  XDLVisit(s, n, restart, r, rt) \in Just(fails, wins)
<1>1. CASE n[rt].failed > 0
  <2>1. XDLVisit(s, n, restart, r, rt) = Stop(RestartingOrFailed(r, restart))
    BY <1>1 DEF XDLVisit, When
  <2>2. RestartingOrFailed(r, restart) \in Just(fails, wins)
    BY <1>1, VerdictJust
  <2> QED BY <2>1, <2>2, StopJust
<1>2. CASE ~(n[rt].failed > 0)
  BY <1>2 DEF XDLVisit, When
<1> QED BY <1>1, <1>2

LEMMA MarsVisitJust ==
  ASSUME NEW fails, NEW wins, NEW r \in Just(fails, wins), NEW s, NEW n, NEW restart, NEW rt,
         n[rt].failed > 0 /\ rt = "Scheduler" => fails, rt = "Scheduler" /\ AllSucceeded(s, n, rt) => wins
  PROVE  MarsVisit(s, n, restart, r, rt) \in Just(fails, wins)
<1> DEFINE lost == IF rt = "Scheduler" THEN Complete(r, "Failed") ELSE When(restart, Mark(r, "Restarting"), r)
           succ == rt = "Scheduler" /\ AllSucceeded(s, n, rt)
<1>1. MarsVisit(s, n, restart, r, rt) =
        IF n[rt].failed > 0 THEN Stop(lost) ELSE When(succ, Stop(Complete(r, "Succeeded")), r)
  BY Zenon DEF MarsVisit, AllSucceeded
<1>2. n[rt].failed > 0 => lost \in Just(fails, wins)
  BY MarkJust, CompleteJust DEF When
<1>3. succ => Complete(r, "Succeeded") \in Just(fails, wins)
  BY CompleteJust
<1> HIDE DEF lost, succ
<1>4. n[rt].failed > 0 => Stop(lost) \in Just(fails, wins)
  BY <1>2, StopJust
<1>5. succ => Stop(Complete(r, "Succeeded")) \in Just(fails, wins)
  BY <1>3, StopJust
<1> QED BY <1>1, <1>4, <1>5 DEF When

-----------------------------------------------------------------------------
(***************************************************************************)
(* The inductive invariant.  Pods and counts are of types the job has; a   *)
(* pod that failed for good is remembered; a job without a verdict has no  *)
(* count of an earlier sync that would give it one when its type is not    *)
(* visited (MPI's launcher behind its workers, the PyTorch master behind   *)
(* an AIMaster); and members of a process group have the ranks of their    *)
(* slots.                                                                  *)
(***************************************************************************)
Placed == \A p \in Slots : Exists(p) => p[1] \in DOMAIN Effective(job).specs

Seen == \A rt \in RTypes : status.replicas[rt].seen => rt \in DOMAIN Effective(job).specs

Blamed == \A p \in Slots : pods[p].phase \in Failed /\ Final(p, pods[p].phase) => p \in hist

Undecided ==
  ~Finished(status.conds) =>
    /\ job.kind = "MPI" => status.replicas["Launcher"].succeeded = 0
    /\ job.kind = "PyTorch" /\ "Worker" \notin DOMAIN job.specs => status.replicas["Master"].succeeded # 1

Ranked ==
  job.kind = "PyTorch" =>
    \A p \in Slots : Exists(p) /\ p[1] # "AIMaster" =>
      /\ p[1] = "Master" => p[2] = 0
      /\ pods[p].rank = IF p[1] = "Master" THEN p[2] ELSE p[2] + 1
      /\ pods[p].world \in Nat /\ pods[p].rank < pods[p].world

(* What a job may fail and succeed for. *)
Fails == ~job.dag => hist # {}
Wins(s) == Earned(s) \/ AIMasterGates(job)

Inv ==
  /\ TypeOK /\ status.completed = Finished(status.conds) /\ (IsFailed(status.conds) => Fails)
  /\ Placed /\ Seen /\ Blamed /\ Undecided /\ Ranked

-----------------------------------------------------------------------------
(***************************************************************************)
(* A sync that reaches the verdict: s is what it takes the job for, n are  *)
(* the counts, and restart tells whether a pod fails over.                 *)
(***************************************************************************)
Syncs(s, n, restart) ==
  /\ s = Effective(job) /\ ~Frozen(s) /\ ~Finished(status.conds)
  /\ \A rt \in DOMAIN s.specs : s.specs[rt].replicas \in Nat
  /\ n = updateJobReplicaStatuses(s, Visited(s)) /\ restart = Restart(s, Visited(s))

LEMMA SyncFacts ==
  ASSUME Inv, NEW s, NEW n, NEW restart, Syncs(s, n, restart)
  PROVE  /\ Settled(job, s) /\ Sized(job, s) /\ (s.kind # "MPI" => DOMAIN s.specs = DOMAIN job.specs)
         /\ DOMAIN s.specs \subseteq RTypes /\ Visited(s) \subseteq DOMAIN s.specs
<1>1. /\ Settled(job, s) /\ Sized(job, s) /\ (s.kind # "MPI" => DOMAIN s.specs = DOMAIN job.specs)
  BY EffectiveFacts DEF Inv, TypeOK, Syncs
<1>2. DOMAIN s.specs \subseteq RTypes
  BY <1>1, TypesAreTypes DEF Settled
<1> QED BY <1>1, <1>2 DEF Visited

(* The counts of a type that is visited are those of its pods. *)
LEMMA FreshCounts ==
  ASSUME Inv, NEW s, NEW n, NEW restart, Syncs(s, n, restart), NEW rt \in Visited(s)
  PROVE  /\ n[rt].seen = TRUE /\ n[rt].active \in Nat /\ n[rt].succeeded \in Nat /\ n[rt].failed \in Nat
         /\ n[rt].failed > 0 => \E p \in Wanted(s, rt) : pods[p].phase \in Failed
         /\ n[rt].succeeded > 0 => \E p \in Wanted(s, rt) : pods[p].phase = "Succeeded"
         /\ AllSucceeded(s, n, rt) => \A p \in Wanted(s, rt) : pods[p].phase = "Succeeded"
<1>1. rt \in RTypes /\ rt \in DOMAIN s.specs /\ s.specs[rt].replicas \in Nat
  BY SyncFacts DEF Syncs
<1>2. /\ n[rt].seen = TRUE
      /\ n[rt].active = Counted(s, rt, {"Running"})
      /\ n[rt].succeeded = Counted(s, rt, {"Succeeded"})
      /\ n[rt].failed = Counted(s, rt, Failed)
  BY <1>1, CountsFacts DEF Syncs
<1>3. \A phases : /\ Counted(s, rt, phases) \in Nat
                  /\ Counted(s, rt, phases) > 0 => \E p \in Wanted(s, rt) : pods[p].phase \in phases
                  /\ Counted(s, rt, phases) = s.specs[rt].replicas
                       => \A p \in Wanted(s, rt) : pods[p].phase \in phases
  BY <1>1, CountedFacts
<1>4. AllSucceeded(s, n, rt) => \A p \in Wanted(s, rt) : pods[p].phase = "Succeeded"
  BY <1>2, <1>3 DEF AllSucceeded
<1> QED BY <1>2, <1>3, <1>4

(* The others keep theirs. *)
LEMMA StaleCounts ==
  ASSUME NEW s, NEW n, NEW restart, Syncs(s, n, restart), NEW rt \in RTypes, rt \notin Visited(s)
  PROVE  n[rt] = status.replicas[rt]
<1>1. n = updateJobReplicaStatuses(s, Visited(s))
  BY DEF Syncs
<1>2. updateJobReplicaStatuses(s, Visited(s))[rt] = status.replicas[rt]
  BY CountsFacts
<1> QED BY <1>1, <1>2

LEMMA VisitedRoots ==
  ASSUME Inv, NEW s, NEW n, NEW restart, Syncs(s, n, restart), NEW rt \in DOMAIN s.specs, DependOn(s, rt) = {}
  PROVE  rt \in Visited(s)
BY SyncFacts, NothingToWaitFor, RootsAreVisited DEF Syncs

(* A count of failures that is not restarted tells of a pod that failed    *)
(* for good, unless the DAG has kept the count from an earlier sync.       *)
LEMMA ReasonsToFail ==
  ASSUME Inv, NEW s, NEW n, NEW restart, Syncs(s, n, restart), NEW rt \in DOMAIN s.specs,
         n[rt].failed > 0, ~restart \/ rt \in {"AIMaster", "Scheduler", "Launcher"}
  PROVE  Fails
<1> SUFFICES ASSUME ~job.dag PROVE hist # {}
  BY DEF Fails
<1>1. Settled(job, s) /\ s.dag = job.dag
  BY SyncFacts DEF Settled
<1>2. rt \in Visited(s)
  BY <1>1, Roots, VisitedRoots
<1>3. PICK p \in Wanted(s, rt) : pods[p].phase \in Failed
  BY <1>2, FreshCounts
<1>4. p \in Slots /\ p[1] = rt /\ InRange(s, p)
  BY DEF Wanted
<1>5. PodPolicy(p) = s.specs[rt].policy
  BY <1>4 DEF PodPolicy, Syncs
<1>6. Final(p, pods[p].phase)
  <2>1. CASE rt \in {"AIMaster", "Scheduler", "Launcher"}
    BY <1>4, <2>1 DEF Final
  <2>2. CASE ~restart
    <3>1. ~Restart(s, Visited(s))
      BY <2>2 DEF Syncs
    <3>2. ~ShouldPodFailOver(s, p)
      BY <1>2, <1>4, <3>1 DEF Restart
    <3> QED BY <1>3, <1>4, <1>5, <3>2 DEF ShouldPodFailOver, Final, Failed
  <2> QED BY <2>1, <2>2
<1> QED BY <1>3, <1>4, <1>6 DEF Inv, Blamed

(***************************************************************************)
(* What makes a kind declare success is that its pods have succeeded.      *)
(***************************************************************************)
LEMMA XGBoostEarns ==
  ASSUME Inv, NEW s, NEW n, NEW restart, Syncs(s, n, restart), s.kind = "XGBoost",
         "Master" \in DOMAIN s.specs, AllSucceeded(s, n, "Master")
  PROVE  Wins(s)
<1>1. \A p \in Wanted(s, "Master") : pods[p].phase = "Succeeded"
  BY Roots, VisitedRoots, FreshCounts
<1> QED BY <1>1, Zenon DEF Wins, Earned

LEMMA ElasticDLEarns ==
  ASSUME Inv, NEW s, NEW n, NEW restart, Syncs(s, n, restart), s.kind = "ElasticDL",
         NEW rt \in DOMAIN s.specs, AllSucceeded(s, n, rt)
  PROVE  Wins(s)
<1>1. rt = "Master"
  BY SyncFacts, TypesOfKinds DEF Settled
<1>2. \A p \in Wanted(s, "Master") : pods[p].phase = "Succeeded"
  BY <1>1, Roots, VisitedRoots, FreshCounts
<1> QED BY <1>2, Zenon DEF Wins, Earned

LEMMA MarsEarns ==
  ASSUME Inv, NEW s, NEW n, NEW restart, Syncs(s, n, restart), s.kind = "Mars",
         "Scheduler" \in DOMAIN s.specs, AllSucceeded(s, n, "Scheduler")
  PROVE  Wins(s)
<1>1. \A p \in Wanted(s, "Scheduler") : pods[p].phase = "Succeeded"
  BY Roots, VisitedRoots, FreshCounts
<1> QED BY <1>1, Zenon DEF Wins, Earned

LEMMA ElasticBatchEarns ==
  ASSUME Inv, NEW s, NEW n, NEW restart, Syncs(s, n, restart), s.kind = "ElasticBatch",
         NEW rt \in DOMAIN s.specs, ElasticBatchWins(s, n, rt)
  PROVE  Wins(s)
<1>1. /\ rt \in {"AIMaster", "Worker"} /\ s.dag = job.dag /\ s.dag \in BOOLEAN
      /\ DOMAIN s.specs = DOMAIN job.specs
  BY SyncFacts, TypesOfKinds DEF Settled
<1>2. AllSucceeded(s, n, rt)
  BY DEF ElasticBatchWins, AllSucceeded
<1>3. CASE DependOn(s, rt) = {}
  <2>1. \A p \in Wanted(s, rt) : pods[p].phase = "Succeeded"
    BY <1>2, <1>3, VisitedRoots, FreshCounts
  <2> QED BY <1>1, <2>1, Zenon DEF Wins, Earned
<1>4. CASE DependOn(s, rt) # {}
  <2>1. rt = "Worker" /\ "AIMaster" \in DOMAIN s.specs /\ s.dag
    BY <1>1, <1>4, Roots
  <2> QED BY <1>1, <2>1 DEF Wins, AIMasterGates
<1> QED BY <1>3, <1>4

LEMMA MPIEarns ==
  ASSUME Inv, NEW s, NEW n, NEW restart, Syncs(s, n, restart), s.kind = "MPI",
         n["Launcher"].succeeded > 0
  PROVE  Wins(s)
<1>1. "Launcher" \in RTypes /\ job.kind = "MPI"
  BY SyncFacts DEF RTypes, Settled
<1>2. "Launcher" \in Visited(s)
  <2> SUFFICES ASSUME "Launcher" \notin Visited(s) PROVE FALSE
    OBVIOUS
  <2>1. n["Launcher"].succeeded = 0
    BY <1>1, StaleCounts DEF Inv, Undecided, Syncs
  <2> QED BY <2>1
<1>3. \E p \in Wanted(s, "Launcher") : pods[p].phase = "Succeeded"
  BY <1>2, FreshCounts
<1> QED BY <1>3, Zenon DEF Wins, Earned

(* The only master is the first slot, so that the workers are visited once *)
(* it has succeeded.                                                       *)
LEMMA MasterLetsWorkersGo ==
  ASSUME Inv, NEW s, NEW n, NEW restart, Syncs(s, n, restart), s.kind = "PyTorch",
         "Master" \in Visited(s), AllSucceeded(s, n, "Master"), "Worker" \in DOMAIN s.specs
  PROVE  "Worker" \in Visited(s)
<1>1. /\ Settled(job, s) /\ Sized(job, s) /\ "Master" \in DOMAIN s.specs /\ job.kind = "PyTorch"
      /\ ~Frozen(s) /\ s.specs["Master"].replicas = 1
  BY SyncFacts DEF Settled, Sized, Syncs
<1>2. \A p \in Wanted(s, "Master") : pods[p].phase = "Succeeded"
  BY FreshCounts
<1>3. <<"Master", 0>> \in Wanted(s, "Master")
  BY <1>1, WorkloadsAssumption DEF Wanted, InRange, Slots, RTypes
<1>4. \A p \in Existing("Master") : p = <<"Master", 0>>
  <2> SUFFICES ASSUME NEW p \in Existing("Master") PROVE p = <<"Master", 0>>
    OBVIOUS
  <2>1. p \in Slots /\ p[1] = "Master" /\ Exists(p)
    BY DEF Existing
  <2>2. p[2] = 0
    BY <1>1, <2>1 DEF Inv, Ranked
  <2> QED BY <2>1, <2>2 DEF Slots
<1>5. Existing("Master") = {<<"Master", 0>>}
  <2>1. <<"Master", 0>> \in Existing("Master")
    BY <1>2, <1>3 DEF Existing, Exists, Wanted
  <2> QED BY <1>4, <2>1
<1>6. Cardinality(Existing("Master")) = 1
  BY <1>5, FS_Singleton
<1>7. \A p \in Existing("Master") : pods[p].phase # "Pending"
  BY <1>2, <1>3, <1>4
<1>8. dagConditionsReady(s, "Worker")
  <2>1. DependOn(s, "Worker") \subseteq {"Master"}
    BY Roots
  <2> QED BY <1>1, <1>6, <1>7, <2>1 DEF dagConditionsReady
<1> QED BY <1>1, <1>8, RootsAreVisited

LEMMA PyTorchEarns ==
  ASSUME Inv, NEW s, NEW n, NEW restart, Syncs(s, n, restart), s.kind = "PyTorch",
         NEW rt \in DOMAIN s.specs, PyTorchWins(s, n, rt)
  PROVE  Wins(s)
<1>1. /\ DOMAIN s.specs \subseteq {"AIMaster", "Master", "Worker"} /\ s.dag = job.dag /\ s.dag \in BOOLEAN
      /\ DOMAIN s.specs = DOMAIN job.specs /\ job.kind = "PyTorch" /\ Sized(job, s)
      /\ rt \in {"Master", "AIMaster"} /\ rt \in RTypes
  BY SyncFacts, TypesOfKinds DEF Settled, PyTorchWins
<1>2. AllSucceeded(s, n, rt)
  BY DEF PyTorchWins, AllSucceeded
<1>3. CASE rt = "AIMaster"
  <2>1. \A p \in Wanted(s, "AIMaster") : pods[p].phase = "Succeeded"
    BY <1>2, <1>3, Roots, VisitedRoots, FreshCounts
  <2>2. "AIMaster" \in DOMAIN s.specs
    BY <1>3
  <2> QED BY <2>1, <2>2, Zenon DEF Wins, Earned
<1>4. CASE rt = "Master" /\ AIMasterGates(job)
  BY <1>4 DEF Wins
<1>5. CASE rt = "Master" /\ ~AIMasterGates(job)
  <2>1. s.specs["Master"].replicas = 1 /\ n["Master"].succeeded = 1 /\ allWorkersSucceed(s, n)
    BY <1>1, <1>2, <1>5 DEF Sized, AllSucceeded, PyTorchWins
  <2>2. ~(s.dag /\ "AIMaster" \in DOMAIN s.specs /\ "Worker" \in DOMAIN s.specs)
    BY <1>1, <1>5 DEF AIMasterGates
  <2>3. "Master" \in Visited(s)
    <3>1. CASE ~s.dag \/ "AIMaster" \notin DOMAIN s.specs
      BY <1>1, <1>5, <3>1, Roots, VisitedRoots
    <3>2. CASE "Worker" \notin DOMAIN s.specs
      <4> SUFFICES ASSUME "Master" \notin Visited(s) PROVE FALSE
        OBVIOUS
      <4>1. status.replicas["Master"].succeeded # 1
        BY <1>1, <3>2 DEF Inv, Undecided, Syncs
      <4> QED BY <1>1, <1>5, <2>1, <4>1, StaleCounts
    <3> QED BY <1>1, <2>2, <3>1, <3>2
  <2>4. \A p \in Wanted(s, "Master") : pods[p].phase = "Succeeded"
    BY <1>2, <1>5, <2>3, FreshCounts
  <2>5. \A p \in Wanted(s, "Worker") : pods[p].phase = "Succeeded"
    <3>1. CASE "Worker" \in DOMAIN s.specs
      <4>1. "Worker" \in Visited(s)
        BY <1>2, <1>5, <2>3, <3>1, MasterLetsWorkersGo
      <4>2. AllSucceeded(s, n, "Worker")
        BY <2>1, <3>1 DEF allWorkersSucceed, AllSucceeded
      <4> QED BY <4>1, <4>2, FreshCounts
    <3>2. CASE "Worker" \notin DOMAIN s.specs
      BY <3>2 DEF Wanted, InRange
    <3> QED BY <3>1, <3>2
  <2> QED BY <2>4, <2>5, Zenon DEF Wins, Earned
<1> QED BY <1>1, <1>3, <1>4, <1>5

-----------------------------------------------------------------------------
(***************************************************************************)
(* XDL: what is finished and what is wanted, added up over the types.      *)
(***************************************************************************)
LEMMA TypesAreFinite == IsFiniteSet(RTypes)
<1>1. IsFiniteSet({"AIMaster"})
  BY FS_Singleton
<1>2. IsFiniteSet({"AIMaster", "PS"})
  <2>1. {"AIMaster", "PS"} = {"AIMaster"} \cup {"PS"}
    OBVIOUS
  <2> QED BY <1>1, <2>1, FS_AddElement
<1>3. IsFiniteSet({"AIMaster", "PS", "Master"})
  <2>1. {"AIMaster", "PS", "Master"} = {"AIMaster", "PS"} \cup {"Master"}
    OBVIOUS
  <2> QED BY <1>2, <2>1, FS_AddElement
<1>4. IsFiniteSet({"AIMaster", "PS", "Master", "Scheduler"})
  <2>1. {"AIMaster", "PS", "Master", "Scheduler"} = {"AIMaster", "PS", "Master"} \cup {"Scheduler"}
    OBVIOUS
  <2> QED BY <1>3, <2>1, FS_AddElement
<1>5. IsFiniteSet({"Launcher", "WebService", "Worker", "ExtendRole"})
  <2>1. IsFiniteSet({"Launcher"})
    BY FS_Singleton
  <2>2. IsFiniteSet({"Launcher", "WebService"})
    <3>1. {"Launcher", "WebService"} = {"Launcher"} \cup {"WebService"}
      OBVIOUS
    <3> QED BY <2>1, <3>1, FS_AddElement
  <2>3. IsFiniteSet({"Launcher", "WebService", "Worker"})
    <3>1. {"Launcher", "WebService", "Worker"} = {"Launcher", "WebService"} \cup {"Worker"}
      OBVIOUS
    <3> QED BY <2>2, <3>1, FS_AddElement
  <2>4. {"Launcher", "WebService", "Worker", "ExtendRole"} = {"Launcher", "WebService", "Worker"} \cup {"ExtendRole"}
    OBVIOUS
  <2> QED BY <2>3, <2>4, FS_AddElement
<1>6. RTypes = {"AIMaster", "PS", "Master", "Scheduler"} \cup {"Launcher", "WebService", "Worker", "ExtendRole"}
  BY DEF RTypes
<1> QED BY <1>4, <1>5, <1>6, FS_Union

LEMMA SumOfTwo ==
  ASSUME NEW S, IsFiniteSet(S), NEW f \in [S -> Nat], NEW D \in SUBSET S, NEW a, NEW b, a # b, D \subseteq {a, b}
  PROVE  SumFunctionOnSet(f, D) = (IF a \in D THEN f[a] ELSE 0) + (IF b \in D THEN f[b] ELSE 0)
<1>1. SumFunctionOnSet(f, {}) = 0
  BY SumStep, FS_EmptySet
<1>2. D = {} => SumFunctionOnSet(f, D) = 0
  BY <1>1
<1>3. \A x \in D : SumFunctionOnSet(f, D) = f[x] + SumFunctionOnSet(f, D \ {x}) /\ f[x] \in Nat
  BY SumTake
<1>4. CASE a \in D /\ b \in D
  <2>1. D \ {a} \in SUBSET S /\ b \in D \ {a} /\ (D \ {a}) \ {b} = {}
    BY <1>4
  <2>2. SumFunctionOnSet(f, D \ {a}) = f[b] + SumFunctionOnSet(f, (D \ {a}) \ {b})
    BY <2>1, SumTake
  <2>3. SumFunctionOnSet(f, D \ {a}) = f[b] + 0
    BY <1>1, <2>1, <2>2
  <2>4. f[b] + 0 = f[b]
    BY <1>3, <1>4
  <2> QED BY <1>3, <1>4, <2>3, <2>4
<1>5. CASE a \in D /\ b \notin D
  <2>1. D \ {a} = {}
    BY <1>5
  <2> QED BY <1>1, <1>3, <1>5, <2>1
<1>6. CASE a \notin D /\ b \in D
  <2>1. D \ {b} = {}
    BY <1>6
  <2> QED BY <1>1, <1>3, <1>6, <2>1
<1>7. CASE a \notin D /\ b \notin D
  BY <1>2, <1>7
<1> QED BY <1>4, <1>5, <1>6, <1>7

(* The counts are counts. *)
LEMMA CountsTyped ==
  ASSUME Inv, NEW s, NEW n, NEW restart, Syncs(s, n, restart)
  PROVE  /\ n \in [RTypes -> ReplicaStatus]
         /\ \A rt \in RTypes : n[rt].seen => rt \in DOMAIN s.specs
<1>1. status.replicas \in [RTypes -> ReplicaStatus]
  BY DEF Inv, TypeOK, Status
<1>2. ASSUME NEW rt \in RTypes
      PROVE  n[rt] \in ReplicaStatus /\ (n[rt].seen => rt \in DOMAIN s.specs)
  <2>1. CASE rt \in Visited(s)
    <3>1. rt \in DOMAIN s.specs
      BY <2>1, SyncFacts
    <3>2. /\ n[rt].seen = TRUE /\ n[rt].active \in Nat /\ n[rt].succeeded \in Nat /\ n[rt].failed \in Nat
      BY <2>1, FreshCounts
    <3>3. n[rt] = [seen |-> TRUE, active |-> n[rt].active, succeeded |-> n[rt].succeeded, failed |-> n[rt].failed]
      BY <2>1 DEF Syncs, updateJobReplicaStatuses
    <3> QED BY <3>1, <3>2, <3>3 DEF ReplicaStatus
  <2>2. CASE rt \notin Visited(s)
    <3>1. n[rt] = status.replicas[rt]
      BY <2>2, StaleCounts
    <3> QED BY <1>1, <3>1 DEF Inv, Seen, Syncs
  <2> QED BY <2>1, <2>2
<1>3. n = [rt \in RTypes |-> n[rt]]
  BY DEF Syncs, updateJobReplicaStatuses
<1> QED BY <1>2, <1>3

(* The pods of a type, none if the job does not have it. *)
LEMMA PodsOfType ==
  ASSUME Inv, NEW s, NEW n, NEW restart, Syncs(s, n, restart), s.kind = "XDL", NEW rt \in RTypes
  PROVE  LET W == Wanted(s, rt)
             D == {p \in W : pods[p].phase = "Succeeded"}
         IN  /\ IsFiniteSet(W) /\ IsFiniteSet(D)
             /\ Cardinality(W) = IF rt \in DOMAIN s.specs THEN s.specs[rt].replicas ELSE 0
             /\ Cardinality(D) = IF rt \in DOMAIN s.specs THEN n[rt].succeeded ELSE 0
<1> DEFINE W == Wanted(s, rt)
           D == {p \in W : pods[p].phase = "Succeeded"}
<1>1. CASE rt \in DOMAIN s.specs
  <2>1. s.specs[rt].replicas \in Nat /\ s.specs[rt].replicas <= MaxReplicas
    <3>1. s.specs[rt].replicas \in 0..MaxReplicas \cup {Unset} /\ s.specs[rt].replicas \in Nat
      BY <1>1, SyncFacts DEF Sized, Syncs
    <3> QED BY <3>1 DEF Unset
  <2>2. IsFiniteSet(W) /\ Cardinality(W) = s.specs[rt].replicas
    BY <1>1, <2>1, WantedFacts
  <2>3. rt \in Visited(s)
    BY <1>1, Roots, VisitedRoots
  <2>4. n[rt].succeeded = Cardinality(D)
    <3>1. n[rt].succeeded = Counted(s, rt, {"Succeeded"})
      BY <2>3, CountsFacts DEF Syncs
    <3>2. D = {p \in Wanted(s, rt) : pods[p].phase \in {"Succeeded"}}
      OBVIOUS
    <3> QED BY <3>1, <3>2 DEF Counted
  <2> HIDE DEF W
  <2>5. D \in SUBSET W
    OBVIOUS
  <2> HIDE DEF D
  <2>6. IsFiniteSet(D)
    BY <2>2, <2>5, FS_Subset
  <2> QED BY <1>1, <2>2, <2>4, <2>6 DEF W, D
<1>2. CASE rt \notin DOMAIN s.specs
  <2>1. W = {} /\ D = {}
    BY <1>2 DEF Wanted, InRange
  <2> HIDE DEF W, D
  <2> QED BY <1>2, <2>1, FS_EmptySet DEF W, D
<1> QED BY <1>1, <1>2

LEMMA RoundsUp ==
  ASSUME NEW x \in Nat, NEW y \in Int, y >= (x + 99) \div 100
  PROVE  100 * y >= x
OBVIOUS

LEMMA Times ==
  ASSUME NEW a \in Nat, NEW b \in Nat
  PROVE  a * b \in Nat /\ a * b = b * a
OBVIOUS

XDLFinished(s, n) ==
  SumFunctionOnSet([rt \in RTypes |-> n[rt].succeeded], {rt \in DOMAIN s.specs \cap {"Worker", "ExtendRole"} : n[rt].seen})
XDLTotal(s, n) == Total(s, {rt \in DOMAIN s.specs \cap {"Worker", "ExtendRole"} : n[rt].seen})

LEMMA XDLCounts ==
  ASSUME Inv, NEW s, NEW n, NEW restart, Syncs(s, n, restart), s.kind = "XDL"
  PROVE  LET workers == Wanted(s, "Worker") \cup Wanted(s, "ExtendRole")
         IN  /\ XDLFinished(s, n) = Cardinality({p \in workers : pods[p].phase = "Succeeded"})
             /\ XDLTotal(s, n) = Cardinality(workers)
             /\ XDLFinished(s, n) \in Nat /\ XDLTotal(s, n) \in Nat
<1> DEFINE D  == {rt \in DOMAIN s.specs \cap {"Worker", "ExtendRole"} : n[rt].seen}
           f  == [rt \in RTypes |-> n[rt].succeeded]
           W1 == Wanted(s, "Worker")
           W2 == Wanted(s, "ExtendRole")
           D1 == {p \in W1 : pods[p].phase = "Succeeded"}
           D2 == {p \in W2 : pods[p].phase = "Succeeded"}
<1>1. "Worker" \in RTypes /\ "ExtendRole" \in RTypes /\ DOMAIN s.specs \subseteq RTypes
  BY SyncFacts DEF RTypes
<1>2. \A rt \in DOMAIN s.specs : n[rt].seen
  BY Roots, VisitedRoots, FreshCounts
<1>3. D = DOMAIN s.specs \cap {"Worker", "ExtendRole"}
  BY <1>2
<1>4. IsFiniteSet(RTypes) /\ IsFiniteSet(DOMAIN s.specs)
  BY <1>1, TypesAreFinite, FS_Subset
<1>5. f \in [RTypes -> Nat]
  BY CountsTyped DEF ReplicaStatus
<1>6. Replicas(s) \in [DOMAIN s.specs -> Nat] /\ \A rt \in DOMAIN s.specs : Replicas(s)[rt] = s.specs[rt].replicas
  BY DEF Replicas, Syncs
<1>7. XDLFinished(s, n) = SumFunctionOnSet(f, D) /\ XDLTotal(s, n) = SumFunctionOnSet(Replicas(s), D)
  BY DEF XDLFinished, XDLTotal, Total
<1>8. D \in SUBSET RTypes /\ D \in SUBSET DOMAIN s.specs /\ D \subseteq {"Worker", "ExtendRole"}
  BY <1>1, <1>3
<1> HIDE DEF D, f
<1>9. SumFunctionOnSet(f, D) = (IF "Worker" \in D THEN f["Worker"] ELSE 0) + (IF "ExtendRole" \in D THEN f["ExtendRole"] ELSE 0)
  BY <1>4, <1>5, <1>8, SumOfTwo
<1>10. SumFunctionOnSet(Replicas(s), D) =
         (IF "Worker" \in D THEN Replicas(s)["Worker"] ELSE 0) + (IF "ExtendRole" \in D THEN Replicas(s)["ExtendRole"] ELSE 0)
  BY <1>4, <1>6, <1>8, SumOfTwo
<1>11. /\ IsFiniteSet(W1) /\ IsFiniteSet(D1)
       /\ Cardinality(W1) = IF "Worker" \in DOMAIN s.specs THEN s.specs["Worker"].replicas ELSE 0
       /\ Cardinality(D1) = IF "Worker" \in DOMAIN s.specs THEN n["Worker"].succeeded ELSE 0
  BY <1>1, PodsOfType
<1>12. /\ IsFiniteSet(W2) /\ IsFiniteSet(D2)
       /\ Cardinality(W2) = IF "ExtendRole" \in DOMAIN s.specs THEN s.specs["ExtendRole"].replicas ELSE 0
       /\ Cardinality(D2) = IF "ExtendRole" \in DOMAIN s.specs THEN n["ExtendRole"].succeeded ELSE 0
  BY <1>1, PodsOfType
<1>13. W1 \cap W2 = {} /\ D1 \cap D2 = {} /\ {p \in W1 \cup W2 : pods[p].phase = "Succeeded"} = D1 \cup D2
  BY DEF Wanted
<1>14. f["Worker"] = n["Worker"].succeeded /\ f["ExtendRole"] = n["ExtendRole"].succeeded
  BY <1>1 DEF f
<1> HIDE DEF W1, W2, D1, D2
<1>15. Cardinality(W1 \cup W2) = Cardinality(W1) + Cardinality(W2) - Cardinality(W1 \cap W2)
  BY <1>11, <1>12, FS_Union
<1>16. Cardinality(D1 \cup D2) = Cardinality(D1) + Cardinality(D2) - Cardinality(D1 \cap D2)
  BY <1>11, <1>12, FS_Union
<1>17. /\ Cardinality(W1 \cap W2) = 0 /\ Cardinality(D1 \cap D2) = 0
       /\ Cardinality(W1) \in Nat /\ Cardinality(W2) \in Nat /\ Cardinality(D1) \in Nat /\ Cardinality(D2) \in Nat
  BY <1>11, <1>12, <1>13, FS_EmptySet, FS_CardinalityType
<1>18. /\ (IF "Worker" \in D THEN f["Worker"] ELSE 0) = Cardinality(D1)
       /\ (IF "ExtendRole" \in D THEN f["ExtendRole"] ELSE 0) = Cardinality(D2)
  BY <1>3, <1>11, <1>12, <1>14
<1>19. /\ (IF "Worker" \in D THEN Replicas(s)["Worker"] ELSE 0) = Cardinality(W1)
       /\ (IF "ExtendRole" \in D THEN Replicas(s)["ExtendRole"] ELSE 0) = Cardinality(W2)
  BY <1>3, <1>6, <1>11, <1>12
<1>20. XDLFinished(s, n) = Cardinality(D1) + Cardinality(D2) /\ XDLTotal(s, n) = Cardinality(W1) + Cardinality(W2)
  BY <1>7, <1>9, <1>10, <1>18, <1>19
<1>21. XDLFinished(s, n) = Cardinality(D1 \cup D2) /\ XDLTotal(s, n) = Cardinality(W1 \cup W2)
  BY <1>15, <1>16, <1>17, <1>20
<1>22. XDLFinished(s, n) \in Nat /\ XDLTotal(s, n) \in Nat
  BY <1>17, <1>20
<1>23. /\ XDLFinished(s, n) = Cardinality({p \in W1 \cup W2 : pods[p].phase = "Succeeded"})
       /\ XDLTotal(s, n) = Cardinality(W1 \cup W2)
  BY <1>13, <1>21, Zenon
<1> QED BY <1>22, <1>23, Zenon DEF W1, W2

LEMMA XDLEarns ==
  ASSUME Inv, NEW s, NEW n, NEW restart, Syncs(s, n, restart), s.kind = "XDL",
         XDLFinished(s, n) >= calculateMinFinish(s, XDLTotal(s, n))
  PROVE  Wins(s)
<1> DEFINE workers == Wanted(s, "Worker") \cup Wanted(s, "ExtendRole")
           done == Cardinality({p \in workers : pods[p].phase = "Succeeded"})
           t == Cardinality(workers)
<1>1. XDLFinished(s, n) = done /\ XDLTotal(s, n) = t /\ done \in Nat /\ t \in Nat
  BY XDLCounts
<1>2. Earned(s) = IF s.minFinish # Unset THEN 100 * done >= s.minFinish * t ELSE done >= s.minNum
  BY Zenon DEF Earned
<1> HIDE DEF workers, done, t
<1>3. /\ s.minFinish \in 0..100 \cup {Unset} /\ s.minNum \in Nat \cup {Unset}
      /\ s.minFinish # Unset \/ s.minNum # Unset
  BY SyncFacts DEF Settled
<1>4. CASE s.minFinish # Unset
  <2>1. done >= (t * s.minFinish + 99) \div 100
    BY <1>1, <1>4 DEF calculateMinFinish
  <2>2. s.minFinish \in Nat
    BY <1>3, <1>4
  <2>3. t * s.minFinish \in Nat /\ t * s.minFinish = s.minFinish * t
    BY <1>1, <2>2, Times
  <2>4. 100 * done >= t * s.minFinish
    BY <1>1, <2>1, <2>3, RoundsUp
  <2> QED BY <1>2, <1>4, <2>3, <2>4 DEF Wins
<1>5. CASE s.minFinish = Unset
  <2>1. done >= s.minNum
    BY <1>1, <1>3, <1>5 DEF calculateMinFinish
  <2> QED BY <1>2, <1>5, <2>1 DEF Wins
<1> QED BY <1>4, <1>5

-----------------------------------------------------------------------------
(***************************************************************************)
(* The visits and what follows them.                                       *)
(***************************************************************************)
Going(s) == {r \in Just(Fails, Wins(s)) : s.kind \in {"PyTorch", "MPI"} => ~r.stop}

LEMMA VisitGoes ==
  ASSUME Inv, NEW s, NEW n, NEW restart, Syncs(s, n, restart), NEW r \in Going(s), NEW rt \in DOMAIN s.specs
  PROVE  /\ Visit(s, n, restart, r, rt) \in Going(s)
         /\ s.kind = "PyTorch" /\ (Finished(r.conds) \/ (n[rt].seen /\ PyTorchWins(s, n, rt)))
              => Finished(Visit(s, n, restart, r, rt).conds)
<1>1. r \in Just(Fails, Wins(s)) /\ s.kind \in Kinds /\ (s.kind \in {"PyTorch", "MPI"} => ~r.stop)
  BY SyncFacts DEF Going, Settled
<1>2. CASE r.stop \/ ~n[rt].seen
  <2>1. Visit(s, n, restart, r, rt) = r
    BY <1>2 DEF Visit
  <2> QED BY <1>1, <1>2, <2>1
<1>3. CASE ~r.stop /\ n[rt].seen
  <2>1. n[rt].failed > 0 /\ (~restart \/ rt \in {"AIMaster", "Scheduler", "Launcher"}) => Fails
    BY ReasonsToFail
  <2>2. CASE s.kind = "PyTorch"
    <3>1. Visit(s, n, restart, r, rt) = PyTorchVisit(s, n, restart, r, rt)
      BY <1>3, <2>2, Zenon DEF Visit
    <3>2. PyTorchWins(s, n, rt) => Wins(s)
      BY <2>2, PyTorchEarns
    <3>3. n[rt].failed > 0 /\ (~restart \/ rt = "AIMaster") => Fails
      BY <2>1
    <3>4. LET q == PyTorchVisit(s, n, restart, r, rt)
          IN  /\ q \in Just(Fails, Wins(s)) /\ q.stop = r.stop
              /\ Finished(r.conds) \/ PyTorchWins(s, n, rt) => Finished(q.conds)
      BY <1>1, <3>2, <3>3, PyTorchVisitJust
    <3> QED BY <1>3, <3>1, <3>4 DEF Going
  <2>3. CASE s.kind = "XGBoost"
    <3>1. Visit(s, n, restart, r, rt) = XGBoostVisit(s, n, restart, r, rt)
      BY <1>3, <2>3, Zenon DEF Visit
    <3>2. rt = "Master" /\ AllSucceeded(s, n, rt) => Wins(s)
      BY <2>3, XGBoostEarns
    <3>3. XGBoostVisit(s, n, restart, r, rt) \in Just(Fails, Wins(s))
      BY <1>1, <2>1, <3>2, XGBoostVisitJust
    <3> QED BY <2>3, <3>1, <3>3 DEF Going
  <2>4. CASE s.kind = "XDL"
    <3>1. Visit(s, n, restart, r, rt) = XDLVisit(s, n, restart, r, rt)
      BY <1>3, <2>4, Zenon DEF Visit
    <3>2. XDLVisit(s, n, restart, r, rt) \in Just(Fails, Wins(s))
      BY <1>1, <2>1, XDLVisitJust
    <3> QED BY <2>4, <3>1, <3>2 DEF Going
  <2>5. CASE s.kind = "Mars"
    <3>1. Visit(s, n, restart, r, rt) = MarsVisit(s, n, restart, r, rt)
      BY <1>3, <2>5, Zenon DEF Visit
    <3>2. rt = "Scheduler" /\ AllSucceeded(s, n, rt) => Wins(s)
      BY <2>5, MarsEarns
    <3>3. MarsVisit(s, n, restart, r, rt) \in Just(Fails, Wins(s))
      BY <1>1, <2>1, <3>2, MarsVisitJust
    <3> QED BY <2>5, <3>1, <3>3 DEF Going
  <2>6. CASE s.kind = "ElasticDL"
    <3>1. Visit(s, n, restart, r, rt) = ElasticDLVisit(s, n, restart, r, rt)
      BY <1>3, <2>6, Zenon DEF Visit
    <3>2. AllSucceeded(s, n, rt) => Wins(s)
      BY <2>6, ElasticDLEarns
    <3>3. ElasticDLVisit(s, n, restart, r, rt) \in Just(Fails, Wins(s))
      BY <1>1, <2>1, <3>2, ElasticDLVisitJust
    <3> QED BY <2>6, <3>1, <3>3 DEF Going
  <2>7. CASE s.kind = "ElasticBatch"
    <3>1. Visit(s, n, restart, r, rt) = ElasticBatchVisit(s, n, restart, r, rt)
      BY <1>3, <2>7, Zenon DEF Visit
    <3>2. ElasticBatchWins(s, n, rt) => Wins(s)
      BY <2>7, ElasticBatchEarns
    <3>3. ElasticBatchVisit(s, n, restart, r, rt) \in Just(Fails, Wins(s))
      BY <1>1, <2>1, <3>2, ElasticBatchVisitJust
    <3> QED BY <2>7, <3>1, <3>3 DEF Going
  <2>8. CASE s.kind = "MPI"
    <3>1. Visit(s, n, restart, r, rt) = r
      BY <1>3, <2>8, Zenon DEF Visit
    <3> QED BY <2>8, <3>1
  <2> QED BY <1>1, <2>2, <2>3, <2>4, <2>5, <2>6, <2>7, <2>8 DEF Kinds
<1> QED BY <1>2, <1>3

(* g runs through the visits. *)
VisitsRun(g, s, n, restart, order) ==
  g = [i \in 0..Len(order) |->
         IF i = 0 THEN [conds |-> status.conds, completed |-> status.completed, stop |-> FALSE]
         ELSE Visit(s, n, restart, g[i - 1], order[i])]

LEMMA VisitsRunThrough ==
  ASSUME Inv, NEW s, NEW n, NEW restart, Syncs(s, n, restart), NEW order \in Seq(DOMAIN s.specs)
  PROVE  \E g : VisitsRun(g, s, n, restart, order)
<1> DEFINE N == Len(order)
           X == Going(s)
           init == [conds |-> status.conds, completed |-> status.completed, stop |-> FALSE]
           step == [i \in 1..N |-> [r \in X |-> Visit(s, n, restart, r, order[i])]]
<1>1. N \in Nat /\ \A i \in 1..N : order[i] \in DOMAIN s.specs
  OBVIOUS
<1>2. init \in X
  <2>1. status.conds \in Conditions /\ status.completed \in BOOLEAN
    BY DEF Inv, TypeOK, Status
  <2>2. init \in Result /\ init.conds = status.conds /\ init.completed = status.completed /\ ~init.stop
    BY <2>1 DEF Result
  <2>3. status.completed = Finished(status.conds) /\ ~Finished(status.conds)
    BY DEF Inv, Syncs
  <2> HIDE DEF init
  <2> QED BY <2>2, <2>3 DEF Going, Just, Finished
<1>3. ASSUME NEW i \in 1..N, NEW r \in X
      PROVE  Visit(s, n, restart, r, order[i]) \in X
  BY <1>1, VisitGoes
<1> HIDE DEF N, X
<1>4. step \in [1..N -> [X -> X]]
  BY <1>3
<1>5. PICK g : Run(g, N, X, init, step)
  <2> HIDE DEF step, init
  <2>1. \A x \in X : \E g : Run(g, N, X, x, step)
    BY <1>1, <1>4, LoopRuns
  <2> QED BY <1>2, <2>1
<1>6. \A i \in 1..N : g[i] = Visit(s, n, restart, g[i - 1], order[i])
  <2> SUFFICES ASSUME NEW i \in 1..N PROVE g[i] = Visit(s, n, restart, g[i - 1], order[i])
    OBVIOUS
  <2>1. g[i - 1] \in X
    BY <1>1, <1>5 DEF Run
  <2>2. step[i][g[i - 1]] = Visit(s, n, restart, g[i - 1], order[i])
    BY <2>1
  <2> QED BY <1>5, <2>2 DEF Run
<1> HIDE DEF step, init
<1>7. g = [i \in 0..N |-> g[i]] /\ g[0] = init
  BY <1>5 DEF Run
<1>8. \A i \in 0..N : g[i] = IF i = 0 THEN init ELSE Visit(s, n, restart, g[i - 1], order[i])
  <2> SUFFICES ASSUME NEW i \in 0..N
               PROVE  g[i] = IF i = 0 THEN init ELSE Visit(s, n, restart, g[i - 1], order[i])
    OBVIOUS
  <2>1. i # 0 => i \in 1..N
    BY <1>1
  <2> QED BY <1>6, <1>7, <2>1, Zenon
<1>9. g = [i \in 0..N |-> IF i = 0 THEN init ELSE Visit(s, n, restart, g[i - 1], order[i])]
  BY <1>7, <1>8
<1> QED BY <1>9 DEF VisitsRun, init, N

LEMMA VisitsEnd ==
  ASSUME Inv, NEW s, NEW n, NEW restart, Syncs(s, n, restart), NEW order \in Seq(DOMAIN s.specs)
  PROVE  \E g : VisitsRun(g, s, n, restart, order) /\ Visits(s, n, restart, order) = g[Len(order)]
<1> DEFINE h == CHOOSE g : VisitsRun(g, s, n, restart, order)
<1>1. VisitsRun(h, s, n, restart, order)
  BY VisitsRunThrough
<1>2. Visits(s, n, restart, order) = h[Len(order)]
  BY DEF Visits, VisitsRun
<1> QED BY <1>1, <1>2

(* An order of a finite set has each of its elements. *)
LEMMA OrderFacts ==
  ASSUME NEW D, IsFiniteSet(D), NEW order \in SetToSeqs(D)
  PROVE  order \in Seq(D) /\ \A x \in D : \E i \in 1..Len(order) : order[i] = x
<1> DEFINE k == Cardinality(D)
           I == 1..k
<1>1. k \in Nat
  BY FS_CardinalityType
<1>2. order \in [I -> D] /\ \A i, j \in I : i # j => order[i] # order[j]
  BY DEF SetToSeqs
<1> HIDE DEF k
<1>3. order \in Seq(D) /\ Len(order) = k
  BY <1>1, <1>2
<1>4. IsFiniteSet(I) /\ Cardinality(I) = k
  <2>1. 1 \in Int /\ k \in Int
    BY <1>1
  <2>2. IsFiniteSet(1..k) /\ Cardinality(1..k) = IF 1 > k THEN 0 ELSE k - 1 + 1
    BY <2>1, FS_Interval
  <2> QED BY <1>1, <2>2
<1> HIDE DEF I
<1>5. order \in Injection(I, D)
  BY <1>2 DEF Injection, IsInjective
<1>6. order \in Surjection(I, D)
  BY <1>4, <1>5, FS_Injection DEF k
<1> QED BY <1>3, <1>6 DEF Surjection, I

LEMMA VisitsFacts ==
  ASSUME Inv, NEW s, NEW n, NEW restart, Syncs(s, n, restart), NEW order \in SetToSeqs(DOMAIN s.specs)
  PROVE  LET r == Visits(s, n, restart, order)
         IN  /\ r \in Going(s)
             /\ \A rt \in DOMAIN s.specs :
                  s.kind = "PyTorch" /\ n[rt].seen /\ PyTorchWins(s, n, rt) => Finished(r.conds)
<1> DEFINE N == Len(order)
           init == [conds |-> status.conds, completed |-> status.completed, stop |-> FALSE]
<1>1. IsFiniteSet(DOMAIN s.specs)
  BY SyncFacts, TypesAreFinite, FS_Subset
<1>2. order \in Seq(DOMAIN s.specs) /\ \A x \in DOMAIN s.specs : \E i \in 1..N : order[i] = x
  BY <1>1, OrderFacts
<1>3. PICK g : VisitsRun(g, s, n, restart, order) /\ Visits(s, n, restart, order) = g[N]
  BY <1>2, VisitsEnd
<1>4. N \in Nat /\ \A i \in 1..N : order[i] \in DOMAIN s.specs
  BY <1>2
<1>5. init \in Going(s)
  <2>1. status.conds \in Conditions /\ status.completed \in BOOLEAN
    BY DEF Inv, TypeOK, Status
  <2>2. init \in Result /\ init.conds = status.conds /\ init.completed = status.completed /\ ~init.stop
    BY <2>1 DEF Result
  <2>3. status.completed = Finished(status.conds) /\ ~Finished(status.conds)
    BY DEF Inv, Syncs
  <2> HIDE DEF init
  <2> QED BY <2>2, <2>3 DEF Going, Just, Finished
<1>6. \A i \in 0..N : g[i] = IF i = 0 THEN init ELSE Visit(s, n, restart, g[i - 1], order[i])
  <2>1. g = [i \in 0..N |-> IF i = 0 THEN init ELSE Visit(s, n, restart, g[i - 1], order[i])]
    BY <1>3, Zenon DEF VisitsRun
  <2> HIDE DEF init, N
  <2> QED BY <2>1, Zenon
<1> HIDE DEF N, init
<1>7. \A i \in 1..N : i \in 0..N /\ i # 0
  BY <1>4
<1>8. \A i \in 1..N : g[i] = Visit(s, n, restart, g[i - 1], order[i])
  BY <1>6, <1>7, Zenon
<1>9. g[0] = init
  BY <1>4, <1>6
<1>10. \A i \in 0..N : g[i] \in Going(s)
  <2>1. \A i \in 1..N : g[i - 1] \in Going(s) => g[i] \in Going(s)
    BY <1>4, <1>8, VisitGoes
  <2>2. g[0] \in Going(s)
    BY <1>5, <1>9
  <2> QED BY <1>4, <2>1, <2>2, LoopKeeps
<1>11. ASSUME NEW rt \in DOMAIN s.specs, s.kind = "PyTorch", n[rt].seen, PyTorchWins(s, n, rt)
       PROVE  Finished(g[N].conds)
  <2>1. PICK k \in 1..N : order[k] = rt
    BY <1>2
  <2> DEFINE S == {i \in 0..N : i >= k => Finished(g[i].conds)}
  <2>2. 0 \in S
    BY <1>4
  <2>3. ASSUME NEW i \in 1..N, i - 1 \in S
        PROVE  i \in S
    <3>1. g[i - 1] \in Going(s) /\ order[i] \in DOMAIN s.specs
      BY <1>4, <1>10
    <3>2. g[i] = Visit(s, n, restart, g[i - 1], order[i])
      BY <1>8
    <3>3. Finished(g[i - 1].conds) \/ i = k => Finished(g[i].conds)
      BY <1>11, <2>1, <3>1, <3>2, VisitGoes
    <3>4. i > k => Finished(g[i - 1].conds)
      BY <2>3
    <3> QED BY <1>4, <3>3, <3>4
  <2>4. 0..N \subseteq S
    <3> HIDE DEF S
    <3> QED BY <1>4, <2>2, <2>3, UpTo
  <2> QED BY <1>4, <2>4
<1>12. g[N] \in Going(s)
  BY <1>4, <1>10
<1> QED BY <1>3, <1>11, <1>12

LEMMA EndJust ==
  ASSUME Inv, NEW s, NEW n, NEW restart, Syncs(s, n, restart), NEW r \in Going(s)
  PROVE  LET e == End(s, n, restart, r)
         IN  /\ e \in Just(Fails, Wins(s))
             /\ s.kind = "PyTorch" => e = r
             /\ s.kind = "MPI" /\ n["Launcher"].seen /\ n["Launcher"].succeeded > 0 => Finished(e.conds)
<1> DEFINE e == End(s, n, restart, r)
<1>1. r \in Just(Fails, Wins(s)) /\ s.kind \in Kinds /\ (s.kind \in {"PyTorch", "MPI"} => ~r.stop)
  BY SyncFacts DEF Going, Settled
<1>2. CASE r.stop
  <2>1. e = r
    BY <1>2 DEF End
  <2> QED BY <1>1, <1>2, <2>1
<1>3. CASE ~r.stop /\ s.kind = "XGBoost"
  <2>1. e = Mark(r, "Running")
    BY <1>3, Zenon DEF End
  <2> QED BY <1>1, <1>3, <2>1, MarkJust
<1>4. CASE ~r.stop /\ s.kind = "XDL"
  <2>1. e = XDLEnd(s, n, r)
    BY <1>4, Zenon DEF End
  <2>2. XDLEnd(s, n, r) = IF XDLFinished(s, n) >= calculateMinFinish(s, XDLTotal(s, n))
                          THEN Complete(r, "Succeeded") ELSE Mark(r, "Running")
    BY Zenon DEF XDLEnd, XDLFinished, XDLTotal
  <2>3. XDLFinished(s, n) >= calculateMinFinish(s, XDLTotal(s, n)) => Wins(s)
    BY <1>4, XDLEarns
  <2>4. XDLEnd(s, n, r) \in Just(Fails, Wins(s))
    BY <1>1, <2>2, <2>3, CompleteJust, MarkJust
  <2> QED BY <1>4, <2>1, <2>4
<1>5. CASE ~r.stop /\ s.kind = "Mars"
  <2>1. e = When(n["Worker"].active > 0, Mark(r, "Running"), r)
    BY <1>5, Zenon DEF End
  <2>2. e \in {Mark(r, "Running"), r}
    BY <2>1 DEF When
  <2> HIDE DEF e
  <2>3. e \in Just(Fails, Wins(s))
    BY <1>1, <2>2, MarkJust
  <2> QED BY <1>5, <2>3 DEF e
<1>6. CASE ~r.stop /\ s.kind = "MPI"
  <2> DEFINE l  == n["Launcher"]
             w  == n["Worker"]
             r1 == When(l.seen /\ l.failed > 0, Complete(r, "Failed"), r)
             run == w.seen /\ l.seen /\ l.active > 0 /\ w.active = s.specs["Worker"].replicas
             again == w.seen /\ w.failed > 0 /\ restart
             succ == l.seen /\ l.succeeded > 0
  <2>1. e = MPIEnd(s, n, restart, r)
    BY <1>6, Zenon DEF End
  <2>2. MPIEnd(s, n, restart, r) = IF succ THEN Complete(r, "Succeeded")
                                   ELSE IF again THEN Mark(r1, "Restarting") ELSE When(run, Mark(r1, "Running"), r1)
    BY Zenon DEF MPIEnd
  <2>3. succ => Wins(s)
    BY <1>6, MPIEarns
  <2>4. l.seen /\ l.failed > 0 => Fails
    <3> SUFFICES ASSUME l.seen, l.failed > 0 PROVE Fails
      OBVIOUS
    <3>1. "Launcher" \in DOMAIN s.specs
      BY CountsTyped DEF RTypes
    <3> QED BY <3>1, ReasonsToFail
  <2>5. r1 \in Just(Fails, Wins(s))
    BY <1>1, <2>4, CompleteJust DEF When
  <2> HIDE DEF succ, again, run, r1
  <2>6. succ => Complete(r, "Succeeded") \in Just(Fails, Wins(s)) /\ Finished(Complete(r, "Succeeded").conds)
    BY <1>1, <2>3, CompleteJust
  <2>7. Mark(r1, "Restarting") \in Just(Fails, Wins(s)) /\ Mark(r1, "Running") \in Just(Fails, Wins(s))
    BY <2>5, MarkJust
  <2> HIDE DEF e
  <2>8. e \in Just(Fails, Wins(s)) /\ (succ => Finished(e.conds))
    BY <2>1, <2>2, <2>5, <2>6, <2>7 DEF When
  <2> QED BY <1>6, <2>8 DEF e, succ
<1>7. CASE ~r.stop /\ s.kind \in {"PyTorch", "ElasticDL", "ElasticBatch"}
  <2>1. e = r
    <3>1. s.kind # "XGBoost" /\ s.kind # "XDL" /\ s.kind # "Mars" /\ s.kind # "MPI"
      BY <1>7
    <3> QED BY <1>7, <3>1, Zenon DEF End
  <2> QED BY <1>1, <1>7, <2>1
<1> QED BY <1>1, <1>2, <1>3, <1>4, <1>5, <1>6, <1>7 DEF Kinds

(***************************************************************************)
(* What a sync makes of the status.                                        *)
(***************************************************************************)
Verdict(s, new) ==
  /\ new \in Status /\ new.completed = Finished(new.conds)
  /\ IsFailed(new.conds) => Fails
  /\ IsSucceeded(new.conds) => Wins(s)
  /\ \A rt \in RTypes : new.replicas[rt].seen => rt \in DOMAIN s.specs
  /\ ~Finished(new.conds) =>
       /\ job.kind = "MPI" => new.replicas["Launcher"].succeeded = 0
       /\ job.kind = "PyTorch" /\ "Worker" \notin DOMAIN job.specs => new.replicas["Master"].succeeded # 1

LEMMA UpdateFacts ==
  ASSUME Inv, NEW s, NEW n, NEW restart, Syncs(s, n, restart), NEW new \in UpdateJobStatus(s, n, restart)
  PROVE  Verdict(s, new)
<1>1. PICK order \in SetToSeqs(DOMAIN s.specs) :
        LET e == End(s, n, restart, Visits(s, n, restart, order))
        IN  new = [conds |-> e.conds, completed |-> e.completed, replicas |-> n]
  BY Zenon DEF UpdateJobStatus
<1> DEFINE r == Visits(s, n, restart, order)
           e == End(s, n, restart, r)
<1>2. new = [conds |-> e.conds, completed |-> e.completed, replicas |-> n]
  BY <1>1
<1>3. /\ r \in Going(s)
      /\ \A rt \in DOMAIN s.specs :
           s.kind = "PyTorch" /\ n[rt].seen /\ PyTorchWins(s, n, rt) => Finished(r.conds)
  BY VisitsFacts
<1> HIDE DEF r
<1>4. /\ e \in Just(Fails, Wins(s))
      /\ s.kind = "PyTorch" => e = r
      /\ s.kind = "MPI" /\ n["Launcher"].seen /\ n["Launcher"].succeeded > 0 => Finished(e.conds)
  BY <1>3, EndJust
<1> HIDE DEF e
<1>5. /\ n \in [RTypes -> ReplicaStatus] /\ \A rt \in RTypes : n[rt].seen => rt \in DOMAIN s.specs
  BY CountsTyped
<1>6. /\ e.conds \in Conditions /\ e.completed \in BOOLEAN /\ e.completed = Finished(e.conds)
      /\ IsFailed(e.conds) => Fails
      /\ IsSucceeded(e.conds) => Wins(s)
  BY <1>4 DEF Just, Result
<1>7. new.conds = e.conds /\ new.completed = e.completed /\ new.replicas = n /\ new \in Status
  BY <1>2, <1>5, <1>6 DEF Status
<1>8. "Launcher" \in RTypes /\ "Master" \in RTypes
  BY DEF RTypes
<1>9. ASSUME ~Finished(e.conds), job.kind = "MPI"
      PROVE  n["Launcher"].succeeded = 0
  <2>1. s.kind = "MPI"
    BY <1>9, SyncFacts DEF Settled
  <2>2. n["Launcher"].succeeded \in Nat
    BY <1>5, <1>8 DEF ReplicaStatus
  <2>3. CASE "Launcher" \in Visited(s)
    <3>1. n["Launcher"].seen = TRUE
      BY <2>3, FreshCounts
    <3>2. ~(n["Launcher"].succeeded > 0)
      BY <1>4, <1>9, <2>1, <3>1
    <3> QED BY <2>2, <3>2
  <2>4. CASE "Launcher" \notin Visited(s)
    BY <1>8, <1>9, <2>4, StaleCounts DEF Inv, Undecided, Syncs
  <2> QED BY <2>3, <2>4
<1>10. ASSUME ~Finished(e.conds), job.kind = "PyTorch", "Worker" \notin DOMAIN job.specs, n["Master"].succeeded = 1
       PROVE  FALSE
  <2>1. s.kind = "PyTorch" /\ DOMAIN s.specs = DOMAIN job.specs /\ Sized(job, s)
    BY <1>10, SyncFacts DEF Settled
  <2>2. "Master" \in Visited(s)
    <3> SUFFICES ASSUME "Master" \notin Visited(s) PROVE FALSE
      OBVIOUS
    <3> QED BY <1>8, <1>10, StaleCounts DEF Inv, Undecided, Syncs
  <2>3. "Master" \in DOMAIN s.specs /\ n["Master"].seen
    BY <2>2, SyncFacts, FreshCounts
  <2>4. PyTorchWins(s, n, "Master")
    BY <1>10, <2>1, <2>3 DEF PyTorchWins, Sized, allWorkersSucceed
  <2>5. Finished(r.conds)
    BY <1>3, <2>1, <2>3, <2>4
  <2> QED BY <1>4, <1>10, <2>1, <2>5
<1> QED BY <1>5, <1>6, <1>7, <1>9, <1>10 DEF Verdict

-----------------------------------------------------------------------------
(***************************************************************************)
(* Pods.                                                                   *)
(***************************************************************************)
Numbered(s) == \A rt \in DOMAIN s.specs : s.specs[rt].replicas \in Nat

LEMMA TotalsAreNumbers ==
  ASSUME NEW s, DOMAIN s.specs \subseteq RTypes, Numbered(s), NEW D \in SUBSET DOMAIN s.specs
  PROVE  /\ Total(s, D) \in Nat
         /\ \A rt \in D : /\ Total(s, D) = s.specs[rt].replicas + Total(s, D \ {rt})
                          /\ s.specs[rt].replicas \in Nat /\ Total(s, D \ {rt}) \in Nat
<1> DEFINE S == DOMAIN s.specs
<1>1. IsFiniteSet(S)
  BY TypesAreFinite, FS_Subset
<1>2. Replicas(s) \in [S -> Nat] /\ \A rt \in S : Replicas(s)[rt] = s.specs[rt].replicas /\ s.specs[rt].replicas \in Nat
  BY DEF Replicas, Numbered
<1> HIDE DEF S
<1>3. \A T \in SUBSET S : SumFunctionOnSet(Replicas(s), T) \in Nat
  BY <1>1, <1>2, SumNat
<1>4. ASSUME NEW rt \in D
      PROVE  SumFunctionOnSet(Replicas(s), D) = Replicas(s)[rt] + SumFunctionOnSet(Replicas(s), D \ {rt})
  BY <1>1, <1>2, SumTake DEF S
<1>5. \A rt \in D : D \ {rt} \in SUBSET S /\ rt \in S
  BY DEF S
<1> QED BY <1>2, <1>3, <1>4, <1>5 DEF Total, S

(* What a new pod is told. *)
LEMMA ClusterSpecFacts ==
  ASSUME TypeOK, NEW s, s = Effective(job), Numbered(s), NEW p \in Slots, InRange(s, p)
  PROVE  LET c == SetClusterSpec(s, p)
         IN  /\ c.rank \in Nat \cup {Unset} /\ c.world \in Nat \cup {Unset}
             /\ s.kind = "PyTorch" => c = PyTorchClusterSpec(s, p)
<1> DEFINE c == SetClusterSpec(s, p)
<1>1. s.kind \in Kinds /\ DOMAIN s.specs \subseteq RTypes
  BY EffectiveFacts, TypesAreTypes DEF TypeOK, Settled
<1>2. p[2] \in Nat
  BY DEF Slots
<1>3. \A D \in SUBSET DOMAIN s.specs : Total(s, D) \in Nat
  BY <1>1, TotalsAreNumbers
<1>4. CASE s.kind = "PyTorch"
  <2>1. c = PyTorchClusterSpec(s, p)
    BY <1>4, Zenon DEF SetClusterSpec
  <2> QED BY <1>2, <1>3, <1>4, <2>1 DEF PyTorchClusterSpec
<1>5. CASE s.kind = "XGBoost"
  <2>1. c = XGBoostClusterSpec(s, p)
    BY <1>5, Zenon DEF SetClusterSpec
  <2> QED BY <1>2, <1>3, <1>5, <2>1 DEF XGBoostClusterSpec
<1>6. CASE s.kind = "XDL"
  <2>1. c = genXDLConfigJSON(s, p)
    BY <1>6, Zenon DEF SetClusterSpec, XDLClusterSpec
  <2> QED BY <1>2, <1>3, <1>6, <2>1 DEF genXDLConfigJSON
<1>7. CASE s.kind = "Mars"
  <2>1. c = marsConfigInJson(s, p)
    BY <1>7, Zenon DEF SetClusterSpec, MarsClusterSpec
  <2> QED BY <1>2, <1>3, <1>7, <2>1 DEF marsConfigInJson
<1>8. CASE s.kind = "ElasticBatch"
  <2>1. c = ElasticBatchClusterSpec(s, p)
    BY <1>8, Zenon DEF SetClusterSpec
  <2> QED BY <1>2, <1>8, <2>1 DEF ElasticBatchClusterSpec
<1>9. CASE s.kind = "MPI"
  <2>1. c = MPIClusterSpec(s, p)
    BY <1>9, Zenon DEF SetClusterSpec
  <2>2. Cardinality(Wanted(s, "Worker")) \in Nat
    <3>1. CASE "Worker" \in DOMAIN s.specs
      BY <1>1, <3>1, WantedFacts, FS_CardinalityType DEF Numbered
    <3>2. CASE "Worker" \notin DOMAIN s.specs
      <4>1. Wanted(s, "Worker") = {}
        BY <3>2 DEF Wanted, InRange
      <4> QED BY <4>1, FS_EmptySet
    <3> QED BY <3>1, <3>2
  <2> QED BY <1>9, <2>1, <2>2 DEF MPIClusterSpec, setupMPILauncher, setupMPIWorker, TypeOK
<1>10. CASE s.kind = "ElasticDL"
  <2>1. c = [rank |-> Unset, world |-> Unset]
    <3>1. s.kind # "PyTorch" /\ s.kind # "XGBoost" /\ s.kind # "XDL" /\ s.kind # "Mars" /\ s.kind # "ElasticBatch" /\ s.kind # "MPI"
      BY <1>10
    <3> QED BY <3>1, Zenon DEF SetClusterSpec
  <2> QED BY <1>10, <2>1
<1> QED BY <1>1, <1>4, <1>5, <1>6, <1>7, <1>8, <1>9, <1>10 DEF Kinds

(* A new member of a process group. *)
Member(s, p, q) ==
  s.kind = "PyTorch" /\ p[1] # "AIMaster" =>
    /\ p[1] = "Master" => p[2] = 0
    /\ q.rank = IF p[1] = "Master" THEN p[2] ELSE p[2] + 1
    /\ q.world \in Nat /\ q.rank < q.world

LEMMA NewPodFacts ==
  ASSUME TypeOK, NEW s, s = Effective(job), Numbered(s), NEW p \in Slots, InRange(s, p), ~NoMaster(s)
  PROVE  LET q == NewPod(s, p)
         IN  q \in Pod /\ q.phase = "Pending" /\ Member(s, p, q)
<1> DEFINE q == NewPod(s, p)
           c == SetClusterSpec(s, p)
<1>1. /\ c.rank \in Nat \cup {Unset} /\ c.world \in Nat \cup {Unset}
      /\ s.kind = "PyTorch" => c = PyTorchClusterSpec(s, p)
  BY ClusterSpecFacts
<1>2. q = [phase |-> "Pending", rank |-> c.rank, world |-> c.world]
  BY DEF NewPod
<1> HIDE DEF c
<1>3. q \in Pod /\ q.phase = "Pending" /\ q.rank = c.rank /\ q.world = c.world
  BY <1>1, <1>2 DEF Pod
<1> HIDE DEF q
<1>4. ASSUME s.kind = "PyTorch", p[1] # "AIMaster"
      PROVE  /\ p[1] = "Master" => p[2] = 0
             /\ c.rank = IF p[1] = "Master" THEN p[2] ELSE p[2] + 1
             /\ c.world \in Nat /\ c.rank < c.world
  <2> DEFINE D == DOMAIN s.specs \ {"AIMaster"}
  <2>1. /\ DOMAIN s.specs \subseteq {"AIMaster", "Master", "Worker"} /\ DOMAIN s.specs \subseteq RTypes
        /\ Sized(job, s)
    BY <1>4, EffectiveFacts, TypesAreTypes, TypesOfKinds DEF TypeOK, Settled
  <2>2. "Master" \in D /\ s.specs["Master"].replicas = 1
    BY <1>4, <2>1 DEF NoMaster, Sized
  <2>3. p[1] \in D /\ p[2] \in Nat /\ p[2] < s.specs[p[1]].replicas /\ s.specs[p[1]].replicas \in Nat
    BY <1>4 DEF InRange, Slots, Numbered
  <2>4. c.rank = (IF p[1] = "Master" THEN p[2] ELSE p[2] + 1) /\ c.world = Total(s, D)
    BY <1>1, <1>4 DEF PyTorchClusterSpec
  <2>5. D \in SUBSET DOMAIN s.specs /\ D \ {"Master"} \in SUBSET DOMAIN s.specs
    OBVIOUS
  <2>6. Total(s, D) \in Nat /\ Total(s, D) = 1 + Total(s, D \ {"Master"}) /\ Total(s, D \ {"Master"}) \in Nat
    BY <2>1, <2>2, <2>5, TotalsAreNumbers
  <2>7. CASE p[1] = "Master"
    <3>1. p[2] = 0
      BY <2>2, <2>3, <2>7
    <3> QED BY <2>4, <2>6, <2>7, <3>1
  <2>8. CASE p[1] # "Master"
    <3>1. p[1] \in D \ {"Master"}
      BY <2>3, <2>8
    <3>2. /\ Total(s, D \ {"Master"}) = s.specs[p[1]].replicas + Total(s, (D \ {"Master"}) \ {p[1]})
          /\ Total(s, (D \ {"Master"}) \ {p[1]}) \in Nat
      BY <2>1, <2>5, <3>1, TotalsAreNumbers
    <3>3. p[2] + 1 < Total(s, D)
      <4> HIDE DEF D
      <4> QED BY <2>3, <2>6, <3>2
    <3> QED BY <2>4, <2>6, <2>8, <3>3
  <2> QED BY <2>7, <2>8
<1>5. Member(s, p, q)
  BY <1>3, <1>4 DEF Member
<1> QED BY <1>3, <1>5 DEF q

(* What happens to the pod of a slot: it stays, it goes, or it is new. *)
Reconciled(s, p, q) ==
  \/ q = pods[p]
  \/ q = NoPod
  \/ p[1] \in DOMAIN s.specs /\ q \in Pod /\ q.phase = "Pending" /\ Member(s, p, q)

LEMMA ReconcilePodsFacts ==
  ASSUME TypeOK, NEW s, s = Effective(job), ~Panics(s), ~Finished(status.conds)
  PROVE  LET new == ReconcilePods(s, Visited(s))
         IN  DOMAIN new = Slots /\ \A p \in Slots : Reconciled(s, p, new[p])
<1> DEFINE new == ReconcilePods(s, Visited(s))
<1>1. Settled(job, s) /\ Numbered(s)
  <2>1. Settled(job, s)
    BY EffectiveFacts DEF TypeOK
  <2>2. \A rt \in DOMAIN s.specs : s.specs[rt].replicas \in Nat \cup {Unset}
    BY <2>1 DEF Settled, LooseSpec
  <2>3. \A rt \in DOMAIN s.specs : s.specs[rt].replicas # Unset
    BY DEF Panics
  <2> QED BY <2>1, <2>2, <2>3 DEF Numbered
<1>2. DOMAIN new = Slots
  BY DEF ReconcilePods
<1>3. ASSUME NEW p \in Slots
      PROVE  Reconciled(s, p, new[p])
  <2>1. CASE p[1] \in Visited(s) /\ InRange(s, p) /\ ~Exists(p)
    <3>1. new[p] = NewPod(s, p)
      BY <2>1 DEF ReconcilePods
    <3>2. p \in Wanted(s, p[1])
      BY <2>1 DEF Wanted
    <3>3. ~NoMaster(s)
      BY <2>1, <3>2 DEF Panics
    <3>4. p[1] \in DOMAIN s.specs
      BY <2>1 DEF InRange
    <3> QED BY <1>1, <2>1, <3>1, <3>3, <3>4, NewPodFacts DEF Reconciled
  <2>2. CASE ~(p[1] \in Visited(s) /\ InRange(s, p) /\ ~Exists(p))
    <3>1. new[p] \in {pods[p], NoPod}
      BY <2>2 DEF ReconcilePods
    <3> QED BY <3>1 DEF Reconciled
  <2> QED BY <2>1, <2>2
<1> QED BY <1>2, <1>3

-----------------------------------------------------------------------------
(***************************************************************************)
(* Steps.  First what a step keeps by leaving the job or the status alone. *)
(***************************************************************************)
NoPodIsPod == NoPod \in Pod /\ NoPod.phase = "None"

LEMMA NoPodFacts == NoPodIsPod
BY DEF NoPodIsPod, NoPod, Pod

LEMMA PodsKept ==
  ASSUME Inv, NEW s, s = Effective(job), job' = job, hist' = hist, DOMAIN pods' = Slots,
         pods' = [p \in Slots |-> pods'[p]], \A p \in Slots : Reconciled(s, p, pods'[p])
  PROVE  pods' \in [Slots -> Pod] /\ Placed' /\ Blamed' /\ Ranked'
<1>1. pods \in [Slots -> Pod] /\ NoPod \in Pod /\ NoPod.phase = "None" /\ s.kind = job.kind
  BY NoPodFacts, EffectiveFacts DEF Inv, TypeOK, NoPodIsPod, Settled
<1>2. ASSUME NEW p \in Slots
      PROVE  /\ pods'[p] \in Pod
             /\ Exists(p)' => p[1] \in DOMAIN Effective(job)'.specs
             /\ pods'[p].phase \in Failed => pods'[p] = pods[p]
             /\ job.kind = "PyTorch" /\ Exists(p)' /\ p[1] # "AIMaster" =>
                  /\ p[1] = "Master" => p[2] = 0
                  /\ pods'[p].rank = IF p[1] = "Master" THEN p[2] ELSE p[2] + 1
                  /\ pods'[p].world \in Nat /\ pods'[p].rank < pods'[p].world
  <2>1. CASE pods'[p] = pods[p]
    BY <1>1, <2>1 DEF Inv, Placed, Ranked, Exists
  <2>2. CASE pods'[p] = NoPod
    BY <1>1, <2>2 DEF Exists, Failed
  <2>3. CASE p[1] \in DOMAIN s.specs /\ pods'[p] \in Pod /\ pods'[p].phase = "Pending" /\ Member(s, p, pods'[p])
    BY <1>1, <2>3 DEF Exists, Failed, Member
  <2> QED BY <2>1, <2>2, <2>3 DEF Reconciled
<1>3. pods' \in [Slots -> Pod]
  BY <1>2
<1>4. Placed'
  BY <1>2 DEF Placed
<1>5. Blamed'
  <2> SUFFICES ASSUME NEW p \in Slots, pods'[p].phase \in Failed, Final(p, pods[p].phase)' PROVE p \in hist'
    BY DEF Blamed
  <2>1. pods'[p] = pods[p]
    BY <1>2
  <2>2. Final(p, pods[p].phase)
    BY <2>1 DEF Final, PodPolicy
  <2> QED BY <2>1, <2>2 DEF Inv, Blamed
<1>6. Ranked'
  BY <1>2 DEF Ranked
<1> QED BY <1>3, <1>4, <1>5, <1>6

LEMMA StatusKept ==
  ASSUME Inv, status' = status, job' = job, hist \subseteq hist'
  PROVE  /\ (status.completed = Finished(status.conds))' /\ (IsFailed(status.conds) => Fails)'
         /\ Seen' /\ Undecided'
<1>1. (status.completed = Finished(status.conds))'
  BY DEF Inv
<1>2. (IsFailed(status.conds) => Fails)'
  BY DEF Inv, Fails
<1>3. Seen'
  BY DEF Inv, Seen
<1>4. Undecided'
  BY DEF Inv, Undecided
<1> QED BY <1>1, <1>2, <1>3, <1>4

(* The step that makes a job succeed. *)
EarnedStep == ~IsSucceeded(status.conds) /\ IsSucceeded(status.conds') => Earned(Effective(job)) \/ AIMasterGates(job)

LEMMA PanicsStep ==
  ASSUME Inv, NEW s, s = Effective(job), ReconcilePanics(s)
  PROVE  Inv' /\ EarnedStep
<1>1. UNCHANGED <<job, pods, ready, status, config, queued, hist>> /\ Panics(s)
  BY DEF ReconcilePanics
<1>2. job.kind \in {"MPI", "ElasticDL"} \/ NoMaster(job) \/ (job.kind = "PyTorch" /\ "AIMaster" \in DOMAIN job.specs)
  <2> SUFFICES ASSUME job.kind \notin {"MPI", "ElasticDL"} PROVE NoMaster(job) \/ (job.kind = "PyTorch" /\ "AIMaster" \in DOMAIN job.specs)
    OBVIOUS
  <2>1. Settled(job, s) /\ Sized(job, s) /\ DOMAIN s.specs = DOMAIN job.specs /\ s.kind = job.kind
    BY EffectiveFacts DEF Inv, TypeOK, Settled
  <2>2. CASE NoMaster(s)
    BY <2>1, <2>2 DEF NoMaster
  <2>3. CASE \E rt \in DOMAIN s.specs : s.specs[rt].replicas = Unset
    BY <2>1, <2>3 DEF Sized
  <2>4. CASE s.clean = NoPolicy
    BY <2>1, <2>4 DEF Settled
  <2> QED BY <1>1, <2>2, <2>3, <2>4 DEF Panics
<1>3. TypeOK'
  BY <1>1, <1>2 DEF Inv, TypeOK, NoMaster
<1>4. /\ (status.completed = Finished(status.conds))' /\ (IsFailed(status.conds) => Fails)'
      /\ Seen' /\ Undecided'
  BY <1>1, StatusKept
<1>5. Placed' /\ Ranked'
  BY <1>1 DEF Inv, Placed, Ranked, Exists
<1>6. Blamed'
  BY <1>1 DEF Inv, Blamed, Final, PodPolicy
<1> QED BY <1>1, <1>3, <1>4, <1>5, <1>6 DEF Inv, EarnedStep

LEMMA FrozenStep ==
  ASSUME Inv, NEW s, s = Effective(job), ReconcileFrozen(s)
  PROVE  Inv' /\ EarnedStep
<1>1. /\ UNCHANGED <<job, ready, status, config, panicked, hist>> /\ pods' = ReconcilePods(s, Visited(s))
      /\ ~Panics(s) /\ ~Finished(status.conds) /\ queued' \in BOOLEAN
  BY DEF ReconcileFrozen
<1>2. DOMAIN pods' = Slots /\ \A p \in Slots : Reconciled(s, p, pods'[p])
  BY <1>1, ReconcilePodsFacts DEF Inv
<1>3. pods' = [p \in Slots |-> pods'[p]]
  BY <1>1 DEF ReconcilePods
<1>4. pods' \in [Slots -> Pod] /\ Placed' /\ Blamed' /\ Ranked'
  BY <1>1, <1>2, <1>3, PodsKept
<1>5. TypeOK'
  BY <1>1, <1>4 DEF Inv, TypeOK
<1>6. /\ (status.completed = Finished(status.conds))' /\ (IsFailed(status.conds) => Fails)'
      /\ Seen' /\ Undecided'
  BY <1>1, StatusKept
<1> QED BY <1>1, <1>4, <1>5, <1>6 DEF Inv, EarnedStep

(* The status that is saved, or the one before. *)
LEMMA SaveFacts ==
  ASSUME NEW new, NEW changed \in BOOLEAN, SaveStatus(new, changed)
  PROVE  status' \in {new, status} /\ queued' \in BOOLEAN
<1>1. CASE status' = new /\ queued' = (changed \/ new # status)
  BY <1>1
<1>2. CASE status' = status /\ queued' = TRUE
  BY <1>2
<1> QED BY <1>1, <1>2 DEF SaveStatus

LEMMA SettleFacts ==
  ASSUME NEW st \in Status
  PROVE  LET new == SettleReplicas(st)
         IN  /\ new \in Status /\ new.conds = st.conds /\ new.completed = st.completed
             /\ \A rt \in RTypes : new.replicas[rt].seen = st.replicas[rt].seen
<1> DEFINE f == [rt \in RTypes |-> [st.replicas[rt] EXCEPT !.succeeded = @ + st.replicas[rt].active, !.active = 0]]
<1>1. CASE ~IsSucceeded(st.conds)
  BY <1>1 DEF SettleReplicas
<1>2. CASE IsSucceeded(st.conds)
  <2>1. SettleReplicas(st) = [st EXCEPT !.replicas = f]
    BY <1>2 DEF SettleReplicas
  <2>2. ASSUME NEW rt \in RTypes
        PROVE  f[rt] \in ReplicaStatus /\ f[rt].seen = st.replicas[rt].seen
    <3>1. st.replicas[rt] \in ReplicaStatus
      BY DEF Status
    <3> DEFINE x == st.replicas[rt]
    <3>2. x \in ReplicaStatus /\ x.succeeded \in Nat /\ x.active \in Nat /\ x.succeeded + x.active \in Nat
      BY <3>1 DEF ReplicaStatus
    <3>3. f[rt] = [x EXCEPT !.succeeded = x.succeeded + x.active, !.active = 0]
      OBVIOUS
    <3> HIDE DEF x, f
    <3> DEFINE m == x.succeeded + x.active
               y == [seen |-> x.seen, active |-> 0, succeeded |-> m, failed |-> x.failed]
    <3>4. m \in Nat /\ f[rt] = [x EXCEPT !.succeeded = m, !.active = 0]
      BY <3>2, <3>3
    <3> HIDE DEF m
    <3>5. f[rt] = y
      BY <3>2, <3>4 DEF ReplicaStatus
    <3>6. y \in ReplicaStatus /\ y.seen = x.seen
      BY <3>2, <3>4 DEF ReplicaStatus
    <3>7. f[rt] \in ReplicaStatus /\ f[rt].seen = x.seen
      BY <3>5, <3>6
    <3> QED BY <3>7 DEF x
  <2>3. f \in [RTypes -> ReplicaStatus]
    BY <2>2
  <2> HIDE DEF f
  <2>4. LET new == [st EXCEPT !.replicas = f] IN new \in Status /\ new.conds = st.conds /\ new.completed = st.completed /\ new.replicas = f
    BY <2>3 DEF Status
  <2> QED BY <2>1, <2>2, <2>4
<1> QED BY <1>1, <1>2

LEMMA TerminatedStep ==
  ASSUME Inv, NEW s, s = Effective(job), ReconcileTerminated(s)
  PROVE  Inv' /\ EarnedStep
<1> DEFINE goes(p) == s.clean = "All" \/ (s.clean = "Running" /\ pods[p].phase = "Running")
           new == SettleReplicas(status)
<1>1. /\ UNCHANGED <<job, ready, config, panicked, hist>> /\ Finished(status.conds)
      /\ pods' = [p \in Slots |-> IF goes(p) THEN NoPod ELSE pods[p]]
      /\ SaveStatus(new, pods' # pods)
  BY DEF ReconcileTerminated
<1>2. status \in Status
  BY DEF Inv, TypeOK
<1>3. /\ new \in Status /\ new.conds = status.conds /\ new.completed = status.completed
      /\ \A rt \in RTypes : new.replicas[rt].seen = status.replicas[rt].seen
  BY <1>2, SettleFacts
<1> HIDE DEF new
<1>4. status' \in {new, status} /\ queued' \in BOOLEAN
  BY <1>1, SaveFacts
<1>5. /\ status' \in Status /\ status'.conds = status.conds /\ status'.completed = status.completed
      /\ \A rt \in RTypes : status'.replicas[rt].seen = status.replicas[rt].seen
  BY <1>2, <1>3, <1>4
<1>6. DOMAIN pods' = Slots /\ pods' = [p \in Slots |-> pods'[p]] /\ \A p \in Slots : Reconciled(s, p, pods'[p])
  BY <1>1 DEF Reconciled
<1>7. pods' \in [Slots -> Pod] /\ Placed' /\ Blamed' /\ Ranked'
  BY <1>1, <1>6, PodsKept
<1>8. TypeOK'
  BY <1>1, <1>4, <1>5, <1>7 DEF Inv, TypeOK
<1>9. (status.completed = Finished(status.conds))' /\ (IsFailed(status.conds) => Fails)'
  BY <1>1, <1>5 DEF Inv, Fails
<1>10. Seen'
  BY <1>1, <1>5 DEF Inv, Seen
<1>11. Undecided'
  BY <1>1, <1>5 DEF Undecided
<1> QED BY <1>5, <1>7, <1>8, <1>9, <1>10, <1>11 DEF Inv, EarnedStep

LEMMA JobsStep ==
  ASSUME Inv, NEW s, s = Effective(job), ReconcileJobs(s)
  PROVE  Inv' /\ EarnedStep
<1> DEFINE v == Visited(s)
           n == updateJobReplicaStatuses(s, v)
           restart == Restart(s, v)
           creates == \E p \in Slots : ~Exists(p) /\ pods'[p].phase = "Pending"
<1>1. /\ UNCHANGED <<job, ready, panicked, hist>> /\ ~Panics(s) /\ ~Finished(status.conds) /\ ~Frozen(s)
      /\ pods' = ReconcilePods(s, v) /\ getOrCreateJobConfig(s, creates)
  BY DEF ReconcileJobs
<1>2. PICK new \in UpdateJobStatus(s, n, restart) : SaveStatus(new, pods' # pods)
  BY DEF ReconcileJobs
<1>3. /\ Settled(job, s) /\ DOMAIN s.specs \subseteq RTypes /\ Numbered(s)
  <2>1. Settled(job, s) /\ DOMAIN s.specs \subseteq RTypes
    BY EffectiveFacts, TypesAreTypes DEF Inv, TypeOK, Settled
  <2>2. \A rt \in DOMAIN s.specs : s.specs[rt].replicas \in Nat \cup {Unset}
    BY <2>1 DEF Settled, LooseSpec
  <2>3. \A rt \in DOMAIN s.specs : s.specs[rt].replicas # Unset
    BY <1>1 DEF Panics
  <2> QED BY <2>1, <2>2, <2>3 DEF Numbered
<1>4. Syncs(s, n, restart)
  BY <1>1, <1>3 DEF Syncs, Numbered
<1> HIDE DEF n, restart
<1>5. Verdict(s, new)
  BY <1>2, <1>4, UpdateFacts
<1>6. status' \in {new, status} /\ queued' \in BOOLEAN
  BY <1>2, SaveFacts
<1>7. DOMAIN pods' = Slots /\ \A p \in Slots : Reconciled(s, p, pods'[p])
  BY <1>1, ReconcilePodsFacts DEF Inv
<1>8. pods' = [p \in Slots |-> pods'[p]]
  BY <1>1 DEF ReconcilePods
<1>9. pods' \in [Slots -> Pod] /\ Placed' /\ Blamed' /\ Ranked'
  BY <1>1, <1>7, <1>8, PodsKept
<1>10. config' \in Nat \cup {Unset}
  <2>1. Cardinality(Wanted(s, "Worker")) \in Nat
    <3>1. CASE "Worker" \in DOMAIN s.specs
      BY <1>3, <3>1, WantedFacts, FS_CardinalityType DEF Numbered
    <3>2. CASE "Worker" \notin DOMAIN s.specs
      <4>1. Wanted(s, "Worker") = {}
        BY <3>2 DEF Wanted, InRange
      <4> QED BY <4>1, FS_EmptySet
    <3> QED BY <3>1, <3>2
  <2>2. config' \in {Cardinality(Wanted(s, "Worker")), config}
    <3> HIDE DEF creates
    <3> QED BY <1>1 DEF getOrCreateJobConfig
  <2> QED BY <2>1, <2>2 DEF Inv, TypeOK
<1>11. CASE status' = status
  <2>1. /\ (status.completed = Finished(status.conds))' /\ (IsFailed(status.conds) => Fails)'
        /\ Seen' /\ Undecided'
    BY <1>1, <1>11, StatusKept
  <2>2. TypeOK'
    BY <1>1, <1>6, <1>9, <1>10, <1>11 DEF Inv, TypeOK
  <2> QED BY <1>9, <1>11, <2>1, <2>2 DEF Inv, EarnedStep
<1>12. CASE status' = new
  <2>1. TypeOK'
    BY <1>1, <1>5, <1>6, <1>9, <1>10, <1>12 DEF Inv, TypeOK, Verdict
  <2>2. (status.completed = Finished(status.conds))'
    BY <1>5, <1>12 DEF Verdict
  <2>3. (IsFailed(status.conds) => Fails)'
    BY <1>1, <1>5, <1>12 DEF Verdict, Fails
  <2>4. Seen'
    BY <1>1, <1>5, <1>12 DEF Verdict, Seen
  <2>5. Undecided'
    BY <1>1, <1>5, <1>12 DEF Verdict, Undecided
  <2>6. EarnedStep
    BY <1>5, <1>12 DEF Verdict, EarnedStep, Wins
  <2> QED BY <1>9, <2>1, <2>2, <2>3, <2>4, <2>5, <2>6 DEF Inv
<1> QED BY <1>6, <1>11, <1>12

(* A pod that is there changes its phase. *)
LEMMA PhaseStep ==
  ASSUME Inv, NEW p \in Slots, Exists(p), NEW phase \in {"Running", "Succeeded", "Retry", "Perm"},
         pods' = [pods EXCEPT ![p].phase = phase], OnPodUpdate, ready' = ready,
         hist \subseteq hist', hist' \subseteq Slots,
         phase \in Failed /\ Final(p, phase) => p \in hist'
  PROVE  Inv' /\ EarnedStep
<1>1. UNCHANGED <<job, status, config, panicked>> /\ queued' = TRUE
  BY DEF OnPodUpdate
<1>2. pods \in [Slots -> Pod] /\ pods[p] \in Pod
  BY DEF Inv, TypeOK
<1>3. /\ pods' \in [Slots -> Pod]
      /\ pods'[p].phase = phase /\ pods'[p].rank = pods[p].rank /\ pods'[p].world = pods[p].world
      /\ \A q \in Slots : q # p => pods'[q] = pods[q]
  BY <1>2 DEF Pod
<1>4. TypeOK'
  BY <1>1, <1>3 DEF Inv, TypeOK
<1>5. /\ (status.completed = Finished(status.conds))' /\ (IsFailed(status.conds) => Fails)'
      /\ Seen' /\ Undecided'
  BY <1>1, StatusKept
<1>6. \A q \in Slots : Exists(q)' => Exists(q)
  BY <1>3 DEF Exists
<1>7. Placed'
  BY <1>1, <1>6 DEF Inv, Placed
<1>8. Blamed'
  <2> SUFFICES ASSUME NEW q \in Slots, pods'[q].phase \in Failed, Final(q, pods[q].phase)' PROVE q \in hist'
    BY DEF Blamed
  <2>1. CASE q = p
    BY <1>1, <1>3, <2>1 DEF Final, PodPolicy
  <2>2. CASE q # p
    <3>1. Final(q, pods[q].phase)
      BY <1>1, <1>3, <2>2 DEF Final, PodPolicy
    <3> QED BY <1>3, <2>2, <3>1 DEF Inv, Blamed
  <2> QED BY <2>1, <2>2
<1>9. Ranked'
  <2> SUFFICES ASSUME job.kind = "PyTorch", NEW q \in Slots, Exists(q)', q[1] # "AIMaster"
               PROVE  /\ q[1] = "Master" => q[2] = 0
                      /\ pods'[q].rank = IF q[1] = "Master" THEN q[2] ELSE q[2] + 1
                      /\ pods'[q].world \in Nat /\ pods'[q].rank < pods'[q].world
    BY <1>1 DEF Ranked
  <2>1. Exists(q)
    BY <1>6
  <2>2. pods'[q].rank = pods[q].rank /\ pods'[q].world = pods[q].world
    BY <1>3
  <2> QED BY <2>1, <2>2 DEF Inv, Ranked
<1> QED BY <1>1, <1>4, <1>5, <1>7, <1>8, <1>9 DEF Inv, EarnedStep

LEMMA KillStep ==
  ASSUME Inv, NEW p \in Slots, UserKillsPod(p)
  PROVE  Inv' /\ EarnedStep
<1>1. /\ UNCHANGED <<job, status, config, panicked, ready, hist>> /\ queued' = TRUE
      /\ pods' = [pods EXCEPT ![p] = NoPod]
  BY DEF UserKillsPod, OnPodUpdate
<1>2. pods \in [Slots -> Pod]
  BY DEF Inv, TypeOK
<1>3. DOMAIN pods' = Slots /\ pods' = [q \in Slots |-> pods'[q]] /\ \A q \in Slots : pods'[q] \in {pods[q], NoPod}
  BY <1>1, <1>2
<1> DEFINE s == Effective(job)
<1>4. \A q \in Slots : Reconciled(s, q, pods'[q])
  BY <1>3 DEF Reconciled
<1> HIDE DEF s
<1>5. pods' \in [Slots -> Pod] /\ Placed' /\ Blamed' /\ Ranked'
  BY <1>1, <1>3, <1>4, PodsKept DEF s
<1>6. TypeOK'
  BY <1>1, <1>5 DEF Inv, TypeOK
<1>7. /\ (status.completed = Finished(status.conds))' /\ (IsFailed(status.conds) => Fails)'
      /\ Seen' /\ Undecided'
  BY <1>1, StatusKept
<1> QED BY <1>1, <1>5, <1>6, <1>7 DEF Inv, EarnedStep

LEMMA ScaleStep ==
  ASSUME Inv, NEW n \in 1..MaxReplicas, UserScalesWorkers(n)
  PROVE  Inv' /\ EarnedStep
<1>1. /\ UNCHANGED <<pods, ready, status, config, panicked, hist>> /\ queued' = TRUE
      /\ "Worker" \in DOMAIN job.specs /\ job' = [job EXCEPT !.specs["Worker"].replicas = n] /\ job \in Job
  BY DEF UserScalesWorkers, Inv, TypeOK
<1>2. /\ job' \in Job /\ job'.kind = job.kind /\ job'.dag = job.dag /\ DOMAIN job'.specs = DOMAIN job.specs
      /\ DOMAIN Effective(job').specs = DOMAIN Effective(job).specs
      /\ \A rt \in DOMAIN Effective(job).specs : Effective(job').specs[rt].policy = Effective(job).specs[rt].policy
  BY <1>1, ScaledFacts
<1>3. TypeOK'
  BY <1>1, <1>2 DEF Inv, TypeOK, NoMaster
<1>4. (status.completed = Finished(status.conds))' /\ (IsFailed(status.conds) => Fails)'
  BY <1>1, <1>2 DEF Inv, Fails
<1>5. Seen' /\ Placed'
  BY <1>1, <1>2 DEF Inv, Seen, Placed, Exists
<1>6. Undecided'
  BY <1>1, <1>2 DEF Inv, Undecided
<1>7. Ranked'
  BY <1>1, <1>2 DEF Inv, Ranked, Exists
<1>8. Blamed'
  <2> SUFFICES ASSUME NEW p \in Slots, pods[p].phase \in Failed, Final(p, pods[p].phase)' PROVE p \in hist
    BY <1>1 DEF Blamed
  <2>1. p[1] \in DOMAIN Effective(job).specs
    BY DEF Inv, Placed, Exists, Failed
  <2>2. Final(p, pods[p].phase)
    BY <1>1, <1>2, <2>1 DEF Final, PodPolicy
  <2> QED BY <2>2 DEF Inv, Blamed
<1> QED BY <1>1, <1>3, <1>4, <1>5, <1>6, <1>7, <1>8 DEF Inv, EarnedStep

(* What nothing but flags and counters changes. *)
LEMMA IdleStep ==
  ASSUME Inv, UNCHANGED <<job, pods, status, config, panicked, hist>>, ready' \in BOOLEAN, queued' \in BOOLEAN
  PROVE  Inv' /\ EarnedStep
<1>1. TypeOK'
  BY DEF Inv, TypeOK
<1>2. /\ (status.completed = Finished(status.conds))' /\ (IsFailed(status.conds) => Fails)'
      /\ Seen' /\ Undecided'
  BY StatusKept
<1>3. Placed' /\ Ranked'
  BY DEF Inv, Placed, Ranked, Exists
<1>4. Blamed'
  BY DEF Inv, Blamed, Final, PodPolicy
<1> QED BY <1>1, <1>2, <1>3, <1>4 DEF Inv, EarnedStep

LEMMA InitInv ==
  ASSUME Init
  PROVE  Inv
<1>1. /\ job \in Job /\ pods = [p \in Slots |-> NoPod] /\ ready = FALSE /\ config = Unset /\ queued = TRUE
      /\ panicked = FALSE /\ hist = {}
      /\ status = [conds |-> setCondition(NoConditions, "Created"), completed |-> FALSE,
                   replicas |-> [rt \in RTypes |-> NoCount]]
  BY WorkloadsAssumption DEF Init
<1> DEFINE c == setCondition(NoConditions, "Created")
<1>2. c \in Conditions /\ ~Finished(c) /\ ~IsFailed(c)
  <2>1. NoConditions \in Conditions /\ ~Finished(NoConditions)
    BY DEF NoConditions, Conditions, ConditionStatus, Finished, IsSucceeded, IsFailed, HasCondition, ConditionType
  <2>2. "Created" \in ConditionType
    BY DEF ConditionType
  <2>3. c \in Conditions /\ ~IsSucceeded(c) /\ ~IsFailed(c)
    BY <2>1, <2>2, SetConditionFacts
  <2> QED BY <2>3 DEF Finished
<1> HIDE DEF c
<1>3. status.conds = c /\ status.completed = FALSE /\ status.replicas = [rt \in RTypes |-> NoCount] /\ status \in Status
  BY <1>1, <1>2 DEF c, Status, ReplicaStatus, NoCount
<1>4. TypeOK
  BY <1>1, <1>3, NoPodFacts DEF TypeOK, NoPodIsPod
<1>5. status.completed = Finished(status.conds) /\ (IsFailed(status.conds) => Fails)
  BY <1>2, <1>3 DEF Finished
<1>6. \A p \in Slots : ~Exists(p) /\ pods[p].phase \notin Failed
  BY <1>1 DEF Exists, NoPod, Failed
<1>7. Placed /\ Blamed /\ Ranked
  BY <1>6 DEF Placed, Blamed, Ranked
<1>8. Seen
  BY <1>3 DEF Seen, NoCount
<1>9. Undecided
  <2>1. \A rt \in RTypes : status.replicas[rt].succeeded = 0
    BY <1>3 DEF NoCount
  <2> QED BY <2>1 DEF Undecided, RTypes
<1> QED BY <1>4, <1>5, <1>7, <1>8, <1>9 DEF Inv

LEMMA NextInv ==
  ASSUME Inv, [Next]_vars
  PROVE  Inv' /\ EarnedStep
<1>1. CASE Reconcile
  <2>1. PICK s : s = Effective(job) /\ (ReconcilePanics(s) \/ ReconcileTerminated(s) \/ ReconcileFrozen(s) \/ ReconcileJobs(s))
    BY <1>1 DEF Reconcile
  <2> QED BY <2>1, PanicsStep, TerminatedStep, FrozenStep, JobsStep
<1>2. ASSUME NEW p \in Slots, PodStarts(p)
      PROVE  Inv' /\ EarnedStep
  <2>1. Exists(p) /\ pods' = [pods EXCEPT ![p].phase = "Running"] /\ OnPodUpdate /\ ready' = ready /\ hist' = hist
    BY <1>2 DEF PodStarts, Exists
  <2> QED BY <2>1, PhaseStep DEF Inv, TypeOK, Failed
<1>3. ASSUME NEW p \in Slots, PodSucceeds(p)
      PROVE  Inv' /\ EarnedStep
  <2>1. Exists(p) /\ pods' = [pods EXCEPT ![p].phase = "Succeeded"] /\ OnPodUpdate /\ ready' = ready /\ hist' = hist
    BY <1>3 DEF PodSucceeds, Exists
  <2> QED BY <2>1, PhaseStep DEF Inv, TypeOK, Failed
<1>4. ASSUME NEW p \in Slots, NEW phase \in {"Retry", "Perm"}, PodFails(p, phase)
      PROVE  Inv' /\ EarnedStep
  <2>1. /\ Exists(p) /\ pods' = [pods EXCEPT ![p].phase = phase] /\ OnPodUpdate /\ ready' = ready
        /\ hist' = IF Final(p, phase) THEN hist \cup {p} ELSE hist
    BY <1>4 DEF PodFails, Exists
  <2>2. hist \subseteq hist' /\ hist' \subseteq Slots /\ (phase \in Failed /\ Final(p, phase) => p \in hist')
    BY <2>1 DEF Inv, TypeOK
  <2> QED BY <2>1, <2>2, PhaseStep
<1>5. CASE AIMasterReady
  <2>1. UNCHANGED <<job, pods, status, config, panicked, hist>> /\ ready' = TRUE /\ queued' = TRUE
    BY <1>5 DEF AIMasterReady
  <2> QED BY <2>1, IdleStep
<1>6. CASE UNCHANGED vars
  <2>1. UNCHANGED <<job, pods, status, config, panicked, hist>> /\ ready' = ready /\ queued' = queued
    BY <1>6 DEF vars
  <2>2. ready \in BOOLEAN /\ queued \in BOOLEAN
    BY DEF Inv, TypeOK
  <2> QED BY <2>1, <2>2, IdleStep
<1> QED BY <1>1, <1>2, <1>3, <1>4, <1>5, <1>6, KillStep, ScaleStep DEF Next, Kubelet

(***************************************************************************)
(* Of the members of a PyTorch process group no two have the same rank,    *)
(* and each rank is below the world size its pod was told, however often   *)
(* pods are replaced and workers are scaled (SetClusterSpec of the PyTorch *)
(* controller).  The rank of a pod is that of its slot, the only master is *)
(* the first slot of its type, and a pod is made only while the master's   *)
(* spec is there to be counted: without it the manager has panicked.       *)
(***************************************************************************)
THEOREM GroupsAreRanked == Spec => []RanksAreDistinct
<1>1. Inv => RanksAreDistinct
  <2> SUFFICES ASSUME Inv, job.kind = "PyTorch",
                      NEW p \in {x \in Slots : Exists(x) /\ x[1] # "AIMaster"},
                      NEW q \in {x \in Slots : Exists(x) /\ x[1] # "AIMaster"}
               PROVE  pods[p].rank < pods[p].world /\ (pods[p].rank = pods[q].rank => p = q)
    BY DEF RanksAreDistinct
  <2>1. /\ pods[p].rank < pods[p].world
        /\ p[1] = "Master" => p[2] = 0
        /\ pods[p].rank = IF p[1] = "Master" THEN p[2] ELSE p[2] + 1
    BY DEF Inv, Ranked
  <2>2. /\ q[1] = "Master" => q[2] = 0
        /\ pods[q].rank = IF q[1] = "Master" THEN q[2] ELSE q[2] + 1
    BY DEF Inv, Ranked
  <2>3. DOMAIN Effective(job).specs \subseteq {"AIMaster", "Master", "Worker"}
    BY EffectiveFacts, TypesOfKinds DEF Inv, TypeOK, Settled
  <2>4. p[1] \in {"Master", "Worker"} /\ q[1] \in {"Master", "Worker"}
    BY <2>3 DEF Inv, Placed
  <2>5. p[2] \in Nat /\ q[2] \in Nat /\ p = <<p[1], p[2]>> /\ q = <<q[1], q[2]>>
    BY DEF Slots
  <2>6. pods[p].rank = pods[q].rank => p[1] = q[1] /\ p[2] = q[2]
    BY <2>1, <2>2, <2>4, <2>5
  <2> QED BY <2>1, <2>5, <2>6
<1>2. Init => Inv
  BY InitInv
<1>3. Inv /\ [Next]_vars => Inv'
  BY NextInv
<1> QED BY <1>1, <1>2, <1>3, PTL DEF Spec

(***************************************************************************)
(* Verdicts of all kinds are earned: a job becomes Succeeded only while    *)
(* the pods that decide have succeeded, without DAG scheduling it fails    *)
(* only after a failure that is not restarted, the completion time goes    *)
(* with the verdict and only the jobs of TypeOK panic (UpdateJobStatus,    *)
(* updateJobReplicaStatuses and the defaults of the controllers).  Counts  *)
(* of an earlier sync stay in the status while the DAG keeps a type from   *)
(* being visited: the invariant is that such counts never decide, except   *)
(* behind an AIMaster.                                                     *)
(***************************************************************************)
THEOREM VerdictsHold == Spec => VerdictsAreEarned
<1>1. Inv => TypeOK /\ status.completed = Finished(status.conds) /\ (IsFailed(status.conds) /\ ~job.dag => hist # {})
  BY DEF Inv, Fails
<1>2. Init => Inv
  BY InitInv
<1>3. Inv /\ [Next]_vars => Inv' /\ EarnedStep
  BY NextInv
<1>4. EarnedStep => [~IsSucceeded(status.conds) /\ IsSucceeded(status.conds') =>
                       Earned(Effective(job)) \/ AIMasterGates(job)]_vars
  BY DEF EarnedStep
<1> QED BY <1>1, <1>2, <1>3, <1>4, PTL DEF Spec, VerdictsAreEarned
=============================================================================
