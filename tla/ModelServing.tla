---------------------------- MODULE ModelServing ----------------------------
(***************************************************************************)
(* From a model to a service: the model version controller builds an image *)
(* of a version (controllers/model), the inference controller deploys      *)
(* predictors that load it (controllers/serving), and a finished training  *)
(* job creates versions (createModelVersion of pkg/job_controller/job.go). *)
(*                                                                         *)
(* Abstractions.                                                           *)
(*  - A sync is the list of the writes it makes, in order; it is cut after *)
(*    any of them by an error or a crash and then tried again.  Each       *)
(*    controller runs one sync at a time and only it writes what its syncs *)
(*    read and write, besides the statuses other controllers own.          *)
(*  - A name made by formatting its parts is the tuple of the parts, as    *)
(*    the build pod <<model, version id>> and the image <<repo, id>>.      *)
(*  - Labels, ports, volumes and mount paths of the objects are left out.  *)
(***************************************************************************)
EXTENDS Integers, Sequences, FiniteSets, SequencesExt

CONSTANTS
  Versions,    \* names of model versions
  VersionSpec, \* [Versions -> ModelVersionSpec]: what each version asks for
  JobVersions, \* the versions that a training job creates when it succeeds
  Inferences,  \* names of inferences
  Specs,       \* [Inferences -> set of lists of predictors the user may ask for]
  MaxEdits,    \* bound: edits of inferences and of their services
  MaxFaults,   \* bound: writes that fail, restarts and deleted build pods
  NoName       \* the empty string: no version, no image

ModelNames   == {VersionSpec[v].model : v \in Versions}
VersionIds   == {VersionSpec[v].versionId : v \in Versions}
Repos        == {VersionSpec[v].repo : v \in Versions}
Images       == Repos \X VersionIds
Storages     == {"NFS", "Local", "LocalNoNode", "AWSEfs", "none"}

(* versionId: the tag of the spec, or the first digits of the UID if it has none. *)
ModelVersionSpec == [model : ModelNames, versionId : VersionIds, repo : Repos, storage : Storages]
ModelVersion == [storage : Storages, image : Images \cup {NoName},
                 phase : {NoName, "ImageBuilding", "ImageBuildSucceeded", "ImageBuildFailed"}]
Model == [version : Versions \cup {NoName}, image : Images \cup {NoName}]  \* LatestVersion

PredictorSpecs   == UNION {Range(s) : s \in UNION {Specs[i] : i \in Inferences}}
PredictorNames   == {p.name : p \in PredictorSpecs}
PredictorStatus  == [name : PredictorNames, ready : BOOLEAN, traffic : -1..100]
Inference        == [predictors : UNION {Specs[i] : i \in Inferences},
                     endpoint : BOOLEAN, statuses : Seq(PredictorStatus)]
Absent == [kind |-> "absent"]

ServingAssumption ==
  /\ VersionSpec \in [Versions -> ModelVersionSpec]
  /\ JobVersions \subseteq Versions
  /\ \A s \in UNION {Specs[i] : i \in Inferences} : IsInjective([n \in DOMAIN s |-> s[n].name])
  /\ MaxEdits \in Nat /\ MaxFaults \in Nat
  (* Version ids are not shared between versions of one model. *)
  /\ \A v, w \in Versions : v # w =>
       <<VersionSpec[v].model, VersionSpec[v].versionId>> # <<VersionSpec[w].model, VersionSpec[w].versionId>>

VARIABLES
  api,       \* the objects of the API server, one table per kind
  registry,  \* the images that were pushed
  mvQueue,   \* keys of versions waiting for a sync
  infQueue,  \* keys of inferences waiting for a sync
  recorded,  \* job versions whose name is in the status of their job
  budget     \* what is left of the bounds above

vars == <<api, registry, mvQueue, infQueue, recorded, budget>>

GetBuildImagePodName(v) == <<VersionSpec[v].model, VersionSpec[v].versionId>>
BuildPods == {GetBuildImagePodName(v) : v \in Versions}
genPredictorName(i, p) == <<i, p.name>>
Deployments == Inferences \X PredictorNames

Init ==
  /\ api = [versions    |-> [v \in Versions |-> Absent],
            models      |-> [m \in ModelNames |-> Absent],
            pvs         |-> [v \in Versions |-> Absent],
            pvcs        |-> [v \in Versions |-> "absent"],
            dockerfile  |-> [k \in {"dockerfile"} |-> FALSE],
            pods        |-> [p \in BuildPods |-> Absent],
            inferences  |-> [i \in Inferences |-> Absent],
            services    |-> [i \in Inferences |-> "absent"],
            backends    |-> [d \in Deployments |-> FALSE],
            deployments |-> [d \in Deployments |-> Absent],
            vsvcs       |-> [i \in Inferences |-> <<>>]]
  /\ registry = {} /\ mvQueue = {} /\ infQueue = {} /\ recorded = {}
  /\ budget = [edits |-> MaxEdits, faults |-> MaxFaults]

-----------------------------------------------------------------------------
(* A write puts an object into a table. *)
Put(table, key, object) == [table |-> table, key |-> key, object |-> object]
PutIf(missing, w) == IF missing THEN <<w>> ELSE <<>>
Apply(a, w) == [a EXCEPT ![w.table][w.key] = w.object]
ApplyAll(a, writes) == FoldLeft(Apply, a, writes)

(* What a sync writes and whether its key comes back. *)
Sync(writes, again) == [writes |-> writes, again |-> again]

IsBuilt(mv) == mv.phase = "ImageBuildSucceeded"
NeedsNoBuild(mv) == mv.phase \in {"ImageBuildSucceeded", "ImageBuildFailed"}

CreateModel(v) ==
  LET m == VersionSpec[v].model
  IN  PutIf(api.models[m] = Absent, Put("models", m, [version |-> NoName, image |-> NoName]))

(* The volume each storage provider makes; that of a node is pinned to it. *)
NFSVolume    == [source |-> "NFS", pinned |-> FALSE]
LocalVolume  == [source |-> "Local", pinned |-> TRUE]
AWSEfsVolume == [source |-> "CSI", pinned |-> FALSE]
GetStorageProvider(storage) ==
  CASE storage = "NFS" -> NFSVolume [] storage = "Local" -> LocalVolume [] storage = "AWSEfs" -> AWSEfsVolume

createPVAndPVCForModelVersion(v, mv) ==
  PutIf(api.pvs[v] = Absent, Put("pvs", v, GetStorageProvider(mv.storage))) \o PutIf(api.pvcs[v] = "absent", Put("pvcs", v, "pending"))

createDockerfileIfNotExists ==
  PutIf(~api.dockerfile["dockerfile"], Put("dockerfile", "dockerfile", TRUE))

createImgBuildPod(image) == [phase |-> "Pending", image |-> image]

(* The build pod comes first, then the version records it, then the model. *)
StartBuild(v, mv) ==
  LET spec  == VersionSpec[v]
      image == <<spec.repo, spec.versionId>>
  IN  createDockerfileIfNotExists
      \o <<Put("pods", GetBuildImagePodName(v), createImgBuildPod(image)),
           Put("versions", v, [mv EXCEPT !.image = image, !.phase = "ImageBuilding"]),
           Put("models", spec.model, [version |-> v, image |-> image])>>

(* Mutant: a pod that is not finished is not looked at again. *)
CheckBuildOnce(v, mv, pod) ==
  CASE pod.phase = "Succeeded" -> Sync(<<Put("versions", v, [mv EXCEPT !.phase = "ImageBuildSucceeded"])>>, FALSE)
    [] pod.phase = "Failed"    -> Sync(<<Put("versions", v, [mv EXCEPT !.phase = "ImageBuildFailed"])>>, FALSE)
    [] OTHER                   -> Sync(<<>>, FALSE)

CheckBuild(v, mv, pod) ==
  CASE pod.phase = "Succeeded" -> Sync(<<Put("versions", v, [mv EXCEPT !.phase = "ImageBuildSucceeded"])>>, FALSE)
    [] pod.phase = "Failed"    -> Sync(<<Put("versions", v, [mv EXCEPT !.phase = "ImageBuildFailed"])>>, FALSE)
    [] OTHER                   -> Sync(<<>>, TRUE)

(* One sync of a version.  The claim it creates is not yet bound for it, so that the sync that *)
(* creates the model never builds.  A version without storage is left alone, one on a node     *)
(* that is not named fails each time.                                                          *)
VersionSync(v) ==
  LET mv == api.versions[v]
  IN  IF mv = Absent \/ (mv # Absent /\ NeedsNoBuild(mv)) THEN Sync(<<>>, FALSE)
      ELSE CASE mv.storage = "none"        -> Sync(CreateModel(v), FALSE)
             [] mv.storage = "LocalNoNode" -> Sync(CreateModel(v), TRUE)
             [] OTHER ->
                  IF api.pvcs[v] # "bound"
                  THEN Sync(CreateModel(v) \o createPVAndPVCForModelVersion(v, mv), TRUE)
                  ELSE LET pod == api.pods[GetBuildImagePodName(v)]
                       IN  IF pod = Absent THEN Sync(StartBuild(v, mv), TRUE)
                                           ELSE CheckBuild(v, mv, pod)

(* Each write of a version is an event that brings its key back. *)
Touched(writes, table) == {writes[n].key : n \in {n \in DOMAIN writes : writes[n].table = table}}

ReconcileModelVersion(v) ==
  /\ v \in mvQueue
  /\ \E s \in {VersionSync(v)} : \E n \in 0..Len(s.writes) :
       LET done == SubSeq(s.writes, 1, n)
           cut  == n < Len(s.writes)
       IN  /\ cut => budget.faults > 0
           /\ budget' = IF cut THEN [budget EXCEPT !.faults = @ - 1] ELSE budget
           /\ api' = ApplyAll(api, done)
           /\ mvQueue' = (mvQueue \ {v}) \cup Touched(done, "versions") \cup (IF cut \/ s.again THEN {v} ELSE {})
  /\ UNCHANGED <<registry, infQueue, recorded>>

-----------------------------------------------------------------------------
(* Integer division; a total of zero is a panic in the code and is not asked for here. *)
computePredictorTrafficRatios(predictors) ==
  LET total == FoldLeft(LAMBDA sum, p : sum + p.weight, 0, predictors)
  IN  [n \in DOMAIN predictors |-> (predictors[n].weight * 100) \div total]

(* The sync of an inference so far: its writes, its new status and how it ended. *)
Progress(writes, endpoint, statuses, end) ==
  [writes |-> writes, endpoint |-> endpoint, statuses |-> statuses, end |-> end]

(* The endpoint is known only to a sync that finds the service as it should be. *)
syncServiceForInference(i, inf) ==
  IF api.services[i] = "ok"
  THEN Progress(<<>>, TRUE, inf.statuses, "no")
  ELSE Progress(<<Put("services", i, "ok")>>, inf.endpoint, inf.statuses, "no")

createServiceForPredictor(i, p) ==
  LET name == genPredictorName(i, p)
  IN  PutIf(~api.backends[name], Put("backends", name, TRUE))

buildModelLoaderInitContainer(p) == IF p.version = NoName THEN NoName ELSE api.versions[p.version].image

createNewPredictorDeploy(i, p) ==
  createServiceForPredictor(i, p)
  \o <<Put("deployments", genPredictorName(i, p), [image |-> buildModelLoaderInitContainer(p), ready |-> FALSE])>>

(* The status entry of predictor number n (from 1), written at index n - 1 of the list in the  *)
(* code; an index past the end is a panic.                                                     *)
SetPredictorStatus(done, n, p, ready) ==
  LET old  == done.statuses
      idx  == n - 1
      len  == Len(old)
      new  == [name |-> p.name, ready |-> ready, traffic |-> -1]
      kept == CASE len = 0 \/ len < idx -> Append(old, new)
                [] ~(len = 0 \/ len < idx) /\ idx < len -> [old EXCEPT ![n] = [new EXCEPT !.traffic = old[n].traffic]]
                [] OTHER -> old
  IN  IF len # 0 /\ len >= idx /\ idx >= len
      THEN [done EXCEPT !.end = "panic"]
      ELSE [done EXCEPT !.statuses = IF Len(kept) > n THEN SubSeq(kept, 1, n) ELSE kept]

(* Mutant: a version that is being built is deployed. *)
syncPredictorUnbuilt(i, done, n, p) ==
  LET d == api.deployments[genPredictorName(i, p)]
  IN  CASE done.end # "no" -> done
        [] done.end = "no" /\ p.version # NoName /\ api.versions[p.version] = Absent -> [done EXCEPT !.end = "error"]
        [] OTHER ->
             LET new == IF d = Absent THEN createNewPredictorDeploy(i, p) ELSE <<>>
             IN  SetPredictorStatus([done EXCEPT !.writes = @ \o new], n, p, IF d = Absent THEN FALSE ELSE d.ready)

(* The result of a predictor whose version is not built asks to come back; Reconcile drops it. *)
syncPredictor(i, done, n, p) ==
  LET d == api.deployments[genPredictorName(i, p)]
  IN  CASE done.end # "no" -> done
        [] done.end = "no" /\ p.version # NoName /\ api.versions[p.version] = Absent -> [done EXCEPT !.end = "error"]
        [] done.end = "no" /\ p.version # NoName /\ api.versions[p.version] # Absent
             /\ ~IsBuilt(api.versions[p.version]) -> done
        [] OTHER ->
             LET new == IF d = Absent THEN createNewPredictorDeploy(i, p) ELSE <<>>
             IN  SetPredictorStatus([done EXCEPT !.writes = @ \o new], n, p, IF d = Absent THEN FALSE ELSE d.ready)

(* Sets of one result each: TLC evaluates their elements once. *)
syncPredictors(i, start, predictors) ==
  FoldLeft(LAMBDA acc, n : {syncPredictor(i, done, n, predictors[n]) : done \in acc},
           {start}, [n \in DOMAIN predictors |-> n])

(* The share of each predictor is shown in the status once the virtual service is as it should be. *)
syncTrafficDistribution(i, done, predictors) ==
  LET ratios == computePredictorTrafficRatios(predictors)
      routes == [n \in DOMAIN predictors |-> <<predictors[n].name, ratios[n]>>]
      mine(st) == {n \in DOMAIN predictors : predictors[n].name = st.name}
      shown(st) == [st EXCEPT !.traffic = IF mine(st) = {} THEN 0 ELSE ratios[CHOOSE n \in mine(st) : TRUE]]
  IN  IF api.vsvcs[i] # routes
      THEN [done EXCEPT !.writes = Append(@, Put("vsvcs", i, routes))]
      ELSE [done EXCEPT !.statuses = [n \in DOMAIN done.statuses |-> shown(done.statuses[n])]]

updateStatus(i, inf, done) ==
  IF inf.endpoint = done.endpoint /\ inf.statuses = done.statuses THEN done
  ELSE [done EXCEPT !.writes = Append(@, Put("inferences", i,
          [inf EXCEPT !.endpoint = done.endpoint, !.statuses = done.statuses]))]

InferenceSync(i, inf) ==
  LET synced == UNION {syncPredictors(i, done, inf.predictors) : done \in {syncServiceForInference(i, inf)}}
      routed == {IF done.end = "no" /\ Len(inf.predictors) > 1
                 THEN syncTrafficDistribution(i, done, inf.predictors) ELSE done : done \in synced}
  IN  {IF done.end = "no" THEN updateStatus(i, inf, done) ELSE done : done \in routed}

(* Inferences and their deployments are watched. *)
TouchedInferences(writes) ==
  Touched(writes, "inferences") \cup {name[1] : name \in Touched(writes, "deployments")}

(* A panic ends the process, which starts again with every key. *)
ReconcileInference(i) ==
  /\ i \in infQueue
  /\ \E s \in IF api.inferences[i] = Absent THEN {Progress(<<>>, FALSE, <<>>, "no")}
            ELSE InferenceSync(i, api.inferences[i]) :
     \E n \in 0..Len(s.writes) :
       LET done == SubSeq(s.writes, 1, n)
           cut  == n < Len(s.writes)
       IN  /\ cut => budget.faults > 0
           /\ budget' = IF cut THEN [budget EXCEPT !.faults = @ - 1] ELSE budget
           /\ api' = ApplyAll(api, done)
           /\ infQueue' = (infQueue \ {i}) \cup TouchedInferences(done)
                          \cup (IF cut \/ s.end # "no" THEN {i} ELSE {})
  /\ UNCHANGED <<registry, mvQueue, recorded>>

-----------------------------------------------------------------------------
(* Users and other controllers. *)
NewVersion(storage) == [storage |-> storage, image |-> NoName, phase |-> NoName]

CreateVersion(v) ==
  /\ v \notin JobVersions /\ api.versions[v] = Absent
  /\ api' = Apply(api, Put("versions", v, NewVersion(VersionSpec[v].storage)))
  /\ mvQueue' = mvQueue \cup {v}
  /\ UNCHANGED <<registry, infQueue, recorded, budget>>

(* The only storage a job's pods can be given: the other providers panic in the sync of the job. *)
addModelPathEnv(storage) == storage \in {"Local", "LocalNoNode"}

(* createModelVersion of a job that succeeded; the job's kind says on which node the model is.   *)
(* A sync that is repeated after the version was created finds it and does not record its name;  *)
(* one that is repeated after its create failed finds no pods, and no node, any more.            *)
createModelVersion(v) ==
  /\ v \in JobVersions /\ addModelPathEnv(VersionSpec[v].storage) /\ api.versions[v] = Absent
  /\ \/ /\ recorded' = recorded \cup {v} /\ UNCHANGED budget
        /\ api' = Apply(api, Put("versions", v, NewVersion(VersionSpec[v].storage)))
     \/ /\ budget.faults > 0 /\ budget' = [budget EXCEPT !.faults = @ - 1] /\ UNCHANGED recorded
        /\ api' = Apply(api, Put("versions", v, NewVersion(VersionSpec[v].storage)))
     \/ /\ budget.faults > 0 /\ budget' = [budget EXCEPT !.faults = @ - 1] /\ recorded' = recorded \cup {v}
        /\ api' = Apply(api, Put("versions", v, NewVersion("LocalNoNode")))
  /\ mvQueue' = mvQueue \cup {v}
  /\ UNCHANGED <<registry, infQueue>>

CreateInference(i) ==
  /\ api.inferences[i] = Absent
  /\ \E ps \in Specs[i] :
       api' = Apply(api, Put("inferences", i, [predictors |-> ps, endpoint |-> FALSE, statuses |-> <<>>]))
  /\ infQueue' = infQueue \cup {i}
  /\ UNCHANGED <<registry, mvQueue, recorded, budget>>

EditInference(i) ==
  /\ api.inferences[i] # Absent /\ budget.edits > 0
  /\ \E ps \in Specs[i] \ {api.inferences[i].predictors} :
       api' = [api EXCEPT !.inferences[i].predictors = ps]
  /\ infQueue' = infQueue \cup {i}
  /\ budget' = [budget EXCEPT !.edits = @ - 1]
  /\ UNCHANGED <<registry, mvQueue, recorded>>

(* A service is changed by hand: nobody watches services. *)
EditService(i) ==
  /\ api.services[i] = "ok" /\ budget.edits > 0
  /\ api' = [api EXCEPT !.services[i] = "changed"]
  /\ budget' = [budget EXCEPT !.edits = @ - 1]
  /\ UNCHANGED <<registry, mvQueue, infQueue, recorded>>

BindClaim(v) ==
  /\ api.pvcs[v] = "pending" /\ api.pvs[v] # Absent
  /\ api' = [api EXCEPT !.pvcs[v] = "bound"]
  /\ UNCHANGED <<registry, mvQueue, infQueue, recorded, budget>>

(* The builder pushes the image before its pod succeeds. *)
FinishBuild(p) ==
  /\ api.pods[p] # Absent /\ api.pods[p].phase = "Pending"
  /\ \/ /\ api' = [api EXCEPT !.pods[p].phase = "Succeeded"]
        /\ registry' = registry \cup {api.pods[p].image}
     \/ /\ api' = [api EXCEPT !.pods[p].phase = "Failed"]
        /\ UNCHANGED registry
  /\ UNCHANGED <<mvQueue, infQueue, recorded, budget>>

DeleteBuildPod(p) ==
  /\ api.pods[p] # Absent /\ budget.faults > 0
  /\ api' = [api EXCEPT !.pods[p] = Absent]
  /\ budget' = [budget EXCEPT !.faults = @ - 1]
  /\ UNCHANGED <<registry, mvQueue, infQueue, recorded>>

DeploymentReady(d) ==
  /\ api.deployments[d] # Absent /\ ~api.deployments[d].ready
  /\ api' = [api EXCEPT !.deployments[d].ready = TRUE]
  /\ infQueue' = infQueue \cup {d[1]}
  /\ UNCHANGED <<registry, mvQueue, recorded, budget>>

(* The informers' periodic resync (every ten hours) and a restart enqueue every object.  The    *)
(* versions that are not in the queue already need no sync, so theirs are left out.             *)
Resync ==
  /\ infQueue' = infQueue \cup {i \in Inferences : api.inferences[i] # Absent}
  /\ infQueue' # infQueue
  /\ UNCHANGED <<api, registry, mvQueue, recorded, budget>>

(* The steps of the cluster's own controllers, each of which happens only so often. *)
ClusterStep ==
  \/ \E v \in Versions : BindClaim(v)
  \/ \E p \in BuildPods : FinishBuild(p)
  \/ \E d \in Deployments : DeploymentReady(d)

Next ==
  \/ \E v \in Versions : ReconcileModelVersion(v) \/ CreateVersion(v) \/ createModelVersion(v)
  \/ \E i \in Inferences : ReconcileInference(i) \/ CreateInference(i) \/ EditInference(i) \/ EditService(i)
  \/ \E p \in BuildPods : DeleteBuildPod(p)
  \/ ClusterStep
  \/ Resync

(* Work queues are first in first out, the cluster's own controllers work, informers resync.  Users owe nothing. *)
Fairness ==
  /\ \A v \in Versions : WF_vars(ReconcileModelVersion(v))
  /\ \A i \in Inferences : WF_vars(ReconcileInference(i))
  /\ WF_vars(ClusterStep)
  /\ WF_vars(Resync)

Spec == Init /\ [][Next]_vars /\ Fairness

-----------------------------------------------------------------------------
(* The tables hold what their kinds may hold; only versions with a volume have a claim. *)
TypeOK ==
  /\ \A v \in Versions : api.versions[v] \in ModelVersion \cup {Absent}
  /\ \A m \in ModelNames : api.models[m] \in Model \cup {Absent}
  /\ \A v \in Versions : api.pvcs[v] \in {"absent", "pending", "bound"} /\ (api.pvcs[v] # "absent" => api.pvs[v] # Absent)
  /\ \A i \in Inferences : api.inferences[i] \in Inference \cup {Absent}
  /\ \A d \in Deployments : api.deployments[d] \in [image : Images \cup {NoName}, ready : BOOLEAN] \cup {Absent}
  /\ registry \subseteq Images /\ mvQueue \subseteq Versions /\ infQueue \subseteq Inferences
  /\ recorded \subseteq JobVersions /\ budget \in [edits : 0..MaxEdits, faults : 0..MaxFaults]

(* A predictor never loads an image that was not pushed: syncPredictor deploys only versions *)
(* whose build succeeded, and Reconcile of versions says so only after the build pod did.    *)
LoadedImageWasPushed ==
  \A d \in Deployments : api.deployments[d] # Absent /\ api.deployments[d].image # NoName
                         => api.deployments[d].image \in registry

(* The model's latest version is one that recorded the very image the model shows, whatever  *)
(* write of the sync that started the build was the last to succeed.                         *)
LatestVersionIsRecorded ==
  \A m \in ModelNames : LET latest == api.models[m] IN
    latest # Absent /\ latest.version # NoName => api.versions[latest.version].image = latest.image

(* The ratios of any split the users ask for leave less than one percent per predictor over. *)
RatiosAddUp ==
  \A i \in Inferences : api.inferences[i] # Absent =>
    LET ps    == api.inferences[i].predictors
        given == FoldLeft(LAMBDA sum, r : sum + r, 0, computePredictorTrafficRatios(ps))
    IN  given <= 100 /\ given > 100 - Len(ps)

(* A step that leaves decided builds decided. *)
KeepsVerdicts ==
  \A v \in Versions : api.versions[v] # Absent /\ NeedsNoBuild(api.versions[v])
     => api'.versions[v] = api.versions[v]

(* Every version with usable storage is decided. *)
AllDecided ==
  \A v \in Versions : api.versions[v] # Absent /\ api.versions[v].storage \notin {"none", "LocalNoNode"}
     => NeedsNoBuild(api.versions[v])

Deployable(p) == p.version = NoName \/ (api.versions[p.version] # Absent /\ IsBuilt(api.versions[p.version]))
Missing(p) == p.version # NoName /\ api.versions[p.version] = Absent
Asked(i, p) == api.inferences[i] # Absent /\ p \in Range(api.inferences[i].predictors)

(* A predictor whose version is built is deployed, unless another predictor asks for a version *)
(* that does not exist, which ends each sync with an error.                                     *)
AllServed ==
  \A i \in Inferences : \A p \in PredictorSpecs :
    Asked(i, p) /\ Deployable(p) => \/ api.deployments[genPredictorName(i, p)] # Absent
                                    \/ \E q \in PredictorSpecs : Asked(i, q) /\ Missing(q)

(* The status of an inference with one predictor says what is deployed (its share of the *)
(* traffic is left out: it stays what it was when there were two).                       *)
StatusIsRight ==
  \A i \in Inferences :
    (api.inferences[i] # Absent /\ Len(api.inferences[i].predictors) = 1) =>
      LET inf == api.inferences[i]
          p   == inf.predictors[1]
          d   == api.deployments[genPredictorName(i, p)]
      IN  d # Absent /\ Deployable(p)
            => inf.endpoint /\ Len(inf.statuses) = 1 /\ inf.statuses[1].name = p.name /\ inf.statuses[1].ready
=============================================================================
