---------------------------- MODULE MCServices ----------------------------
(***************************************************************************)
(* What KubeDL offers besides training, one part at a time (scenario tells *)
(* which): model versions and inference, the persistence of objects and of *)
(* events, and the console's jobs.  The variables of the other parts are   *)
(* 0, and those of the persistence of objects as they are initially.       *)
(***************************************************************************)
EXTENDS Persistence

CONSTANT s1 \* a session

VARIABLES api, registry, mvQueue, infQueue, recorded, edits,
          users, jobs, pods, store, sess, nextId,
          events, gone, saving, log, logQueue, now, faults, scenario

(* All objects are of a kind that is persisted. *)
OfTFJob == [o \in {"j", "p"} |-> "TFJob"]

(* Two versions of one model, the second created by a training job. *)
VersionOf(id, storage) == [model |-> "m", versionId |-> id, repo |-> "r", storage |-> storage]
Predictor(name, version, weight) == [name |-> name, version |-> version, weight |-> weight]

Serving == INSTANCE ModelServing WITH
  Versions <- {"v1", "v2"}, JobVersions <- {"v2"}, Inferences <- {"i1"}, NoName <- None,
  VersionSpec <- [v1 |-> VersionOf("t1", "NFS"), v2 |-> VersionOf("t2", "Local")],
  Specs <- [i1 |-> {<<Predictor("a", "v1", 100)>>,
                    <<Predictor("a", None, 1), Predictor("b", "v2", 2)>>}],
  MaxEdits <- 1, MaxFaults <- 1, budget <- edits

JobPages == INSTANCE Console WITH
  Names <- {"j", "j1"}, NameContains <- {<<"j", "j">>, <<"j1", "j1">>, <<"j1", "j">>},
  Users <- {"u"}, AuthMode <- "config", Sessions <- {s1},
  Forms <- {[kind |-> "TFJob", replicas |-> [Worker |-> 1, TensorBoard |-> 1]],
            [kind |-> "PyTorchJob", replicas |-> [Worker |-> 2]]},
  MaxIds <- 2, MaxList <- 4, MaxRemovals <- 1

Log == INSTANCE EventLog WITH
  Events <- {"scheduled", "created", "pulled"},
  ObjectOf <- [scheduled |-> "pod", created |-> "job", pulled |-> "other"],
  Pods <- {"pod", "other"}, Foreign <- {"other"}, Page <- 2, Attempts <- 2, MaxTime <- 2, MaxFaults <- 2,
  queue <- logQueue

ASSUME ServiceAssumptions ==
  /\ Serving!ServingAssumption /\ PersistenceAssumption
  /\ JobPages!ConsoleAssumption

-----------------------------------------------------------------------------
(* The variables of the other parts. *)
servingVars == <<api, registry, mvQueue, infQueue, recorded, edits>>
jobsVars    == <<users, jobs, pods, store, sess, nextId>>
logVars     == <<events, gone, saving, log, logQueue, now, faults>>

(* The variables of the part at work: no others ever change. *)
partVars ==
  CASE scenario = "records" -> vars
    [] scenario = "jobs"    -> jobsVars
    [] scenario = "log"     -> logVars
    [] scenario = "serving" -> servingVars

NoServing == api = 0 /\ registry = 0 /\ mvQueue = 0 /\ infQueue = 0 /\ recorded = 0 /\ edits = 0
NoJobs    == users = 0 /\ jobs = 0 /\ pods = 0 /\ store = 0 /\ sess = 0 /\ nextId = 0
NoLog     == events = 0 /\ gone = 0 /\ saving = 0 /\ log = 0 /\ logQueue = 0 /\ now = 0 /\ faults = 0

PartInit ==
  /\ Init
  /\ \/ scenario = "serving" /\ Serving!Init /\ NoJobs /\ NoLog
     \/ scenario = "records" /\ NoServing /\ NoJobs /\ NoLog
     \/ scenario = "jobs" /\ JobPages!Init /\ NoServing /\ NoLog
     \/ scenario = "log" /\ Log!Init /\ NoServing /\ NoJobs

PartNext ==
  /\ UNCHANGED scenario
  /\ \/ scenario = "serving" /\ Serving!Next /\ UNCHANGED <<vars, jobsVars, logVars>>
     \/ scenario = "records" /\ Next /\ UNCHANGED <<servingVars, jobsVars, logVars>>
     \/ scenario = "jobs" /\ JobPages!Next /\ UNCHANGED <<vars, servingVars, logVars>>
     \/ scenario = "log" /\ Log!Next /\ UNCHANGED <<vars, servingVars, jobsVars>>

(* An action of the part at work; the console owes nothing to anyone. *)
Fair(serving, records, log_) ==
  /\ UNCHANGED scenario
  /\ \/ scenario = "serving" /\ serving
     \/ scenario = "records" /\ records
     \/ scenario = "log" /\ log_

Key(o, u) == [object |-> o, id |-> u]

(* The fairness of each part.  The scenario never changes, so conjuncts of different parts *)
(* can share a line.                                                                        *)
PartSpec ==
  /\ PartInit /\ [][PartNext]_<<partVars, scenario>>
  /\ WF_partVars(Fair(Serving!ReconcileModelVersion("v1"), Reconcile(Key("j", 1)), Log!Reconcile("scheduled")))
  /\ WF_partVars(Fair(Serving!ReconcileModelVersion("v2"), Reconcile(Key("j", 2)), Log!Reconcile("created")))
  /\ WF_partVars(Fair(Serving!ReconcileInference("i1"), Reconcile(Key("p", 1)), Log!Reconcile("pulled")))
  /\ WF_partVars(Fair(Serving!ClusterStep, Reconcile(Key("p", 2)), Log!SaveEvent))
  /\ WF_partVars(Fair(Serving!Resync, Deliver("j"), FALSE))
  /\ WF_partVars(Fair(FALSE, Deliver("p"), FALSE))

-----------------------------------------------------------------------------
(***************************************************************************)
(* What is said of a build is so.  A predictor never loads an image that   *)
(* was not pushed: syncPredictor deploys only versions whose build         *)
(* succeeded, and Reconcile of versions says so only after the build pod   *)
(* did.  The model's latest version is one that recorded the very image    *)
(* the model shows, whatever write of the sync that started the build was  *)
(* the last to succeed.  And a decided build stays decided, even when its  *)
(* pod is deleted (modelversion_controller.go, Reconcile).                 *)
(***************************************************************************)
BuildsAreTrue ==
  /\ [](scenario = "serving" =>
          Serving!TypeOK /\ Serving!LoadedImageWasPushed /\ Serving!LatestVersionIsRecorded)
  /\ [][scenario = "serving" => Serving!KeepsVerdicts]_partVars

(***************************************************************************)
(* A version with usable storage is decided: nobody watches build pods or  *)
(* claims, so this rests on the requeues of Reconcile.  A predictor whose  *)
(* version is built is deployed at last, also when the inference was       *)
(* created before the build ended or the service and the deployment were   *)
(* cut apart, and the status of an inference with one predictor settles on *)
(* what is deployed, although the deployment becomes ready after the sync  *)
(* that created it (inference_controller.go, syncPredictor).               *)
(***************************************************************************)
BuiltModelIsServed ==
  <>[](scenario = "serving" => Serving!AllDecided /\ Serving!AllServed /\ Serving!StatusIsRight)

(***************************************************************************)
(* What stays in the API server ends up in the database as it is there     *)
(* (SaveJob, SavePod); a job that left it for good is closed there even    *)
(* when calls fail between the stop and the deletion of its record         *)
(* (StopJob, DeleteJob), unless a manager that restarted missed the        *)
(* deletion.  Every event of a managed object that the API server lists    *)
(* gets to the log store with its last count, whatever failed and however  *)
(* often it was counted up while an earlier form was being written         *)
(* (SaveEvent, the event handler).                                         *)
(***************************************************************************)
RecordsSettle ==
  <>[](/\ scenario = "records" => AllStored /\ AllClosed
       /\ scenario = "log" => Log!AllSaved)

AnyListIsPaged == JobPages!PagesOfAnyList

(***************************************************************************)
(* What the console answers is right.  The pages of a list show each job   *)
(* once, in the list's order, up to the page that holds the last of them:  *)
(* for every list of up to MaxList jobs, every page size and the lists     *)
(* that are reached, with the clamped first index of apiserver.go ListJobs *)
(* as with the offset and limit of the database.  The detail page of a     *)
(* name shows a job of that name, although the list that it starts from    *)
(* matches parts of names and the job may go or come back before it is     *)
(* fetched (GetJobDetail).  Once a deletion is answered, the job it had    *)
(* read is gone, whoever deleted it and whatever took its name since       *)
(* (DeleteJob).  A query of events shows every object of which the log     *)
(* store has a record in the asked time, also if its records fall on       *)
(* several pages and are deduplicated on each (ListEvent).                 *)
(***************************************************************************)
AnswersAreTrue ==
  /\ scenario = "jobs" =>
       /\ JobPages!TypeOK
       /\ AnyListIsPaged /\ JobPages!PagesOfLists
       /\ JobPages!DetailIsOfAskedJob
       /\ JobPages!DeletedIsGone
  /\ scenario = "log" => Log!ListsEveryObject

(***************************************************************************)
(* With --authentication-mode=config a handler runs for a session only if  *)
(* its user is in the ConfigMap at that time: removing a user also ends    *)
(* the use of sessions that are open (routers/middleware, auth/config.go). *)
(***************************************************************************)
OnlyKnownUsersAct == [][scenario = "jobs" => JobPages!ActsForKnownUser]_partVars

(***************************************************************************)
(* What is divided adds up.  The ratios of any split the users ask for     *)
(* leave less than one percent per predictor over                          *)
(* (computePredictorTrafficRatios); the hooks of a submission neither add  *)
(* nor lose a replica, and a PyTorchJob always gets a master               *)
(* (handlers/job_presubmit_hooks.go).                                      *)
(***************************************************************************)
SharesAddUp ==
  /\ scenario = "serving" => Serving!RatiosAddUp
  /\ scenario = "jobs" => JobPages!SubmittedReplicasAreKept
=============================================================================
