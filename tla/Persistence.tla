---------------------------- MODULE Persistence ----------------------------
(***************************************************************************)
(* The persist controllers (controllers/persist) mirror jobs and pods of   *)
(* the API server into a database (pkg/storage/backends/objects/mysql): a  *)
(* record per incarnation, found by its UID, that outlives the object.     *)
(*                                                                         *)
(* Abstractions.                                                           *)
(*  - The six job kinds have controllers of the same text, so one queue    *)
(*    with one worker stands for each; only they write the records.        *)
(*  - Timestamps are whether they are set.  Regions, images, addresses,    *)
(*    resources and remarks are left out.                                  *)
(*  - A status is the type of the job's last condition, or the phase of    *)
(*    the pod; `seen` tells that the job has had a Running condition, or   *)
(*    that the pod has container statuses.                                 *)
(***************************************************************************)
EXTENDS Integers, Sequences, FiniteSets, SequencesExt

CONSTANTS
  Jobs,        \* names of jobs
  Pods,        \* names of pods
  Kind,        \* [Jobs \cup Pods -> kind of the job, or of the owner of the pod]
  Namespace,   \* the namespace they are in
  UIDs,        \* 1..N: the UIDs the API server may give out
  MaxVersion,  \* bound: writes to the API server
  MaxFaults,   \* bound: calls to the database that fail and restarts of the manager
  None         \* no object, no record

Objects == Jobs \cup Pods

JobStatus == {"Created", "Queuing", "Running", "Restarting", "Succeeded", "Failed"}
PodPhase  == {"Pending", "Running", "Succeeded", "Failed"}
Ended     == {"Succeeded", "Failed"}

Object == [uid : UIDs, version : 1..MaxVersion, status : JobStatus \cup PodPhase, seen : BOOLEAN]

(* dmo.Job and dmo.Pod. *)
Record ==
  [ns : {Namespace}, name : Objects, version : 1..MaxVersion,
   status : JobStatus \cup PodPhase \cup {"Unknown", "Stopped"},
   started : BOOLEAN, finished : BOOLEAN, isInEtcd : BOOLEAN, deleted : BOOLEAN]

PersistenceAssumption ==
  /\ Jobs \cap Pods = {}
  /\ UIDs = 1..Cardinality(UIDs)
  /\ MaxVersion \in Nat /\ MaxFaults \in Nat
  /\ None \notin Object \cup Record \cup UIDs

VARIABLES
  last,   \* [UIDs -> last state of that incarnation]
  alive,  \* [Objects -> the incarnation in the API server]
  stream, \* [Objects -> changes the manager has not seen yet]
  cache,  \* [Objects -> what the manager's cache holds]
  queue,  \* keys of the controllers: an object's name with a UID
  db,     \* [UIDs -> its record]
  budget  \* what is left of the bounds

vars == <<last, alive, stream, cache, queue, db, budget>>

Init ==
  /\ last = [u \in UIDs |-> None]
  /\ alive = [o \in Objects |-> None]
  /\ stream = [o \in Objects |-> <<>>]
  /\ cache = [o \in Objects |-> None]
  /\ queue = {}
  /\ db = [u \in UIDs |-> None]
  /\ budget = [versions |-> MaxVersion, faults |-> MaxFaults, restarted |-> FALSE]

-----------------------------------------------------------------------------
(* The API server. *)

Current(o) == IF alive[o] = None THEN None ELSE last[alive[o]]
NextVersion == MaxVersion - budget.versions + 1

Write(o, u, object) ==
  /\ budget.versions > 0
  /\ budget' = [budget EXCEPT !.versions = @ - 1]
  /\ last' = [last EXCEPT ![u] = object]
  /\ stream' = [stream EXCEPT ![o] = Append(@, object)]
  /\ UNCHANGED <<cache, queue, db>>

CreateObject(o) ==
  /\ alive[o] = None
  /\ \E u \in UIDs :
       /\ last[u] = None /\ \A v \in 1..u-1 : last[v] # None
       /\ Write(o, u, [uid |-> u, version |-> NextVersion, seen |-> FALSE,
                       status |-> IF o \in Jobs THEN "Created" ELSE "Pending"])
       /\ alive' = [alive EXCEPT ![o] = u]

(* A job's status changes until it ended; a pod goes from Pending to Running to its end,    *)
(* and may fail without ever having container statuses when it is evicted.                  *)
JobSteps(x) ==
  {[x EXCEPT !.status = s, !.seen = @ \/ s = "Running"] : s \in JobStatus \ {x.status, "Created"}}
PodSteps(x) ==
  {y \in UNION {{[x EXCEPT !.status = s, !.seen = c] : c \in BOOLEAN} : s \in PodPhase} :
     /\ y # x /\ (x.seen => y.seen)
     /\ x.status = "Running" => y.status # "Pending"
     /\ y.status \in {"Running", "Succeeded"} => y.seen}

ChangeObject(o) ==
  /\ alive[o] # None /\ Current(o).status \notin Ended
  /\ \E x \in IF o \in Jobs THEN JobSteps(Current(o)) ELSE PodSteps(Current(o)) :
       Write(o, alive[o], [x EXCEPT !.version = NextVersion])
  /\ UNCHANGED alive

DeleteObject(o) ==
  /\ alive[o] # None
  /\ alive' = [alive EXCEPT ![o] = None]
  /\ stream' = [stream EXCEPT ![o] = Append(@, None)]
  /\ UNCHANGED <<last, cache, queue, db, budget>>

-----------------------------------------------------------------------------
(* The event handlers enqueue the UID with the name. *)

IDName(o, x) == [object |-> o, id |-> x.uid]

IsKubeDLManagedJobKind(kind) == kind \in {"TFJob", "PyTorchJob", "XDLJob", "XGBoostJob", "ElasticBatchJob"}
IsKubeDLManagedPod(o) == o \in Pods /\ IsKubeDLManagedJobKind(Kind[o])

(* Mutant: updates of a job are not watched. *)
enqueueForJobNoUpdate(o, old, new) == IF None \in {old, new} THEN {IDName(o, x) : x \in {old, new} \ {None}} ELSE {}

enqueueForJob(o, old, new) == {IDName(o, x) : x \in {old, new} \ {None}}
enqueueForPod(o, old, new) ==
  IF IsKubeDLManagedPod(o) THEN {IDName(o, x) : x \in {old, new} \ {None}} ELSE {}

Deliver(o) ==
  /\ stream[o] # <<>>
  /\ \E new \in {Head(stream[o])} :
       /\ cache' = [cache EXCEPT ![o] = new]
       /\ queue' = queue \cup IF o \in Jobs THEN enqueueForJob(o, cache[o], new)
                                            ELSE enqueueForPod(o, cache[o], new)
  /\ stream' = [stream EXCEPT ![o] = Tail(@)]
  /\ UNCHANGED <<last, alive, db, budget>>

-----------------------------------------------------------------------------
(* What a record is made of. *)

ConvertJobToDMOJob(o, x) ==
  [ns |-> Namespace, name |-> o, version |-> x.version, status |-> x.status,
   started |-> x.seen, finished |-> x.status \in Ended, isInEtcd |-> TRUE, deleted |-> FALSE]

(* Without container statuses the phase is not looked at. *)
ConvertPodToDMOPod(o, x) ==
  [ns |-> Namespace, name |-> o, version |-> x.version,
   status |-> IF x.seen THEN x.status ELSE "Unknown",
   started |-> x.seen /\ x.status # "Pending", finished |-> x.seen /\ x.status \in Ended,
   isInEtcd |-> TRUE, deleted |-> FALSE]

Convert(o, x) == IF o \in Jobs THEN ConvertJobToDMOJob(o, x) ELSE ConvertPodToDMOPod(o, x)

(* A write of the older state is dropped; times that were set stay. *)
Merge(old, new) ==
  IF old.version > new.version THEN old
  ELSE [new EXCEPT !.started = @ \/ old.started, !.finished = @ \/ old.finished]

updateJob(old, new) == Merge(old, new)
updatePod(old, new) == Merge(old, new)

-----------------------------------------------------------------------------
(* The backend: the states the database goes through, one per write, and the error. *)

Calls(writes, error) == [writes |-> writes, error |-> error]

(* Mutant: the record is looked up by name, as if names were not used again. *)
SaveJobByName(o, x) ==
  LET mine == {u \in UIDs : db[u] # None /\ db[u].name = o}
      u    == IF mine = {} THEN x.uid ELSE CHOOSE v \in mine : \A w \in mine : v <= w
  IN  Calls(<<[db EXCEPT ![u] = IF @ = None THEN Convert(o, x) ELSE updateJob(@, Convert(o, x))]>>, FALSE)

SaveJob(o, x) ==
  Calls(<<[db EXCEPT ![x.uid] = IF @ = None THEN ConvertJobToDMOJob(o, x)
                                ELSE updateJob(@, ConvertJobToDMOJob(o, x))]>>, FALSE)

SavePod(o, x) ==
  Calls(<<[db EXCEPT ![x.uid] = IF @ = None THEN ConvertPodToDMOPod(o, x)
                                ELSE updatePod(@, ConvertPodToDMOPod(o, x))]>>, FALSE)

(* A job that was live is marked as stopped, whatever its status it left the API server. *)
StopJob(record) ==
  LET live == record.status \in {"Running", "Created", "Restarting"}
  IN  updateJob(record, [record EXCEPT !.isInEtcd = FALSE,
                                       !.status = IF live THEN "Stopped" ELSE @,
                                       !.finished = @ \/ live])

DeleteJob(record) == updateJob(record, [record EXCEPT !.deleted = TRUE])

(* Stop, then delete: two reads and two writes. *)
HandlerDelete(id) ==
  IF db[id] = None THEN Calls(<<>>, TRUE)
  ELSE Calls(<<[db EXCEPT ![id] = StopJob(@)], [db EXCEPT ![id] = DeleteJob(StopJob(@))]>>, FALSE)

(* Not found unless namespace and name are those of the record. *)
StopPod(ns, name, id) ==
  IF db[id] = None \/ db[id].ns # ns \/ db[id].name # name THEN Calls(<<>>, TRUE)
  ELSE IF db[id].status \in {"Stopped", "Failed", "Succeeded"} THEN Calls(<<>>, FALSE)
       ELSE Calls(<<[db EXCEPT ![id] = updatePod(@, [@ EXCEPT !.isInEtcd = FALSE, !.status = "Stopped",
                                                              !.started = TRUE, !.finished = TRUE])]>>, FALSE)

-----------------------------------------------------------------------------
(* One sync of a key.  The object is looked up by its name alone, and a pod's *)
(* name and namespace change places in the call.                              *)
JobSync(key) ==
  IF cache[key.object] = None THEN HandlerDelete(key.id) ELSE SaveJob(key.object, cache[key.object])
PodSync(key) ==
  IF cache[key.object] = None THEN StopPod(key.object, Namespace, key.id)
                              ELSE SavePod(key.object, cache[key.object])
SyncOf(key) == IF key.object \in Jobs THEN JobSync(key) ELSE PodSync(key)

Reconcile(key) ==
  /\ key \in queue
  /\ \E calls \in {SyncOf(key)} :
       /\ db' = IF calls.writes = <<>> THEN db ELSE Last(calls.writes)
       /\ queue' = IF calls.error THEN queue ELSE queue \ {key}
  /\ UNCHANGED <<last, alive, stream, cache, budget>>

(* The database fails at some call; the key comes back. *)
ReconcileFails(key) ==
  /\ key \in queue /\ budget.faults > 0
  /\ \E calls \in {SyncOf(key)} : \E n \in 0..(Len(calls.writes) - 1) :
       db' = IF n = 0 THEN db ELSE calls.writes[n]
  /\ budget' = [budget EXCEPT !.faults = @ - 1]
  /\ UNCHANGED <<last, alive, stream, cache, queue>>

(* A new manager lists what exists: nothing tells it of objects deleted before. *)
Restart ==
  /\ budget.faults > 0
  /\ budget' = [budget EXCEPT !.faults = @ - 1, !.restarted = TRUE]
  /\ queue' = {}
  /\ cache' = [o \in Objects |-> None]
  /\ stream' = [o \in Objects |-> IF alive[o] = None THEN <<>> ELSE <<Current(o)>>]
  /\ UNCHANGED <<last, alive, db>>

Keys == [object : Objects, id : UIDs]

Next ==
  \/ \E o \in Objects : CreateObject(o) \/ ChangeObject(o) \/ DeleteObject(o) \/ Deliver(o)
  \/ \E key \in queue : Reconcile(key) \/ ReconcileFails(key)
  \/ Restart

(* Informers keep delivering and a worker serves every key; nobody has to change an object. *)
Fairness ==
  /\ \A o \in Objects : WF_vars(Deliver(o))
  /\ \A key \in Keys : WF_vars(Reconcile(key))

Spec == Init /\ [][Next]_vars /\ Fairness

-----------------------------------------------------------------------------
(* Objects, caches, watches, keys and records are what their kinds may be. *)
TypeOK ==
  /\ last \in [UIDs -> Object \cup {None}]
  /\ alive \in [Objects -> UIDs \cup {None}]
  /\ cache \in [Objects -> Object \cup {None}]
  /\ stream \in [Objects -> Seq(Object \cup {None})]
  /\ queue \subseteq Keys
  /\ db \in [UIDs -> Record \cup {None}]

(* The UID is in the key so that a job or pod that is created again does not write over the *)
(* record of the one before it: a record in use always shows a state its own incarnation    *)
(* was in, and the last one if it has that version.                                          *)
RecordIsOwn ==
  \A u \in UIDs : db[u] # None =>
    /\ last[u] # None /\ db[u].version <= last[u].version
    /\ \A v \in UIDs : v # u /\ last[v] # None /\ db[v] # None => db[v].version # db[u].version
    /\ db[u].version = last[u].version /\ db[u].isInEtcd => db[u].status = Convert(db[u].name, last[u]).status

(* A step that takes no record back: its version does not fall, a time that was set stays    *)
(* set, a record that ended keeps how it ended, and what was deleted stays deleted.          *)
GoesForward ==
  \A u \in UIDs : db[u] # None =>
    /\ db'[u] # None /\ db'[u].version >= db[u].version
    /\ (db[u].started => db'[u].started)
    /\ (db[u].finished => db'[u].finished /\ db'[u].status = db[u].status)
    /\ (db[u].deleted => db'[u] = db[u])

(***************************************************************************)
(* The UID is in the key so that a job or pod that is created again does   *)
(* not write over the record of the one before it: a record always shows a *)
(* state its own incarnation was in.  Whatever the order of events,        *)
(* retries and restarts, it never goes back: its version does not fall, a  *)
(* time that was set stays set, a record that ended keeps how it ended,    *)
(* and what was deleted stays deleted (mysql.go, the conditions of its     *)
(* updates).                                                               *)
(***************************************************************************)
RecordsAreTrue == [](TypeOK /\ RecordIsOwn) /\ [][GoesForward]_vars

(* What is in the API server is in the database as it is there. *)
AllStored ==
  \A o \in Objects : alive[o] # None /\ (o \in Jobs \/ IsKubeDLManagedPod(o)) =>
    db[alive[o]] = Convert(o, Current(o))

(* The incarnation that was the last of its name; a manager that never restarted saw it go. *)
LastOf(o) == {u \in UIDs : db[u] # None /\ db[u].name = o /\ \A v \in UIDs : db[v] # None /\ db[v].name = o => v <= u}
SawDeletion == ~budget.restarted

(* A job that left the API server is closed in the database. *)
AllClosed ==
  SawDeletion => \A o \in Jobs : alive[o] = None => \A u \in LastOf(o) :
    /\ db[u].deleted /\ ~db[u].isInEtcd
    /\ db[u].status \notin {"Created", "Running", "Restarting"}
=============================================================================
