------------------------------ MODULE Console ------------------------------
(***************************************************************************)
(* The console's job API (console/backend): requests of logged in users    *)
(* are served from the API server, and from the database when the API      *)
(* server has nothing to show (storage/objects/proxy).                     *)
(*                                                                         *)
(* Abstractions.                                                           *)
(*  - One namespace and one region; queries have a name and a page, and    *)
(*    their interval contains every job.                                   *)
(*  - Incarnations of jobs are numbered in the order of their creation.    *)
(*  - What the persist controllers do (module Persistence) is a step that  *)
(*    saves a job; records are never removed.                              *)
(*  - A job has at most one pod, which outlives it until it is collected.  *)
(***************************************************************************)
EXTENDS Integers, Sequences, FiniteSets, SequencesExt, Functions

CONSTANTS
  Names,     \* names of jobs
  NameContains, \* set of <<a, b>>: the name a contains the name b
  Users,     \* names of users
  AuthMode,  \* "none" or "config": --authentication-mode
  Sessions,  \* browser sessions
  Forms,     \* what users submit: [kind, replicas], replicas by type
  MaxIds,    \* bound: jobs that are created
  MaxList,   \* bound: length of the lists that are paged
  MaxRemovals, \* bound: users that an administrator removes
  None

Ids == 1..MaxIds
Anonymous == "Anonymous"

(* The body of a response: a verdict, the jobs of a list, the job and the pods of a detail. *)
Response(what) == [what |-> what, ids |-> <<>>, job |-> <<>>, counts |-> <<>>]
Blank == Response("")

ConsoleAssumption ==
  /\ \A n \in Names : <<n, n>> \in NameContains
  /\ AuthMode \in {"none", "config"}
  /\ \A f \in Forms : f.kind \in {"TFJob", "PyTorchJob"} /\ \A t \in DOMAIN f.replicas : f.replicas[t] \in Nat
  /\ MaxIds \in Nat /\ MaxRemovals \in Nat /\ MaxList \in Nat

VARIABLES
  users, \* the users of the console's ConfigMap
  jobs,  \* [Names -> the live job of that name]
  pods,  \* live pods: [name of the job, id of the job, status]
  store, \* [Ids -> the name in the record of the database]
  sess,  \* [Sessions -> who is logged in, the request and its answer]
  nextId

vars == <<users, jobs, pods, store, sess, nextId>>

Init ==
  /\ users = Users
  /\ jobs = [n \in Names |-> None]
  /\ pods = {}
  /\ store = [i \in Ids |-> None]
  /\ sess = [s \in Sessions |-> [login |-> None, pc |-> "idle", name |-> None, id |-> None, answer |-> Blank]]
  /\ nextId = 1

-----------------------------------------------------------------------------
(* Hooks of a submission. *)
Total(replicas) == FoldFunction(+, 0, replicas)

(* A TFJob with one replica besides its TensorBoard runs it as chief. *)
tfJobPreSubmitAutoConvertReplicas(form) ==
  LET r == form.replicas
      compute == Restrict(r, DOMAIN r \ {"TensorBoard"})
  IN  IF form.kind = "TFJob" /\ Total(compute) = 1 /\ "Worker" \in DOMAIN r /\ "Chief" \notin DOMAIN r
      THEN [form EXCEPT !.replicas = [t \in (DOMAIN r \ {"Worker"}) \cup {"Chief"} |->
                                        IF t = "Chief" THEN r["Worker"] ELSE r[t]]]
      ELSE form

Replicas(r, t) == IF t \in DOMAIN r THEN r[t] ELSE 0

(* Mutant: the workers are not counted down when one of them becomes the master. *)
pytorchJobPreSubmitNoDecrement(form) ==
  LET r == form.replicas
      convert == Replicas(r, "Master") = 0 /\ Replicas(r, "Worker") > 0
      all == [t \in DOMAIN r \cup (IF convert THEN {"Master"} ELSE {}) |->
                IF t = "Master" /\ convert THEN 1 ELSE r[t]]
  IN  IF form.kind = "PyTorchJob" THEN [form EXCEPT !.replicas = all] ELSE form

(* A PyTorchJob without a master turns one of its workers into it. *)
pytorchJobPreSubmitAutoConvertReplicas(form) ==
  LET r       == form.replicas
      convert == Replicas(r, "Master") = 0 /\ Replicas(r, "Worker") > 0
      workers == Replicas(r, "Worker") - (IF convert THEN 1 ELSE 0)
      types   == (DOMAIN r \cup (IF convert THEN {"Master"} ELSE {})) \ (IF workers <= 0 THEN {"Worker"} ELSE {})
  IN  IF form.kind # "PyTorchJob" THEN form
      ELSE [form EXCEPT !.replicas =
              [t \in types |-> IF t = "Worker" THEN workers ELSE IF t = "Master" /\ convert THEN 1 ELSE r[t]]]

submitJob(form) == pytorchJobPreSubmitAutoConvertReplicas(tfJobPreSubmitAutoConvertReplicas(form))

-----------------------------------------------------------------------------
(* Backends.  Lists are ordered by creation, the newest first. *)
NewestFirst(ids) == SetToSortSeq(ids, >)
LiveIds(like) == {jobs[n].id : n \in {m \in Names : jobs[m] # None /\ (like = None \/ <<m, like>> \in NameContains)}}
StoredIds(like) == {i \in Ids : store[i] # None /\ (like = None \/ <<store[i], like>> \in NameContains)}
NoPage == [num |-> 0, size |-> 0]

MinOf(a, b) == IF a < b THEN a ELSE b
MaxOf(a, b) == IF a > b THEN a ELSE b

(* Mutant: pages are counted from zero. *)
PageOfLiveZeroBased(list, page) ==
  LET start == MinOf(page.size * page.num, Len(list) - 1)
  IN  IF page = NoPage \/ Len(list) <= 1 THEN list ELSE SubSeq(list, start + 1, MinOf(start + page.size, Len(list)))

(* A page past the end shows the last job again. *)
PageOfLive(list, page) ==
  LET start == MinOf(MaxOf(page.size * (page.num - 1), 0), Len(list) - 1)
  IN  IF page = NoPage \/ Len(list) <= 1 THEN list ELSE SubSeq(list, start + 1, MinOf(start + page.size, Len(list)))

PageOfStored(list, page) ==
  LET start == page.size * (page.num - 1)
  IN  IF page = NoPage THEN list ELSE SubSeq(list, start + 1, MinOf(start + page.size, Len(list)))

(* The database is asked only if no live job matches. *)
ListJobs(like, page) ==
  IF LiveIds(like) # {} THEN PageOfLive(NewestFirst(LiveIds(like)), page)
                        ELSE PageOfStored(NewestFirst(StoredIds(like)), page)

(* By name in the API server, whatever the id; else by name and id in the database. *)
GetJob(name, id) ==
  IF name # None /\ jobs[name] # None THEN <<[name |-> name, id |-> jobs[name].id]>>
  ELSE IF id # None /\ store[id] # None /\ (name = None \/ store[id] = name)
       THEN <<[name |-> store[id], id |-> id]>> ELSE <<>>

-----------------------------------------------------------------------------
(* Users and their sessions. *)
Login(s) ==
  /\ sess[s].pc = "idle" /\ sess[s].login = None
  /\ \E u \in IF AuthMode = "config" THEN users ELSE {Anonymous} :
       sess' = [sess EXCEPT ![s].login = u]
  /\ UNCHANGED <<users, jobs, pods, store, nextId>>

Logout(s) ==
  /\ sess[s].pc = "idle" /\ sess[s].login # None
  /\ sess' = [sess EXCEPT ![s].login = None]
  /\ UNCHANGED <<users, jobs, pods, store, nextId>>

RemoveUser(u) ==
  /\ u \in users /\ Cardinality(Users \ users) < MaxRemovals
  /\ users' = users \ {u}
  /\ UNCHANGED <<jobs, pods, store, sess, nextId>>

(* Mutant: the session is trusted without asking the ConfigMap. *)
AuthorizeSession(s) == IF AuthMode = "none" \/ sess[s].login # None THEN {sess[s].login} ELSE {}

(* Who a request is served as; without authentication everyone is logged in on the way. *)
Authorize(s) ==
  IF AuthMode = "none" THEN {Anonymous} ELSE {sess[s].login} \cap users

(* The middleware lets a request through to its handler. *)
CheckAuthMiddleware(s, next) ==
  /\ sess[s].pc = "idle"
  /\ \E login \in Authorize(s) : sess' = [sess EXCEPT ![s] = [next EXCEPT !.login = login]]

Refused(s) ==
  /\ sess[s].pc = "idle" /\ Authorize(s) = {} /\ sess[s].answer.what # "403"
  /\ sess' = [sess EXCEPT ![s].answer = Response("403")]
  /\ UNCHANGED <<users, jobs, pods, store, nextId>>

Answered(s, name, answer) == [sess[s] EXCEPT !.name = name, !.id = None, !.answer = answer]

-----------------------------------------------------------------------------
(* Handlers. *)
SubmitJob(s, n, form) ==
  /\ CheckAuthMiddleware(s, Answered(s, n, IF jobs[n] = None THEN Response("ok") ELSE Response("exists")))
  /\ jobs[n] = None => nextId <= MaxIds
  /\ jobs' = IF jobs[n] # None THEN jobs
             ELSE [jobs EXCEPT ![n] = [id |-> nextId, form |-> form, replicas |-> submitJob(form).replicas]]
  /\ nextId' = IF jobs[n] # None THEN nextId ELSE nextId + 1
  /\ UNCHANGED <<users, pods, store>>

(* The route of a stop has no parameters: the empty name is not found, which is no error. *)
StopJob(s, n) ==
  /\ CheckAuthMiddleware(s, Answered(s, n, Response("ok")))
  /\ sess[s].answer.what # "ok"
  /\ UNCHANGED <<users, jobs, pods, store, nextId>>

(* A deletion reads the job, then deletes what has that name. *)
DeleteJob(s, n) ==
  /\ CheckAuthMiddleware(s, IF jobs[n] = None THEN Answered(s, n, Response("deleted"))
                            ELSE [sess[s] EXCEPT !.pc = "delete", !.name = n, !.id = jobs[n].id, !.answer = Blank])
  /\ UNCHANGED <<users, jobs, pods, store, nextId>>

DeleteJobNow(s) ==
  /\ sess[s].pc = "delete"
  /\ jobs' = [jobs EXCEPT ![sess[s].name] = None]
  /\ sess' = [sess EXCEPT ![s].pc = "idle",
                          ![s].answer = Response(IF jobs[sess[s].name] = None THEN "not found" ELSE "deleted")]
  /\ UNCHANGED <<users, pods, store, nextId>>

ListJobsPage(s, page) ==
  /\ CheckAuthMiddleware(s, Answered(s, None, [Response("list") EXCEPT !.ids = ListJobs(None, page)]))
  /\ UNCHANGED <<users, jobs, pods, store, nextId>>

(* The detail of a named job: the list gives the id, then the job is fetched. *)
GetJobDetail(s, n) ==
  LET list == ListJobs(n, NoPage)
  IN  /\ CheckAuthMiddleware(s, IF list = <<>> THEN Answered(s, n, Response("not found"))
                                ELSE [sess[s] EXCEPT !.pc = "detail", !.name = n, !.id = list[1], !.answer = Blank])
      /\ UNCHANGED <<users, jobs, pods, store, nextId>>

(* The detail of a job id, for which the API server is asked for the empty name. *)
GetJobDetailById(s, i) ==
  /\ CheckAuthMiddleware(s, [sess[s] EXCEPT !.pc = "detail", !.name = None, !.id = i, !.answer = Blank])
  /\ UNCHANGED <<users, jobs, pods, store, nextId>>

(* GetDetailedJobFromBackend: first the job, *)
DetailJob(s) ==
  /\ sess[s].pc = "detail"
  /\ \E job \in {GetJob(sess[s].name, sess[s].id)} :
       sess' = [sess EXCEPT ![s].pc = IF job = <<>> THEN "idle" ELSE "pods",
                            ![s].answer = [Response(IF job = <<>> THEN "not found" ELSE "detail") EXCEPT !.job = job]]
  /\ UNCHANGED <<users, jobs, pods, store, nextId>>

(* then the pods that carry its name, which are counted by their status.  The API server    *)
(* always answers with a list, so that the pods of the database are never shown.            *)
ListPods(name) == {p \in pods : p.name = name}
DetailPods(s) ==
  /\ sess[s].pc = "pods"
  /\ \E shown \in {ListPods(sess[s].name)} :
       sess' = [sess EXCEPT ![s].pc = "idle",
                  ![s].answer.counts = [st \in {"Active", "Succeeded", "Failed"} |-> Cardinality({p \in shown : p.status = st})]]
  /\ UNCHANGED <<users, jobs, pods, store, nextId>>

(* What goes on in the cluster meanwhile. *)
PodStarts(n) ==
  /\ jobs[n] # None /\ \A p \in pods : p.id # jobs[n].id
  /\ pods' = pods \cup {[name |-> n, id |-> jobs[n].id, status |-> "Active"]}
  /\ UNCHANGED <<users, jobs, store, sess, nextId>>
PodEnds(p, status) ==
  /\ p \in pods /\ p.status = "Active"
  /\ pods' = (pods \ {p}) \cup {[p EXCEPT !.status = status]}
  /\ UNCHANGED <<users, jobs, store, sess, nextId>>
PodCollected(p) ==
  /\ p \in pods /\ \A n \in Names : jobs[n] # None => jobs[n].id # p.id
  /\ pods' = pods \ {p}
  /\ UNCHANGED <<users, jobs, store, sess, nextId>>
Persist(n) ==
  /\ jobs[n] # None /\ store[jobs[n].id] = None
  /\ store' = [store EXCEPT ![jobs[n].id] = n]
  /\ UNCHANGED <<users, jobs, pods, sess, nextId>>
CreateOutside(n, form) ==
  /\ jobs[n] = None /\ nextId <= MaxIds /\ form.kind = "TFJob"
  /\ jobs' = [jobs EXCEPT ![n] = [id |-> nextId, form |-> form, replicas |-> form.replicas]]
  /\ nextId' = nextId + 1
  /\ UNCHANGED <<users, pods, store, sess>>
DeleteOutside(n) ==
  /\ jobs[n] # None
  /\ jobs' = [jobs EXCEPT ![n] = None]
  /\ UNCHANGED <<users, pods, store, sess, nextId>>

Pages == {[num |-> p, size |-> z] : p \in 1..2, z \in 1..2}

Next ==
  \/ \E s \in Sessions :
       \/ Login(s) \/ Logout(s) \/ Refused(s)
       \/ \E n \in Names : (\E form \in Forms : SubmitJob(s, n, form)) \/ StopJob(s, n) \/ DeleteJob(s, n) \/ GetJobDetail(s, n)
       \/ \E i \in Ids : GetJobDetailById(s, i)
       \/ \E page \in Pages : ListJobsPage(s, page)
       \/ DeleteJobNow(s) \/ DetailJob(s) \/ DetailPods(s)
  \/ \E u \in Users : RemoveUser(u)
  \/ \E n \in Names : PodStarts(n) \/ Persist(n) \/ DeleteOutside(n) \/ \E form \in Forms : CreateOutside(n, form)
  \/ \E p \in pods : PodCollected(p) \/ \E status \in {"Succeeded", "Failed"} : PodEnds(p, status)

Spec == Init /\ [][Next]_vars

-----------------------------------------------------------------------------
(* The state is of these types; in particular a list never repeats a job. *)
TypeOK ==
  /\ users \subseteq Users
  /\ \A n \in Names : jobs[n] # None => jobs[n].id \in Ids /\ jobs[n].form \in Forms
  /\ \A p \in pods : p.name \in Names /\ p.id \in Ids /\ p.status \in {"Active", "Succeeded", "Failed"}
  /\ \A i \in Ids : store[i] \in Names \cup {None}
  /\ \A s \in Sessions : /\ sess[s].login \in Users \cup {Anonymous, None}
                         /\ sess[s].pc \in {"idle", "delete", "detail", "pods"}
                         /\ sess[s].answer.what \in {"", "ok", "exists", "403", "not found", "deleted", "list", "detail"}
                         /\ IsInjective(sess[s].answer.ids) /\ Len(sess[s].answer.ids) <= 2
  /\ nextId \in 1..(MaxIds + 1)

(* A step in which a handler runs for no user but a known one. *)
ActsForKnownUser ==
  \A s \in Sessions :
    AuthMode = "config" /\ sess[s].pc = "idle" /\ sess'[s] # sess[s] =>
      \/ sess[s].login \in users
      \/ sess'[s].pc = "idle" /\ (sess'[s].answer.what = "403" \/ sess'[s].answer = sess[s].answer)

(* The pages of a list of n jobs, one after the other. *)
Paged(Page(_), n, size) == FlattenSeq([p \in 1..((n + size - 1) \div size) |-> Page([num |-> p, size |-> size])])

PagesOfAnyList ==
  \A size \in 1..MaxList, n \in 0..MaxList :
    LET list      == [k \in 1..n |-> k]
        live(p)   == PageOfLive(list, p)
        stored(p) == PageOfStored(list, p)
    IN  Paged(live, n, size) = list /\ Paged(stored, n, size) = list

(* The pages of the lists that are reached. *)
PagesOfLists ==
  \A size \in 1..MaxIds :
    LET reached(p) == ListJobs(None, p)
        all        == ListJobs(None, NoPage)
    IN  Paged(reached, Len(all), size) = all

(* The detail page of a name shows a job of that name, although the list that it starts from *)
(* matches parts of names and the job may go or come back before it is fetched.              *)
DetailIsOfAskedJob ==
  \A s \in Sessions : sess[s].name # None =>
    \A k \in DOMAIN sess[s].answer.job : sess[s].answer.job[k].name = sess[s].name

(* The hooks of a submission neither add nor lose a replica, and a PyTorchJob always gets a *)
(* master.                                                                                   *)
SubmittedReplicasAreKept ==
  \A n \in Names : jobs[n] # None =>
    /\ Total(jobs[n].replicas) = Total(jobs[n].form.replicas)
    /\ jobs[n].form.kind = "PyTorchJob" => Replicas(jobs[n].replicas, "Master") >= 1

(* Once a deletion is answered, the job it had read is gone, whoever deleted it and whatever *)
(* took its name since.                                                                       *)
DeletedIsGone ==
  \A s \in Sessions : sess[s].answer.what = "deleted" /\ sess[s].id # None =>
    \A n \in Names : jobs[n] # None => jobs[n].id # sess[s].id
=============================================================================
