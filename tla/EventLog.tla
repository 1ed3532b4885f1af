------------------------------ MODULE EventLog ------------------------------
(***************************************************************************)
(* Persistence and queries of events (controllers/persist/event,           *)
(* pkg/storage/backends/events/aliyun_sls and the console's event API).    *)
(* The event controller appends each event of a managed object to a log    *)
(* store, again whenever the event is counted up; the console lists what   *)
(* the log store has for an object's name, page by page.                   *)
(*                                                                         *)
(* Abstractions: an event is [count, first, last], the time being a        *)
(* counter; events are about the objects in Objects, which share one name  *)
(* (an object recreated is another one).  A record of the log is the event *)
(* with its name and its object.                                           *)
(***************************************************************************)
EXTENDS Integers, Sequences, SequencesExt

CONSTANTS
  Events,      \* names of events
  ObjectOf,    \* the object that an event is about
  Pods,        \* those objects that are pods
  Foreign,     \* those that KubeDL does not manage
  Page,        \* slsMaxLineNum
  Attempts,    \* defaultSLSRetryTimes
  MaxTime,     \* bound: emissions of events
  MaxFaults,   \* bound: writes that the log store refuses
  None

VARIABLES
  events,      \* the events in the cluster, None when absent
  gone,        \* pods that are deleted
  queue,       \* keys to reconcile
  saving,      \* the write in progress, None or [rec, tries]
  log,         \* the log store
  now, faults

vars == <<events, gone, queue, saving, log, now, faults>>

Objects == {ObjectOf[e] : e \in Events}
NoSave == [rec |-> None, tries |-> 0]

Init ==
  /\ events = [e \in Events |-> None] /\ gone = {} /\ queue = {}
  /\ saving = NoSave /\ log = <<>> /\ now = 0 /\ faults = 0

-----------------------------------------------------------------------------
(* The event handler. *)

(* A pod that is gone counts as managed: its events would be missed otherwise. *)
isKubeDLManagedPod(obj) == obj \in gone \/ obj \notin Foreign
isKubeDLManagedObject(obj) == IF obj \in Pods THEN isKubeDLManagedPod(obj) ELSE obj \notin Foreign

Enqueue(e) == queue' = IF isKubeDLManagedObject(ObjectOf[e]) THEN queue \cup {e} ELSE queue

(* An event is emitted, first or again. *)
Emit(e) ==
  /\ now < MaxTime /\ now' = now + 1
  /\ events' = [events EXCEPT ![e] = IF @ = None THEN [count |-> 1, first |-> now, last |-> now]
                                     ELSE [@ EXCEPT !.count = @ + 1, !.last = now]]
  /\ Enqueue(e)
  /\ UNCHANGED <<gone, saving, log, faults>>

(* An event expires; its key is queued too. *)
Expire(e) ==
  /\ events[e] # None /\ events' = [events EXCEPT ![e] = None]
  /\ Enqueue(e)
  /\ UNCHANGED <<gone, saving, log, now, faults>>

PodDeleted(obj) ==
  /\ obj \in Pods \ gone /\ gone' = gone \cup {obj}
  /\ UNCHANGED <<events, queue, saving, log, now, faults>>

-----------------------------------------------------------------------------
(* The event controller: an event that is gone is skipped. *)
wrapSLSLog(e) ==
  [Name |-> e, ObjUID |-> ObjectOf[e], Count |-> events[e].count,
   FirstTimestamp |-> events[e].first, LastTimestamp |-> events[e].last]

Reconcile(e) ==
  /\ saving = NoSave /\ e \in queue /\ queue' = queue \ {e}
  /\ saving' = IF events[e] = None THEN NoSave ELSE [rec |-> wrapSLSLog(e), tries |-> 0]
  /\ UNCHANGED <<events, gone, log, now, faults>>

(* A write is tried Attempts times; then the error goes back to the queue, whose next        *)
(* reconcile reads the event anew.                                                            *)
SaveEvent ==
  /\ saving # NoSave
  /\ \/ log' = Append(log, saving.rec) /\ saving' = NoSave /\ UNCHANGED <<queue, faults>>
     \/ /\ faults < MaxFaults /\ faults' = faults + 1 /\ UNCHANGED log
        /\ IF saving.tries + 1 < Attempts
           THEN saving' = [saving EXCEPT !.tries = @ + 1] /\ UNCHANGED queue
           ELSE saving' = NoSave /\ queue' = queue \cup {saving.rec.Name}
  /\ UNCHANGED <<events, gone, now>>

Restart ==
  /\ faults < MaxFaults /\ faults' = faults + 1
  /\ saving' = NoSave
  /\ queue' = {e \in Events : events[e] # None /\ isKubeDLManagedObject(ObjectOf[e])}
  /\ UNCHANGED <<events, gone, log, now>>

-----------------------------------------------------------------------------
(* The queries of the console. *)

unwrapSLSLog(raw) ==
  [name |-> raw.Name, obj |-> raw.ObjUID,
   event |-> [count |-> raw.Count, first |-> raw.FirstTimestamp, last |-> raw.LastTimestamp]]

(* The records of a page in the order of their first timestamps, one for each object. *)
unwrapSLSLogs(page) ==
  LET sorted == SortSeq(page, LAMBDA a, b : a.FirstTimestamp < b.FirstTimestamp)
      Seen(s, r) == IF \E i \in DOMAIN s : s[i].obj = r.ObjUID THEN s ELSE Append(s, unwrapSLSLog(r))
  IN  FoldLeft(Seen, <<>>, sorted)

(* ListEvent of the log store: the buffer has a place for each record found, and each page is *)
(* copied to its offset; what a page's records share leaves places empty.                      *)
ListEvent(from) ==
  LET found == SelectSeq(log, LAMBDA r : r.LastTimestamp >= from)
      Copy(k) == LET off == (k \div Page) * Page
                     got == unwrapSLSLogs(SubSeq(found, off + 1, IF off + Page < Len(found) THEN off + Page ELSE Len(found)))
                 IN  IF k - off + 1 <= Len(got) THEN got[k - off + 1] ELSE None
  IN  [k \in 1..Len(found) |-> Copy(k - 1)]

(* ListEvent of the API server: the events that exist, of the object with the given uid. *)
ListEventOfApiServer(uid, from) ==
  {e \in Events : events[e] # None /\ ObjectOf[e] = uid /\ events[e].last >= from}

-----------------------------------------------------------------------------
Next ==
  \/ \E e \in Events : Emit(e) \/ Expire(e) \/ Reconcile(e)
  \/ \E obj \in Objects : PodDeleted(obj)
  \/ SaveEvent \/ Restart

Fairness == (\A e \in Events : WF_vars(Reconcile(e))) /\ WF_vars(SaveEvent)

Spec == Init /\ [][Next]_vars /\ Fairness

-----------------------------------------------------------------------------
(* Every event of a managed object that the API server lists is in the log store, as it stands. *)
AllSaved ==
  \A obj \in Objects \ Foreign : \A e \in ListEventOfApiServer(obj, 0) :
    \E i \in DOMAIN log : log[i] = wrapSLSLog(e)

(* A query shows every object of which the log store has a record in the asked time. *)
ListsEveryObject ==
  \A from \in 0..now : \E list \in {ListEvent(from)} :
     \A i \in DOMAIN log : log[i].LastTimestamp >= from =>
        \E k \in DOMAIN list : list[k] # None /\ list[k].obj = log[i].ObjUID
=============================================================================
