------------------------------ MODULE Sources ------------------------------
(***************************************************************************)
(* Data sources, code sources and workspaces of the console.  All sources  *)
(* of a kind are one JSON map in one ConfigMap, which requests read        *)
(* through the client's cache, change and write back as a whole.  A        *)
(* workspace is a namespace, a claim and a data source that bears its      *)
(* name.                                                                   *)
(*                                                                         *)
(* Abstractions: a source is the number of the request that wrote it and   *)
(* the time (the number of the request) of its creation; a workspace and   *)
(* its data source have the same name.                                     *)
(***************************************************************************)
EXTENDS Integers, FiniteSets

CONSTANTS
  Names,       \* names of sources
  Workspaces,  \* those which are names of workspaces
  Sessions,
  MaxRequests, \* bound: requests of all sessions
  None

SourcesAssumption == Workspaces \subseteq Names /\ MaxRequests \in Nat

Kinds == {"data", "code"}
Empty == [n \in Names |-> None]
NoTime == 0

VARIABLES
  cm,    \* [Kinds -> the ConfigMap]: version 0 before it is created
  cache, \* what the client's cache has of it
  ns,    \* [Workspaces -> phase of the namespace]
  pvc,   \* workspaces whose claim exists
  req,   \* [Sessions -> the request that is served]
  count  \* requests so far

vars == <<cm, cache, ns, pvc, req, count>>

Idle == [pc |-> "idle", kind |-> "data", op |-> "get", name |-> None, num |-> 0, ver |-> 0, map |-> Empty]

Init ==
  /\ cm = [k \in Kinds |-> [ver |-> 0, map |-> Empty]] /\ cache = cm
  /\ ns = [w \in Workspaces |-> "absent"] /\ pvc = {}
  /\ req = [s \in Sessions |-> Idle]
  /\ count = 0

CacheSync(k) ==
  /\ cache[k] # cm[k]
  /\ cache' = [cache EXCEPT ![k] = cm[k]]
  /\ UNCHANGED <<cm, ns, pvc, req, count>>

-----------------------------------------------------------------------------
(* What a request makes of the map that it has read: None if it refuses.  A put of a name    *)
(* that does not exist adds it, without a time of creation.                                   *)
Post(r, map) ==
  IF map[r.name] # None THEN None ELSE [map EXCEPT ![r.name] = [created |-> r.num, by |-> r.num]]
Put(r, map) ==
  [map EXCEPT ![r.name] = [created |-> IF map[r.name] = None THEN NoTime ELSE map[r.name].created, by |-> r.num]]
Delete(r, map) ==
  IF map[r.name] = None THEN None ELSE [map EXCEPT ![r.name] = None]

Result(r, map) ==
  CASE r.op = "post" -> Post(r, map) [] r.op = "put" -> Put(r, map) [] r.op = "delete" -> Delete(r, map)
    [] r.op = "get"  -> None

Begin(s, kind, op, name, pc) ==
  /\ req[s].pc = "idle" /\ count < MaxRequests
  /\ count' = count + 1
  /\ req' = [req EXCEPT ![s] = [Idle EXCEPT !.pc = pc, !.kind = kind, !.op = op, !.name = name, !.num = count + 1]]
  /\ UNCHANGED <<cm, cache, ns, pvc>>

DataRequest(s, op, name) == Begin(s, "data", op, name, "read")
CodeRequest(s, op, name) == Begin(s, "code", op, name, "read")

Ends(s) == req' = [req EXCEPT ![s] = Idle]

(* The request is done with the map, or has something to write. *)
Continue(s, ver, map) ==
  IF Result(req[s], map) = None THEN Ends(s)
  ELSE req' = [req EXCEPT ![s].pc = "write", ![s].ver = ver, ![s].map = Result(req[s], map)]

(* Get, or Create if the cache has no ConfigMap. *)
ReadOrCreate(s, k) ==
  \/ cache[k].ver # 0 /\ Continue(s, cache[k].ver, cache[k].map) /\ UNCHANGED cm
  \/ cache[k].ver = 0 /\ cm[k].ver = 0 /\ Continue(s, 1, Empty) /\ cm' = [cm EXCEPT ![k].ver = 1]

(* Mutant: the error of the creation is dropped. *)
getOrCreateDataSourceConfigMapAnyway(s) ==
  /\ req[s].pc = "read" /\ req[s].kind = "data"
  /\ \/ ReadOrCreate(s, "data")
     \/ cache["data"].ver = 0 /\ cm["data"].ver # 0 /\ Continue(s, 0, Empty) /\ UNCHANGED cm
  /\ UNCHANGED <<cache, ns, pvc, count>>

getOrCreateDataSourceConfigMap(s) ==
  /\ req[s].pc = "read" /\ req[s].kind = "data"
  /\ \/ ReadOrCreate(s, "data")
     \/ cache["data"].ver = 0 /\ cm["data"].ver # 0 /\ Ends(s) /\ UNCHANGED cm
  /\ UNCHANGED <<cache, ns, pvc, count>>

(* A request for code sources goes on with the object that could not be created. *)
getOrCreateCodeSourceConfigMap(s) ==
  /\ req[s].pc = "read" /\ req[s].kind = "code"
  /\ \/ ReadOrCreate(s, "code")
     \/ cache["code"].ver = 0 /\ cm["code"].ver # 0 /\ Continue(s, 0, Empty) /\ UNCHANGED cm
  /\ UNCHANGED <<cache, ns, pvc, count>>

(* The update fails if the ConfigMap has another version; without a version it overwrites.  *)
Write(s, k) ==
  cm' = IF req[s].ver \in {0, cm[k].ver} THEN [cm EXCEPT ![k] = [ver |-> cm[k].ver + 1, map |-> req[s].map]] ELSE cm

setDataSourceConfigMap(s) ==
  /\ req[s].pc = "write" /\ req[s].kind = "data" /\ Write(s, "data") /\ Ends(s)
  /\ UNCHANGED <<cache, ns, pvc, count>>

setCodeSourceConfigMap(s) ==
  /\ req[s].pc = "write" /\ req[s].kind = "code" /\ Write(s, "code") /\ Ends(s)
  /\ UNCHANGED <<cache, ns, pvc, count>>

-----------------------------------------------------------------------------
(* Workspaces.  Failures to create the namespace or the claim are only logged. *)
CreateWorkspace(s, w) == Begin(s, "data", "post", w, "namespace")

CreateNamespace(s) ==
  /\ req[s].pc = "namespace"
  /\ \/ ns' = [ns EXCEPT ![req[s].name] = IF @ = "absent" THEN "active" ELSE @]
     \/ ns[req[s].name] = "absent" /\ UNCHANGED ns
  /\ req' = [req EXCEPT ![s].pc = "claim"]
  /\ UNCHANGED <<cm, cache, pvc, count>>

(* The claim is looked up in the empty namespace, so that its creation is always tried. *)
CreateClaim(s) ==
  /\ req[s].pc = "claim"
  /\ pvc' = IF ns[req[s].name] = "active" THEN pvc \cup {req[s].name} ELSE pvc
  /\ req' = [req EXCEPT ![s].pc = "read"]
  /\ UNCHANGED <<cm, cache, ns, count>>

(* The namespace first; the data source only if that was accepted. *)
DeleteWorkspace(s, w) ==
  /\ req[s].pc = "idle" /\ count < MaxRequests
  /\ count' = count + 1
  /\ \/ /\ ns[w] # "absent"
        /\ ns' = [ns EXCEPT ![w] = "terminating"]
        /\ req' = [req EXCEPT ![s] = [Idle EXCEPT !.pc = "read", !.op = "delete", !.name = w, !.num = count + 1]]
     \/ UNCHANGED <<ns, req>>
  /\ UNCHANGED <<cm, cache, pvc>>

NamespaceGone(w) ==
  /\ ns[w] = "terminating"
  /\ ns' = [ns EXCEPT ![w] = "absent"] /\ pvc' = pvc \ {w}
  /\ UNCHANGED <<cm, cache, req, count>>

Next ==
  \/ \E s \in Sessions :
       \/ \E op \in {"get", "post", "put", "delete"}, n \in Names : DataRequest(s, op, n) \/ CodeRequest(s, op, n)
       \/ \E w \in Workspaces : CreateWorkspace(s, w) \/ DeleteWorkspace(s, w)
       \/ CreateNamespace(s) \/ CreateClaim(s)
       \/ getOrCreateDataSourceConfigMap(s) \/ getOrCreateCodeSourceConfigMap(s)
       \/ setDataSourceConfigMap(s) \/ setCodeSourceConfigMap(s)
  \/ \E k \in Kinds : CacheSync(k)
  \/ \E w \in Workspaces : NamespaceGone(w)

Spec == Init /\ [][Next]_vars

-----------------------------------------------------------------------------
(* A step that changes sources writes a request applied to the map as it is now.  (Not those  *)
(* for code sources that did not find the ConfigMap: code_source.go:184 drops the error of    *)
(* its creation.)                                                                             *)
WritesResult ==
  \A k \in Kinds : cm'[k].map # cm[k].map =>
    \E s \in Sessions :
      /\ req[s].pc = "write" /\ req'[s].pc = "idle" /\ req[s].kind = k
      /\ k = "data" \/ req[s].ver # 0 => cm'[k].map = Result(req[s], cm[k].map)
=============================================================================
