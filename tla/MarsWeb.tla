------------------------------ MODULE MarsWeb ------------------------------
(***************************************************************************)
(* The web services of a MarsJob (controllers/mars/ingress.go).  After     *)
(* each sync of the job engine, the controller makes an ingress for every  *)
(* service of a web service replica that has none, and adds the addresses  *)
(* of the new ones to the status of the job.                               *)
(*                                                                         *)
(* Abstractions: the web service replicas are 1..Replicas, and a service   *)
(* is its [uid, ports], the names of its ports; an ingress is [owner,      *)
(* port].  Addresses are kept as a set: the code lists one again when the  *)
(* ingress is made again.                                                  *)
(***************************************************************************)
EXTENDS Integers, Sequences, SequencesExt

CONSTANTS
  Replicas,
  PortLists,   \* names of the ports that a service may have
  Main, None,
  MaxFaults    \* bound: services that are replaced, calls that fail

VARIABLES
  ports,                   \* the ports of the services
  svcs, svcCache,          \* None or the uid
  ingresses, ingressCache, \* None or [owner, port]
  addresses,               \* Status.WebServiceAddresses, the indices in it
  sync,                    \* [pc, todo, new, old]
  uid, faults

vars == <<ports, svcs, svcCache, ingresses, ingressCache, addresses, sync, uid, faults>>

Indices == 1..Replicas
Nothing == [i \in Indices |-> None]
Idle == [pc |-> "idle", todo |-> <<>>, new |-> {}, old |-> {}]

Init ==
  /\ ports \in PortLists /\ svcs = Nothing /\ svcCache = Nothing
  /\ ingresses = Nothing /\ ingressCache = Nothing /\ addresses = {}
  /\ sync = Idle /\ uid = 0 /\ faults = 0

-----------------------------------------------------------------------------
(* The job engine and users: a service is created, or deleted and created again. *)
CreateService(i) ==
  /\ svcs[i] = None /\ svcs' = [svcs EXCEPT ![i] = uid] /\ uid' = uid + 1
  /\ UNCHANGED <<ports, svcCache, ingresses, ingressCache, addresses, sync, faults>>

DeleteService(i) ==
  /\ faults < MaxFaults /\ faults' = faults + 1
  /\ svcs[i] # None /\ svcs' = [svcs EXCEPT ![i] = None]
  /\ UNCHANGED <<ports, svcCache, ingresses, ingressCache, addresses, sync, uid>>

Collect(i) ==
  /\ ingresses[i] # None /\ ingresses[i].owner # svcs[i]
  /\ ingresses' = [ingresses EXCEPT ![i] = None]
  /\ UNCHANGED <<ports, svcs, svcCache, ingressCache, addresses, sync, uid, faults>>

ServiceCacheSync ==
  /\ svcCache # svcs /\ svcCache' = svcs
  /\ UNCHANGED <<ports, svcs, ingresses, ingressCache, addresses, sync, uid, faults>>

IngressCacheSync ==
  /\ ingressCache # ingresses /\ ingressCache' = ingresses
  /\ UNCHANGED <<ports, svcs, svcCache, ingresses, addresses, sync, uid, faults>>

-----------------------------------------------------------------------------
(* The position of the port that the ingress forwards to, 0 for the default. *)
findDefaultPort ==
  LET later == {k \in 2..Len(ports) : ports[k] = Main}
  IN  IF ports = <<>> THEN 0 ELSE IF later = {} THEN 1 ELSE CHOOSE k \in later : \A l \in later : k <= l

(* The services listed that have no ingress of their name. *)
reconcileIngressForWebservice ==
  /\ sync.pc = "idle"
  /\ sync' = [pc |-> "create", new |-> {}, old |-> addresses,
              todo |-> SetToSortSeq({i \in Indices : svcCache[i] # None /\ ingressCache[i] = None}, <)]
  /\ UNCHANGED <<ports, svcs, svcCache, ingresses, ingressCache, addresses, uid, faults>>

(* One ingress is created for each; the first error ends the sync, and the addresses of those *)
(* created before it are lost.                                                                 *)
createNewIngressForWebservice ==
  /\ sync.pc = "create" /\ sync.todo # <<>>
  /\ LET i == Head(sync.todo)
     IN  IF ingresses[i] # None THEN sync' = Idle /\ UNCHANGED ingresses
         ELSE /\ ingresses' = [ingresses EXCEPT ![i] = [owner |-> svcCache[i], port |-> findDefaultPort]]
              /\ sync' = [sync EXCEPT !.todo = Tail(@), !.new = @ \cup {i}]
  /\ UNCHANGED <<ports, svcs, svcCache, ingressCache, addresses, uid, faults>>

PatchAddresses ==
  /\ sync.pc = "create" /\ sync.todo = <<>>
  /\ addresses' = sync.old \cup sync.new /\ sync' = Idle
  /\ UNCHANGED <<ports, svcs, svcCache, ingresses, ingressCache, uid, faults>>

CallFails ==
  /\ faults < MaxFaults /\ faults' = faults + 1
  /\ sync.pc # "idle" /\ sync' = Idle
  /\ UNCHANGED <<ports, svcs, svcCache, ingresses, ingressCache, addresses, uid>>

Sync == reconcileIngressForWebservice \/ createNewIngressForWebservice \/ PatchAddresses

Creates == \E i \in Indices : CreateService(i)
Collects == \E i \in Indices : Collect(i)

Next ==
  \/ Sync \/ CallFails \/ ServiceCacheSync \/ IngressCacheSync
  \/ \E i \in Indices : CreateService(i) \/ DeleteService(i) \/ Collect(i)

(* The worker, the informers, the engine that creates services and the garbage collector go on. *)
Fairness ==
  /\ WF_vars(Sync) /\ WF_vars(ServiceCacheSync) /\ WF_vars(IngressCacheSync)
  /\ WF_vars(Creates) /\ WF_vars(Collects)

Spec == Init /\ [][Next]_vars /\ Fairness

-----------------------------------------------------------------------------
AllExposed ==
  \A i \in Indices : /\ svcs[i] # None /\ ingresses[i] # None
                     /\ ingresses[i].owner = svcs[i]
                     /\ Main \in ToSet(ports) => ports[ingresses[i].port] = Main
=============================================================================
