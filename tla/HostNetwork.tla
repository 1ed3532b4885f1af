---------------------------- MODULE HostNetwork ----------------------------
(***************************************************************************)
(* A TFJob whose replicas use the network of their hosts                   *)
(* (pkg/job_controller/hostnetwork.go and its uses).  Each pod gets a port *)
(* at random when it is created, and TF_CONFIG tells it to listen there;   *)
(* its peers are told the port of the replica's service, which forwards to *)
(* the port of the pod and has to follow when the pod is replaced.         *)
(*                                                                         *)
(* Abstractions: the workers 1..conf.replicas are the one replica type;    *)
(* conf.ports are the names of the ports that the container lists, Main    *)
(* being the one that the job uses.  Of the defaults only those of         *)
(* replicas and ports are kept.                                            *)
(***************************************************************************)
EXTENDS Integers, Sequences, SequencesExt

CONSTANTS
  Confs,      \* jobs as submitted: [replicas, ports]
  HostPorts,  \* the ports of HostNetworkPortRange
  SpecPort,   \* the port in the job's spec, which is the port of the services
  Main, None,
  MaxFaults   \* bound: pods that fail, calls that fail

VARIABLES
  conf,
  pods, podCache,          \* None or [ports, config]
  services, serviceCache,  \* None or the target port
  sync,                    \* [todo, pods, services, ports]: what is left, what was read, the context
  faults

vars == <<conf, pods, podCache, services, serviceCache, sync, faults>>

Indices == 1..conf.replicas
Nothing == [i \in Indices |-> None]
Idle == [todo |-> <<>>, pods |-> Nothing, services |-> Nothing, ports |-> Nothing]

(* Defaults: one replica, and the port of the job is among the ports of its container. *)
setDefaults_TFJobReplicas(replicas) == IF replicas = None THEN 1 ELSE replicas
setDefaults_TFJobPort(ports) == IF Main \in ToSet(ports) THEN ports ELSE Append(ports, Main)
SetDefaults_TFJob(job) ==
  [replicas |-> setDefaults_TFJobReplicas(job.replicas), ports |-> setDefaults_TFJobPort(job.ports)]

Init ==
  /\ \E job \in Confs : conf = SetDefaults_TFJob(job)
  /\ pods = Nothing /\ podCache = Nothing
  /\ services = Nothing /\ serviceCache = Nothing /\ sync = Idle /\ faults = 0

-----------------------------------------------------------------------------
(* The host port in the container. *)

(* The port of the name is overridden, or appended if the container has none. *)
setupContainerHostNetworkPort(port) ==
  LET named == [k \in DOMAIN conf.ports |->
                 [name |-> conf.ports[k], port |-> IF conf.ports[k] = Main THEN port ELSE SpecPort]]
  IN  IF Main \in ToSet(conf.ports) THEN named ELSE Append(named, [name |-> Main, port |-> port])

(* The loop compares the name of the first port each time, not of the port at hand: if the    *)
(* first is the one asked for and there are more, the answer is the second.                   *)
getContainerHostNetworkPort(pod) ==
  IF Len(pod.ports) > 1 /\ pod.ports[1].name = Main THEN pod.ports[2].port ELSE pod.ports[1].port

-----------------------------------------------------------------------------
(* TF_CONFIG: each replica's endpoint, its own with the port it has to listen to. *)
isDistributed == conf.replicas # 1

genClusterSpec(i, ports) ==
  [j \in Indices |-> IF j = i /\ ports[i] # None THEN ports[i] ELSE SpecPort]
SetClusterSpec(i, ports) == IF isDistributed THEN genClusterSpec(i, ports) ELSE None

-----------------------------------------------------------------------------
(* A sync: the pods of all replicas, then the services.  It works on what the caches had when *)
(* it began, and ends at the first error.                                                      *)
BeginSync ==
  /\ sync.todo = <<>>
  /\ sync' = [todo |-> [k \in 1..(2 * conf.replicas) |->
                          IF k <= conf.replicas THEN [kind |-> "pod", i |-> k]
                          ELSE [kind |-> "service", i |-> k - conf.replicas]],
              pods |-> podCache, services |-> serviceCache, ports |-> Nothing]
  /\ UNCHANGED <<conf, pods, podCache, services, serviceCache, faults>>

At(kind, i) == sync.todo # <<>> /\ Head(sync.todo) = [kind |-> kind, i |-> i]
Proceed == [sync EXCEPT !.todo = Tail(@)]

(* A missing pod is created with a random port, which the context keeps for the service. *)
setupHostNetwork(i) ==
  /\ At("pod", i) /\ sync.pods[i] = None
  /\ IF pods[i] # None THEN sync' = Idle /\ UNCHANGED pods
     ELSE \E port \in HostPorts :
            LET ports == [sync.ports EXCEPT ![i] = port]
            IN  /\ sync' = [Proceed EXCEPT !.ports = ports]
                /\ pods' = [pods EXCEPT ![i] = [ports |-> setupContainerHostNetworkPort(port),
                                                config |-> SetClusterSpec(i, ports)]]
  /\ UNCHANGED <<conf, podCache, services, serviceCache, faults>>

storeHostNetworkPortToContext(i) ==
  /\ At("pod", i) /\ sync.pods[i] # None
  /\ sync' = [Proceed EXCEPT !.ports[i] = getContainerHostNetworkPort(sync.pods[i])]
  /\ UNCHANGED <<conf, pods, podCache, services, serviceCache, faults>>

CreateNewService(i) ==
  /\ At("service", i) /\ sync.services[i] = None
  /\ IF services[i] # None THEN sync' = Idle /\ UNCHANGED services
     ELSE /\ services' = [services EXCEPT ![i] = IF sync.ports[i] = None THEN SpecPort ELSE sync.ports[i]]
          /\ sync' = Proceed
  /\ UNCHANGED <<conf, pods, podCache, serviceCache, faults>>

(* Mutant: a service keeps the port of the pod it was created for. *)
UpdateServiceNever(i) ==
  /\ At("service", i) /\ sync.services[i] # None /\ sync' = Proceed
  /\ UNCHANGED <<conf, pods, podCache, services, serviceCache, faults>>

(* The target port follows the pod. *)
UpdateService(i) ==
  /\ At("service", i) /\ sync.services[i] # None /\ sync' = Proceed
  /\ services' = IF sync.ports[i] # None /\ sync.services[i] # sync.ports[i]
                 THEN [services EXCEPT ![i] = sync.ports[i]] ELSE services
  /\ UNCHANGED <<conf, pods, podCache, serviceCache, faults>>

Sync ==
  \/ BeginSync
  \/ \E i \in Indices :
       setupHostNetwork(i) \/ storeHostNetworkPortToContext(i) \/ CreateNewService(i) \/ UpdateService(i)

-----------------------------------------------------------------------------
(* A pod fails and is deleted; a call fails; the caches catch up. *)
PodFails(i) ==
  /\ faults < MaxFaults /\ faults' = faults + 1
  /\ pods[i] # None /\ pods' = [pods EXCEPT ![i] = None]
  /\ UNCHANGED <<conf, podCache, services, serviceCache, sync>>

CallFails ==
  /\ faults < MaxFaults /\ faults' = faults + 1
  /\ sync.todo # <<>> /\ sync' = Idle
  /\ UNCHANGED <<conf, pods, podCache, services, serviceCache>>

PodCacheSync ==
  /\ podCache # pods /\ podCache' = pods
  /\ UNCHANGED <<conf, pods, services, serviceCache, sync, faults>>

ServiceCacheSync ==
  /\ serviceCache # services /\ serviceCache' = services
  /\ UNCHANGED <<conf, pods, podCache, services, sync, faults>>

CachesSync == PodCacheSync \/ ServiceCacheSync

Next == Sync \/ (\E i \in Indices : PodFails(i)) \/ CallFails \/ PodCacheSync \/ ServiceCacheSync

(* The worker and the informers go on. *)
Fairness == WF_vars(Sync) /\ WF_vars(CachesSync)

Spec == Init /\ [][Next]_vars /\ Fairness

-----------------------------------------------------------------------------
(* What a replica dials for a peer is the service's port, and the service forwards it to the  *)
(* port that the peer was told to listen to.                                                  *)
Reaches(j, i) ==
  /\ pods[j] # None /\ pods[i] # None
  /\ pods[j].config[i] = SpecPort /\ services[i] = pods[i].config[i]

AllReached == isDistributed => \A i, j \in Indices : i # j => Reaches(j, i)
=============================================================================
