---------------------------- MODULE ClusterState ----------------------------
(***************************************************************************)
(* The cluster around the persistent-pod-state manager: the Kubernetes API *)
(* server, the Calico IP pool, the pods of ONE StatefulSet in one          *)
(* namespace, and the informer caches through which the manager reads.     *)
(* None of it is code of this repository; it is modelled from how the      *)
(* manager uses it.  The manager itself is in StatefulSetReconciler and    *)
(* PodMutatingWebhook; PersistentPodState composes the three.              *)
(***************************************************************************)
EXTENDS Naturals, FiniteSets

CONSTANTS
  Pods,           \* names of the pods that match the StatefulSet's selector
  Foreign,        \* those the admission webhook does not attribute to it
  IPs,            \* the Calico pool
  Nodes,          \* kubernetes.io/hostname values
  None,           \* "no such object" / "field not set"
  MaxOthers,      \* how many workloads outside it run at once (TLC bound)
  Budget,         \* how often each unwanted event may happen (TLC bound)
  RetrySteps,     \* tries of retry.DefaultBackoff
  FailurePolicy,  \* failurePolicy of the MutatingWebhookConfiguration
  CacheGetFails,  \* may the webhook's cached Get fail (cache not started)?
  Annotated       \* does the StatefulSet carry both annotations?

\* The events a bounded run may only spend a given number of times.
Events == {"recreate", "fault", "crash", "delete"}

\* One PodState of the record: PodIP and NodeName.
Place == [ip : IPs, node : Nodes]

\* PodStates of a record, a pod list, ...: a place for some of the pods.
States == [Pods -> Place \cup {None}]

NoStates == [p \in Pods |-> None]

\* The PersistentPodState object; `states' is NoStates while it is absent.
PPS == [exists : BOOLEAN, states : States]

Absent == [exists |-> FALSE, states |-> NoStates]

ASSUME ConstantsAssumption ==
  /\ IsFiniteSet(Pods)
  /\ Foreign \subseteq Pods
  /\ None \notin Place
  /\ None \notin IPs
  /\ MaxOthers \in Nat
  /\ Budget \in [Events -> Nat]
  /\ RetrySteps \in Nat \ {0}
  /\ FailurePolicy \in {"Fail", "Ignore"}
  /\ CacheGetFails \in BOOLEAN
  /\ Annotated \in BOOLEAN

VARIABLES
  pods,       \* pod -> [phase, place]: the place is a pin while pending
  others,     \* addresses held by workloads outside the StatefulSet
  resv,       \* pod -> reservedCIDRs of IPReservation "pod-<ns>-<pod>"
  pps,        \* the PersistentPodState named after the StatefulSet
  cpods,      \* cached pod list: place of each pod with an IP and a node
  cresv,      \* cached IPReservations
  resvStale,  \* pods whose cached IPReservation is older than the stored one
  cpps,       \* cached PersistentPodState
  ppsStale,   \* the cached one is older than the stored one
  queue,      \* keys waiting in the controller's workqueue
  worker,     \* the reconcile in progress
  up,         \* is the manager process running?
  budget      \* unwanted events still allowed

cluster == <<pods, others>>
stored  == <<resv, pps>>
caches  == <<cpods, cresv, cpps>>
stale   == <<resvStale, ppsStale>>
manager == <<queue, worker, up>>
vars    == <<cluster, stored, caches, stale, manager, budget>>

-----------------------------------------------------------------------------
Spend(event) ==
  /\ budget[event] > 0
  /\ budget' = [budget EXCEPT ![event] = @ - 1]

\* The pods a set of states says something about (the keys of the Go map).
Recorded(states) == {p \in Pods : states[p] # None}

\* len(PodStates)
Size(states) == Cardinality(Recorded(states))

Running(p) == pods[p].phase = "running"

\* What a list of the pods would return: pods without IP or node are None.
RunningPlaces == [p \in Pods |-> IF Running(p) THEN pods[p].place ELSE None]

IpsInUse == others \cup {pods[p].place.ip : p \in {q \in Pods : Running(q)}}

Reserved == {resv[p] : p \in Pods} \ {None}

\* Calico hands out an address by itself only if no IPReservation covers it.
Assignable == IPs \ (IpsInUse \cup Reserved)

-----------------------------------------------------------------------------
(***************************************************************************)
(* Pods and addresses.                                                     *)
(***************************************************************************)

\* Scheduler, kubelet and Calico bring pod p up.  A pinned pod gets exactly
\* its pin (the ipAddrs annotation overrides reservations, the affinity is
\* required) and waits while the address is in use; an unpinned one gets any
\* node and any assignable address.
StartPod(p) ==
  /\ pods[p].phase = "pending"
  /\ \E place \in Place :
       /\ IF pods[p].place = None
            THEN place.ip \in Assignable
            ELSE place = pods[p].place /\ place.ip \notin IpsInUse
       /\ pods' = [pods EXCEPT ![p] = [phase |-> "running", place |-> place]]
  /\ UNCHANGED <<others, stored, caches, stale, manager, budget>>

\* The pod is deleted (by a user, an eviction, a rolling update); the
\* StatefulSet controller will create it again under the same name.
DeletePod(p) ==
  /\ pods[p].phase # "absent"
  /\ Spend("recreate")
  /\ pods' = [pods EXCEPT ![p] = [phase |-> "absent", place |-> None]]
  /\ UNCHANGED <<others, stored, caches, stale, manager>>

\* A workload outside the StatefulSet starts, or stops, on address ip.
OtherTakes(ip) ==
  /\ ip \in Assignable
  /\ Cardinality(others) < MaxOthers
  /\ others' = others \cup {ip}
  /\ UNCHANGED <<pods, stored, caches, stale, manager, budget>>

OtherReleases(ip) ==
  /\ ip \in others
  /\ others' = others \ {ip}
  /\ UNCHANGED <<pods, stored, caches, stale, manager, budget>>

\* A user deletes the PersistentPodState.
DeletePps ==
  /\ pps.exists
  /\ Spend("delete")
  /\ pps' = Absent
  /\ ppsStale' = TRUE
  /\ UNCHANGED <<cluster, resv, caches, resvStale, manager>>

-----------------------------------------------------------------------------
(***************************************************************************)
(* The informers.  Each kind of object has its own watch, so the caches    *)
(* catch up independently of one another.                                  *)
(***************************************************************************)

SyncPods ==
  /\ up
  /\ cpods # RunningPlaces
  /\ cpods' = RunningPlaces
  /\ UNCHANGED <<cluster, stored, cresv, cpps, stale, manager, budget>>

SyncResv(p) ==
  /\ up
  /\ p \in resvStale
  /\ cresv' = [cresv EXCEPT ![p] = resv[p]]
  /\ resvStale' = resvStale \ {p}
  /\ UNCHANGED <<cluster, stored, cpods, cpps, ppsStale, manager, budget>>

=============================================================================
