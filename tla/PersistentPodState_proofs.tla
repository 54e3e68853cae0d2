----------------------- MODULE PersistentPodState_proofs -----------------------
(***************************************************************************)
(* Theorems about PersistentPodState, for every set of pods, addresses and *)
(* nodes and for every bound.                                              *)
(***************************************************************************)
EXTENDS PersistentPodState, FiniteSetTheorems, TLAPS

\* NoStates and the idle worker have their types.
LEMMA BasicTypes ==
  /\ NoStates \in States
  /\ Absent \in PPS
  /\ [exists |-> TRUE, states |-> NoStates] \in PPS
  /\ Idle \in Workers /\ Idle.pc = "idle"
BY ConstantsAssumption
   DEF NoStates, States, Absent, PPS, Idle, Workers

\* Spending keeps the budget a function into the naturals.
LEMMA SpendType ==
  ASSUME budget \in [Events -> Nat], NEW e \in Events, Spend(e)
  PROVE  budget' \in [Events -> Nat]
BY DEF Spend

\* What Accept and Skip do to the locals, field by field.
LEMMA AcceptFields ==
  ASSUME worker \in Workers, NEW p \in Pods, NEW b \in SUBSET Pods,
         worker.todo[p] \in Place, Accept(p, b)
  PROVE  /\ worker' \in Workers
         /\ worker'.todo = [worker.todo EXCEPT ![p] = None]
         /\ worker'.states = [worker.states EXCEPT ![p] = worker.todo[p]]
         /\ worker'.blind = worker.blind \cup b
         /\ worker'.pc = worker.pc /\ worker'.key = worker.key
<1>1. worker' = [worker EXCEPT !.todo = [@ EXCEPT ![p] = None],
                               !.states = [@ EXCEPT ![p] = worker.todo[p]],
                               !.blind = @ \cup b]
  BY DEF Accept, Workers
<1>2. /\ [worker.todo EXCEPT ![p] = None] \in States
      /\ [worker.states EXCEPT ![p] = worker.todo[p]] \in States
      /\ worker.blind \cup b \in SUBSET Pods
  BY DEF Workers, States
<1>3. QED
  BY <1>1, <1>2 DEF Workers

\* What Skip, the loop's `continue', does to the locals, field by field.
LEMMA SkipFields ==
  ASSUME worker \in Workers, NEW p \in Pods, Skip(p)
  PROVE  /\ worker' \in Workers
         /\ worker'.todo = [worker.todo EXCEPT ![p] = None]
         /\ worker'.states = worker.states
         /\ worker'.blind = worker.blind
         /\ worker'.pc = worker.pc /\ worker'.key = worker.key
<1>1. worker' = [worker EXCEPT !.todo = [@ EXCEPT ![p] = None]]
  BY DEF Skip, Workers
<1>2. [worker.todo EXCEPT ![p] = None] \in States
  BY DEF Workers, States
<1>3. QED
  BY <1>1, <1>2 DEF Workers

\* A pod list is a set of states.
LEMMA RunningPlacesType ==
  ASSUME TypeOK
  PROVE  RunningPlaces \in States
BY DEF TypeOK, RunningPlaces, States, Running

\* Every step of the reconciler's worker keeps the types.
LEMMA WorkerTypes ==
  ASSUME TypeOK, WorkerStep
  PROVE  TypeOK'
<1> USE BasicTypes
<1>1. ASSUME NEW key \in Keys, Reconcile(key)
      PROVE  TypeOK'
  <2>1. worker' \in Workers /\ (worker'.pc # "idle" => worker'.key \in Keys)
    BY <1>1 DEF Reconcile, TypeOK, Workers, Idle, Keys
  <2>2. QED
    BY <1>1, <2>1 DEF Reconcile, TypeOK, cluster, stored, caches, stale, Running
<1>2. ASSUME NEW p \in Pods, createOrUpdateIPReservation(p)
      PROVE  TypeOK'
  <2>1. worker.todo[p] \in Place
    BY <1>2 DEF createOrUpdateIPReservation, TypeOK, Workers, States
  <2>2. worker.todo[p].ip \in IPs
    BY <2>1 DEF Place
  <2>3. /\ resv' \in [Pods -> IPs \cup {None}]
        /\ resvStale' \subseteq Pods
        /\ budget' \in [Events -> Nat]
    BY <1>2, <2>2, SpendType
       DEF createOrUpdateIPReservation, KeepReservation, PutReservation,
           StoreReservation, Fault, TypeOK, Events
  <2>4. /\ worker' \in Workers
        /\ worker'.pc = worker.pc
        /\ worker'.key = worker.key
    <3>1. CASE KeepReservation(p)
      BY <2>1, <3>1, AcceptFields DEF KeepReservation, TypeOK
    <3>2. CASE PutReservation(p)
      BY <2>1, <3>2, AcceptFields, SkipFields DEF PutReservation, TypeOK
    <3>3. QED
      BY <1>2, <3>1, <3>2 DEF createOrUpdateIPReservation
  <2>5. QED
    BY <1>2, <2>3, <2>4
       DEF createOrUpdateIPReservation, TypeOK, cluster, caches, Running
<1>3. ASSUME NothingToRecord
      PROVE  TypeOK'
  BY <1>3 DEF NothingToRecord, Return, TypeOK, cluster, stored, caches, stale,
              Running, Idle
<1>4. ASSUME CreateRecord
      PROVE  TypeOK'
  <2>1. worker' = Idle /\ queue' \subseteq Keys
    BY <1>4 DEF CreateRecord, LoopDone, Return, ReturnError, TypeOK
  <2>2. pps' \in PPS /\ ppsStale' \in BOOLEAN
    BY <1>4 DEF CreateRecord, StoreEmptyRecord, TypeOK
  <2>3. budget' \in [Events -> Nat]
    BY <1>4, SpendType DEF CreateRecord, Fault, TypeOK, Events
  <2>4. QED
    BY <1>4, <2>1, <2>2, <2>3
       DEF CreateRecord, TypeOK, cluster, caches, Running, Idle
<1>5. ASSUME CompareRecord
      PROVE  TypeOK'
  <2>1. /\ worker' \in Workers
        /\ worker'.pc # "idle" => worker'.key \in Keys
        /\ UNCHANGED queue
    <3>1. CASE Return
      <4>1. worker' = Idle /\ UNCHANGED queue
        BY <3>1 DEF Return
      <4>2. QED
        BY <4>1 DEF Workers, Idle
    <3>2. CASE ~Return
      <4>1. /\ worker' = [worker EXCEPT !.pc = "update", !.late = ppsStale]
            /\ UNCHANGED queue
        BY <1>5, <3>2 DEF CompareRecord
      <4>2. worker \in Workers /\ ppsStale \in BOOLEAN
        BY DEF TypeOK
      <4>3. worker.key \in Keys
        BY <1>5 DEF CompareRecord, LoopDone, TypeOK
      <4>4. worker' \in Workers /\ worker'.key = worker.key
        BY <4>1, <4>2 DEF Workers
      <4>5. QED
        BY <4>1, <4>3, <4>4
    <3>3. QED
      BY <3>1, <3>2
  <2>2. QED
    BY <1>5, <2>1 DEF CompareRecord, TypeOK, cluster, stored, caches, stale, Running
<1>6. ASSUME UpdateRecord
      PROVE  TypeOK'
  <2>1. worker.key \in Keys
    BY <1>6 DEF UpdateRecord, TypeOK
  <2>2. /\ worker' \in Workers
        /\ worker'.pc # "idle" => worker'.key \in Keys
        /\ queue' \subseteq Keys
    <3>1. CASE Return \/ ReturnError
      <4>1. worker' = Idle /\ queue' \subseteq queue \cup {worker.key}
        BY <3>1 DEF Return, ReturnError
      <4>2. QED
        BY <2>1, <4>1 DEF TypeOK
    <3>2. CASE Conflict
      <4>1. CASE worker.tries + 1 < RetrySteps
        <5>1. worker.tries + 1 \in 0 .. RetrySteps
          BY <4>1, ConstantsAssumption DEF TypeOK, Workers
        <5>2. QED
          BY <2>1, <3>2, <4>1, <5>1 DEF Conflict, TypeOK, Workers
      <4>2. QED
        BY <3>1, <3>2, <4>1 DEF Conflict
    <3>3. QED
      BY <1>6, <3>1, <3>2 DEF UpdateRecord
  <2>3. pps' \in PPS /\ ppsStale' \in BOOLEAN
    BY <1>6 DEF UpdateRecord, StoreRecord, NewStates, Conflict, TypeOK, Workers, PPS
  <2>4. budget' \in [Events -> Nat]
    BY <1>6, SpendType DEF UpdateRecord, Conflict, Fault, TypeOK, Events
  <2>5. QED
    BY <1>6, <2>2, <2>3, <2>4 DEF UpdateRecord, TypeOK, cluster, caches, Running
<1>7. QED
  BY <1>1, <1>2, <1>3, <1>4, <1>5, <1>6 DEF WorkerStep

\* So does every step of the cluster.
LEMMA ClusterTypes ==
  ASSUME TypeOK, ClusterStep
  PROVE  TypeOK'
<1>1. ASSUME NEW p \in Pods, StartPod(p)
      PROVE  TypeOK'
  BY <1>1 DEF StartPod, TypeOK, Running, stored, caches, stale, manager
<1>2. ASSUME NEW p \in Pods, DeletePod(p)
      PROVE  TypeOK'
  <2>1. budget' \in [Events -> Nat]
    BY <1>2, SpendType DEF DeletePod, TypeOK, Events
  <2>2. QED
    BY <1>2, <2>1 DEF DeletePod, TypeOK, Running, stored, caches, stale, manager
<1>3. ASSUME NEW p \in Pods, SyncResv(p)
      PROVE  TypeOK'
  BY <1>3 DEF SyncResv, TypeOK, Running, cluster, stored, manager
<1>4. ASSUME NEW ip \in IPs, OtherTakes(ip) \/ OtherReleases(ip)
      PROVE  TypeOK'
  BY <1>4 DEF OtherTakes, OtherReleases, TypeOK, Running, stored, caches, stale, manager
<1>5. ASSUME DeletePps
      PROVE  TypeOK'
  <2>1. budget' \in [Events -> Nat]
    BY <1>5, SpendType DEF DeletePps, TypeOK, Events
  <2>2. QED
    BY <1>5, <2>1, BasicTypes DEF DeletePps, TypeOK, Running, cluster, caches, manager
<1>6. ASSUME SyncPods
      PROVE  TypeOK'
  BY <1>6, RunningPlacesType DEF SyncPods, TypeOK, Running, cluster, stored, stale, manager
<1>7. QED
  BY <1>1, <1>2, <1>3, <1>4, <1>5, <1>6 DEF ClusterStep

\* The initial states satisfy the types.
LEMMA InitTypes == Init => TypeOK
<1> SUFFICES ASSUME Init PROVE TypeOK
  OBVIOUS
<1>1. /\ pods \in [Pods -> [phase : {"absent", "pending", "running"},
                            place : Place \cup {None}]]
      /\ \A p \in Pods : ~Running(p)
  BY DEF Init, Running
<1>2. queue \subseteq Keys
  BY DEF Init, InitialQueue, Keys
<1>3. resv \in [Pods -> IPs \cup {None}]
  BY DEF Init
<1>4. worker \in Workers /\ worker.pc = "idle"
  BY BasicTypes DEF Init, Idle
<1>5. pps \in PPS
  BY BasicTypes DEF Init
<1>6. QED
  BY <1>1, <1>2, <1>3, <1>4, <1>5, BasicTypes, ConstantsAssumption DEF Init, TypeOK

\* Every step keeps the types.
LEMMA NextTypes ==
  ASSUME TypeOK, [Next]_vars
  PROVE  TypeOK'
<1>1. CASE ClusterStep
  BY <1>1, ClusterTypes
<1>2. CASE WebhookStep
  <2>1. ASSUME NEW p \in Pods, handlePod(p)
        PROVE  TypeOK'
    <3>1. budget' \in [Events -> Nat]
      BY <2>1, SpendType DEF handlePod, TypeOK, Events
    <3>2. QED
      BY <2>1, <3>1 DEF handlePod, TypeOK, Running, stored, caches, stale, manager
  <2>2. ASSUME NEW p \in Pods, AdmissionBypassed(p)
        PROVE  TypeOK'
    <3>1. budget' \in [Events -> Nat]
      BY <2>2, SpendType DEF AdmissionBypassed, TypeOK, Events
    <3>2. QED
      BY <2>2, <3>1 DEF AdmissionBypassed, TypeOK, Running, stored, caches, stale, manager
  <2>3. QED
    BY <1>2, <2>1, <2>2 DEF WebhookStep
<1>3. CASE StatefulSetEvent
  BY <1>3 DEF StatefulSetEvent, TypeOK, Keys, Running, cluster, stored, caches, stale
<1>4. CASE SyncPps
  BY <1>4 DEF SyncPps, TypeOK, Keys, Running, cluster, stored
<1>5. CASE WorkerStep
  BY <1>5, WorkerTypes
<1>6. CASE Crash
  <2>1. budget' \in [Events -> Nat]
    BY <1>6, SpendType DEF Crash, TypeOK, Events
  <2>2. QED
    BY <1>6, <2>1, BasicTypes DEF Crash, TypeOK, Running, Idle, cluster, stored, caches, stale
<1>7. CASE Restart
  BY <1>7, RunningPlacesType
     DEF Restart, TypeOK, InitialQueue, Keys, Running, cluster, stored
<1>8. CASE UNCHANGED vars
  BY <1>8 DEF vars, TypeOK, Running, cluster, stored, caches, stale, manager
<1>9. QED
  BY <1>1, <1>2, <1>3, <1>4, <1>5, <1>6, <1>7, <1>8 DEF Next

\* Type correctness: the record, the caches, the workqueue and the locals of the
\* reconcile in progress keep their types in every behaviour.
THEOREM TypeCorrect == Spec => []TypeOK
BY InitTypes, NextTypes, PTL DEF Spec

-----------------------------------------------------------------------------
(***************************************************************************)
(* What a step leaves alone: only the worker and crashes touch the         *)
(* reconcile in progress, only the worker and DeletePps the record.        *)
(***************************************************************************)
LEMMA Frame ==
  ASSUME [Next]_vars
  PROVE  \/ WorkerStep
         \/ DeletePps
         \/ Crash
         \/ UNCHANGED <<worker, stored>>
<1>1. CASE ClusterStep
  BY <1>1 DEF ClusterStep, StartPod, DeletePod, SyncResv, OtherTakes, OtherReleases,
              SyncPods, stored, manager
<1>2. CASE WebhookStep
  BY <1>2 DEF WebhookStep, handlePod, AdmissionBypassed, stored, manager
<1>3. CASE StatefulSetEvent \/ SyncPps \/ Restart \/ UNCHANGED vars
  BY <1>3 DEF StatefulSetEvent, SyncPps, Restart, vars, stored, manager
<1>4. QED
  BY <1>1, <1>2, <1>3 DEF Next

-----------------------------------------------------------------------------
(***************************************************************************)
(* The record never gives one address to two pods.  The inductive          *)
(* invariant follows the addresses on their way into the record: pods that *)
(* run at the same time, the cached list of them, the part of that list    *)
(* the worker holds, the record.                                           *)
(***************************************************************************)

\* Neither the pods still to do nor the states already built share an address.
HeldDistinct ==
  \A p, q \in Pods : p # q =>
    \A x \in {worker.todo[p], worker.states[p]} \ {None},
       y \in {worker.todo[q], worker.states[q]} \ {None} : x.ip # y.ip

DistinctInv ==
  /\ DistinctIPs(RunningPlaces)
  /\ DistinctIPs(cpods)
  /\ HeldDistinct
  /\ DistinctIPs(pps.states)

\* The empty record gives no address twice.
LEMMA NoStatesDistinct == DistinctIPs(NoStates)
BY DEF DistinctIPs, Recorded, NoStates

\* An idle worker holds no states that could share an address.
LEMMA IdleHeld == worker = Idle => HeldDistinct
BY DEF HeldDistinct, Idle, NoStates

\* A step that leaves the pods alone leaves the pod list alone.
LEMMA RunningPlacesSame ==
  ASSUME UNCHANGED pods
  PROVE  RunningPlaces' = RunningPlaces
BY DEF RunningPlaces, Running

\* DistinctInv holds initially.
LEMMA InitDistinct == Init => DistinctInv
<1> SUFFICES ASSUME Init PROVE DistinctInv
  OBVIOUS
<1>1. RunningPlaces = NoStates
  BY DEF Init, RunningPlaces, Running, NoStates
<1>2. pps.states = NoStates
  BY DEF Init, Absent
<1>3. QED
  BY <1>1, <1>2, NoStatesDistinct, IdleHeld DEF Init, DistinctInv

\* No two running pods share an address, whatever the cluster or the webhook
\* does: an unpinned pod gets a free address and a pinned one waits for its own.
LEMMA PodsDistinct ==
  ASSUME TypeOK, DistinctIPs(RunningPlaces), [Next]_vars
  PROVE  DistinctIPs(RunningPlaces)'
<1>1. ASSUME NEW p \in Pods, StartPod(p)
      PROVE  DistinctIPs(RunningPlaces)'
  <2>1. PICK place \in Place :
          /\ place.ip \notin IpsInUse
          /\ pods' = [pods EXCEPT ![p] = [phase |-> "running", place |-> place]]
    BY <1>1 DEF StartPod, Assignable
  <2>2. \A q \in Pods \ {p} : RunningPlaces'[q] = RunningPlaces[q]
    BY <2>1 DEF TypeOK, RunningPlaces, Running
  <2>3. RunningPlaces'[p] = place
    BY <2>1 DEF TypeOK, RunningPlaces, Running
  <2>4. \A q \in Recorded(RunningPlaces) : RunningPlaces[q].ip \in IpsInUse
    BY DEF Recorded, RunningPlaces, IpsInUse
  <2>5. SUFFICES ASSUME NEW q \in Pods, NEW r \in Pods, q # r,
                        RunningPlaces'[q] # None, RunningPlaces'[r] # None
                 PROVE  RunningPlaces'[q].ip # RunningPlaces'[r].ip
    BY DEF DistinctIPs, Recorded
  <2>6. CASE q # p /\ r # p
    BY <2>2, <2>5, <2>6 DEF DistinctIPs, Recorded
  <2>7. CASE q = p \/ r = p
    BY <2>1, <2>2, <2>3, <2>4, <2>5, <2>7 DEF Recorded
  <2>8. QED
    BY <2>6, <2>7
<1>2. ASSUME NEW p \in Pods, pods' = [pods EXCEPT ![p] = pods'[p]],
             pods'[p].phase # "running"
      PROVE  DistinctIPs(RunningPlaces)'
  <2>1. \A q \in Pods : RunningPlaces'[q] \in {None, RunningPlaces[q]}
    BY <1>2 DEF TypeOK, RunningPlaces, Running
  <2>2. QED
    BY <2>1 DEF DistinctIPs, Recorded
<1>3. CASE UNCHANGED pods
  BY <1>3, RunningPlacesSame DEF DistinctIPs, Recorded
<1>4. ASSUME NEW p \in Pods, DeletePod(p) \/ handlePod(p) \/ AdmissionBypassed(p)
      PROVE  DistinctIPs(RunningPlaces)'
  <2>1. pods' = [pods EXCEPT ![p] = pods'[p]] /\ pods'[p].phase # "running"
    BY <1>4 DEF DeletePod, handlePod, AdmissionBypassed, TypeOK
  <2>2. QED
    BY <1>2, <2>1
<1>5. QED
  <2>1. CASE ClusterStep
    BY <1>1, <1>3, <1>4, <2>1
       DEF ClusterStep, SyncResv, OtherTakes, OtherReleases, DeletePps, SyncPods, cluster
  <2>2. CASE WebhookStep
    BY <1>4, <2>2 DEF WebhookStep
  <2>3. CASE StatefulSetEvent \/ SyncPps \/ Crash \/ Restart \/ UNCHANGED vars
    BY <1>3, <2>3 DEF StatefulSetEvent, SyncPps, Crash, Restart, vars, cluster
  <2>4. CASE WorkerStep
    BY <1>3, <2>4
       DEF WorkerStep, Reconcile, createOrUpdateIPReservation, NothingToRecord,
           CreateRecord, CompareRecord, UpdateRecord, cluster
  <2>5. QED
    BY <2>1, <2>2, <2>3, <2>4 DEF Next

\* A cached pod list, being a copy of one moment, gives no address twice.
LEMMA CachedDistinct ==
  ASSUME DistinctIPs(RunningPlaces), DistinctIPs(cpods), [Next]_vars
  PROVE  DistinctIPs(cpods)'
<1>1. CASE UNCHANGED cpods
  BY <1>1 DEF DistinctIPs, Recorded
<1>2. CASE cpods' = RunningPlaces
  BY <1>2 DEF DistinctIPs, Recorded
<1>3. CASE ClusterStep
  BY <1>1, <1>2, <1>3
     DEF ClusterStep, StartPod, DeletePod, SyncResv, OtherTakes, OtherReleases,
         DeletePps, SyncPods, caches
<1>4. CASE WebhookStep
  BY <1>1, <1>4 DEF WebhookStep, handlePod, AdmissionBypassed, caches
<1>5. CASE StatefulSetEvent \/ SyncPps \/ Crash \/ Restart \/ UNCHANGED vars
  BY <1>1, <1>2, <1>5 DEF StatefulSetEvent, SyncPps, Crash, Restart, vars, caches
<1>6. CASE WorkerStep
  BY <1>1, <1>6
     DEF WorkerStep, Reconcile, createOrUpdateIPReservation, NothingToRecord,
         CreateRecord, CompareRecord, UpdateRecord, caches
<1>7. QED
  BY <1>3, <1>4, <1>5, <1>6 DEF Next

\* What the worker holds, and the record it writes, are parts of one pod list.
LEMMA HeldAndRecordDistinct ==
  ASSUME TypeOK, DistinctInv, [Next]_vars
  PROVE  HeldDistinct' /\ DistinctIPs(pps.states)'
<1>1. CASE UNCHANGED <<worker, stored>>
  BY <1>1 DEF DistinctInv, HeldDistinct, DistinctIPs, Recorded, stored
<1>2. CASE DeletePps
  BY <1>2, NoStatesDistinct
     DEF DeletePps, Absent, DistinctInv, HeldDistinct, DistinctIPs, Recorded, manager,
         NoStates
<1>3. CASE Crash
  BY <1>3 DEF Crash, Idle, NoStates, DistinctInv, HeldDistinct, DistinctIPs, Recorded,
              stored
<1>4. ASSUME NEW key \in Keys, Reconcile(key)
      PROVE  HeldDistinct' /\ DistinctIPs(pps.states)'
  <2>1. /\ worker'.todo \in {NoStates, cpods}
        /\ worker'.states = NoStates
        /\ UNCHANGED pps
    BY <1>4 DEF Reconcile, Idle, stored
  <2>2. QED
    BY <2>1 DEF DistinctInv, HeldDistinct, DistinctIPs, Recorded, NoStates
<1>5. ASSUME NEW p \in Pods, createOrUpdateIPReservation(p)
      PROVE  HeldDistinct' /\ DistinctIPs(pps.states)'
  <2>1. worker \in Workers /\ worker.todo[p] \in Place
    BY <1>5 DEF createOrUpdateIPReservation, TypeOK, Workers, States
  <2>2. (\E b \in SUBSET Pods : Accept(p, b)) \/ Skip(p)
    BY <1>5 DEF createOrUpdateIPReservation, KeepReservation, PutReservation, TypeOK
  <2>3. /\ worker'.todo = [worker.todo EXCEPT ![p] = None]
        /\ \/ worker'.states = [worker.states EXCEPT ![p] = worker.todo[p]]
           \/ worker'.states = worker.states
    BY <2>1, <2>2, AcceptFields, SkipFields
  <2>4. \A q \in Pods :
           /\ worker'.todo[q] \in {None, worker.todo[q]}
           /\ worker'.states[q] \in {worker.states[q], worker.todo[q]}
    BY <2>1, <2>3 DEF Workers, States
  <2>5. HeldDistinct'
    BY <2>4 DEF DistinctInv, HeldDistinct
  <2>6. QED
    BY <1>5, <2>5 DEF createOrUpdateIPReservation, DistinctInv, DistinctIPs, Recorded
<1>6. CASE NothingToRecord
  BY <1>6 DEF NothingToRecord, Return, Idle, NoStates, DistinctInv, HeldDistinct,
              DistinctIPs, Recorded, stored
<1>7. CASE CreateRecord
  <2>1. worker' = Idle
    BY <1>7 DEF CreateRecord, Return, ReturnError
  <2>2. pps'.states \in {NoStates, pps.states}
    BY <1>7 DEF CreateRecord, StoreEmptyRecord
  <2>3. QED
    BY <2>1, <2>2 DEF Idle, NoStates, DistinctInv, HeldDistinct, DistinctIPs, Recorded
<1>8. CASE CompareRecord
  <2>1. \/ worker' = Idle
        \/ worker'.todo = worker.todo /\ worker'.states = worker.states
    BY <1>8 DEF CompareRecord, Return, TypeOK, Workers
  <2>2. pps' = pps
    BY <1>8 DEF CompareRecord, stored
  <2>3. QED
    BY <2>1, <2>2 DEF Idle, NoStates, DistinctInv, HeldDistinct, DistinctIPs, Recorded
<1>9. CASE UpdateRecord
  <2>1. \/ worker' = Idle
        \/ worker'.todo = worker.todo /\ worker'.states = worker.states
    BY <1>9 DEF UpdateRecord, Return, ReturnError, Conflict, TypeOK, Workers
  <2>2. pps'.states \in {worker.states, pps.states}
    BY <1>9 DEF UpdateRecord, Conflict, StoreRecord, NewStates, TypeOK, PPS
  <2>3. DistinctIPs(worker.states)
    BY DEF DistinctInv, HeldDistinct, DistinctIPs, Recorded
  <2>4. QED
    BY <2>1, <2>2, <2>3
       DEF Idle, NoStates, DistinctInv, HeldDistinct, DistinctIPs, Recorded
<1>10. QED
  BY <1>1, <1>2, <1>3, <1>4, <1>5, <1>6, <1>7, <1>8, <1>9, Frame DEF WorkerStep

\* Safety of the record: no two pods are ever recorded with the same address, so
\* the webhook never pins two pods to one.
THEOREM RecordSafe == Spec => []RecordIPsDistinct
<1>1. Init => TypeOK /\ DistinctInv
  BY InitTypes, InitDistinct
<1>2. TypeOK /\ DistinctInv /\ [Next]_vars => (TypeOK /\ DistinctInv)'
  BY NextTypes, PodsDistinct, CachedDistinct, HeldAndRecordDistinct DEF DistinctInv
<1>3. DistinctInv => RecordIPsDistinct
  BY DEF DistinctInv, RecordIPsDistinct
<1>4. QED
  BY <1>1, <1>2, <1>3, PTL DEF Spec

-----------------------------------------------------------------------------
(***************************************************************************)
(* The length guard.  A cached record that is not stale is the stored one, *)
(* and a reconcile that passed the guard on a fresh copy still passes it   *)
(* when it comes to write, however many retries later.                     *)
(***************************************************************************)
FreshPps == ~ppsStale => cpps = pps

GuardInv ==
  /\ FreshPps
  /\ worker.pc = "update" /\ ~worker.late /\ pps.exists
       => Size(worker.states) >= Size(pps.states)

\* len(PodStates) is a natural number.
LEMMA SizeType ==
  ASSUME NEW s
  PROVE  Size(s) \in Nat /\ Size(s) <= Cardinality(Pods)
<1>1. Recorded(s) \subseteq Pods /\ IsFiniteSet(Pods)
  BY ConstantsAssumption DEF Recorded
<1>2. QED
  BY <1>1, FS_Subset, FS_CardinalityType DEF Size

\* The cached record is the stored one while it is not marked stale.
LEMMA FreshPpsStep ==
  ASSUME FreshPps, [Next]_vars
  PROVE  FreshPps'
<1>1. CASE ClusterStep
  BY <1>1 DEF ClusterStep, StartPod, DeletePod, SyncResv, OtherTakes, OtherReleases,
              DeletePps, SyncPods, FreshPps, stored, caches, stale
<1>2. CASE WebhookStep
  BY <1>2 DEF WebhookStep, handlePod, AdmissionBypassed, FreshPps, stored, caches, stale
<1>3. CASE StatefulSetEvent \/ SyncPps \/ Crash \/ Restart \/ UNCHANGED vars
  BY <1>3 DEF StatefulSetEvent, SyncPps, Crash, Restart, vars, FreshPps, stored, caches, stale
<1>4. CASE WorkerStep
  BY <1>4
     DEF WorkerStep, Reconcile, createOrUpdateIPReservation, NothingToRecord,
         CreateRecord, StoreEmptyRecord, CompareRecord, UpdateRecord, Conflict,
         StoreRecord, FreshPps, stored, caches, stale
<1>5. QED
  BY <1>1, <1>2, <1>3, <1>4 DEF Next

\* GuardInv holds initially.
LEMMA InitGuard == Init => GuardInv
BY DEF Init, GuardInv, FreshPps, Idle

\* GuardInv is kept by every step.
LEMMA NextGuard ==
  ASSUME TypeOK, GuardInv, [Next]_vars
  PROVE  GuardInv'
<1>0. FreshPps'
  BY FreshPpsStep DEF GuardInv
<1>1. CASE UNCHANGED <<worker, stored>>
  BY <1>0, <1>1 DEF GuardInv, stored, Size, Recorded
<1>2. CASE DeletePps \/ Crash
  BY <1>0, <1>2 DEF GuardInv, DeletePps, Absent, Crash, Idle
<1>3. CASE worker'.pc # "update"
  BY <1>0, <1>3 DEF GuardInv
<1>4. CASE CompareRecord
  <2>1. CASE WorthWriting
    <3>1. worker'.states = worker.states /\ worker'.late = ppsStale /\ pps' = pps
      BY <1>4, <2>1 DEF CompareRecord, TypeOK, Workers, stored
    <3>2. ~ppsStale => cpps = pps
      BY DEF GuardInv, FreshPps
    <3>3. QED
      BY <1>0, <2>1, <3>1, <3>2 DEF GuardInv, WorthWriting, Size, Recorded
  <2>2. QED
    BY <1>3, <1>4, <2>1 DEF CompareRecord, Return, Idle
<1>5. CASE UpdateRecord
  <2>1. CASE Conflict
    <3>1. worker'.pc = "update" => /\ worker'.states = worker.states
                                   /\ worker'.late = worker.late
                                   /\ worker.pc = "update"
      BY <2>1 DEF Conflict, ReturnError, Idle, TypeOK, Workers
    <3>2. pps' = pps
      BY <2>1 DEF Conflict
    <3>3. QED
      BY <1>0, <3>1, <3>2 DEF GuardInv, Size, Recorded
  <2>2. QED
    BY <1>3, <1>5, <2>1 DEF UpdateRecord, Return, ReturnError, Idle
<1>6. CASE WorkerStep
  <2>1. ASSUME NEW key \in Keys, Reconcile(key)
        PROVE  worker'.pc # "update"
    BY <2>1 DEF Reconcile, Idle
  <2>2. ASSUME NEW p \in Pods, createOrUpdateIPReservation(p)
        PROVE  worker'.pc # "update"
    <3>1. worker \in Workers /\ worker.todo[p] \in Place
      BY <2>2 DEF createOrUpdateIPReservation, TypeOK, Workers, States
    <3>2. (\E b \in SUBSET Pods : Accept(p, b)) \/ Skip(p)
      BY <2>2 DEF createOrUpdateIPReservation, KeepReservation, PutReservation, TypeOK
    <3>3. QED
      BY <2>2, <3>1, <3>2, AcceptFields, SkipFields DEF createOrUpdateIPReservation
  <2>3. CASE NothingToRecord \/ CreateRecord
    BY <1>3, <2>3 DEF NothingToRecord, CreateRecord, Return, ReturnError, Idle
  <2>4. QED
    BY <1>3, <1>4, <1>5, <1>6, <2>1, <2>2, <2>3 DEF WorkerStep
<1>7. QED
  BY <1>1, <1>2, <1>6, Frame

\* The stored record loses pods only in a reconcile that judged the length guard
\* on a stale copy of the record.
THEOREM GuardSafe == Spec => GuardHolds
<1>1. Init => TypeOK /\ GuardInv
  BY InitTypes, InitGuard
<1>2. TypeOK /\ GuardInv /\ [Next]_vars => (TypeOK /\ GuardInv)'
  BY NextTypes, NextGuard
<1>3. TypeOK /\ GuardInv /\ [Next]_vars
        => [pps.exists /\ pps'.exists /\ Size(pps'.states) < Size(pps.states)
              => worker.late]_vars
  <2> SUFFICES ASSUME TypeOK, GuardInv, [Next]_vars, pps.exists, pps'.exists,
                      Size(pps'.states) < Size(pps.states)
               PROVE  worker.late
    OBVIOUS
  <2>1. pps'.states # pps.states
    BY SizeType
  <2>2. WorkerStep
    <3>1. ~DeletePps
      BY DEF DeletePps, Absent
    <3>2. ~Crash /\ ~UNCHANGED <<worker, stored>>
      BY <2>1 DEF Crash, stored
    <3>3. QED
      BY <3>1, <3>2, Frame
  <2>3. UpdateRecord \/ CreateRecord
    BY <2>1, <2>2
       DEF WorkerStep, Reconcile, createOrUpdateIPReservation, NothingToRecord,
           CompareRecord, stored
  <2>4. ~CreateRecord
    BY <2>1 DEF CreateRecord, StoreEmptyRecord
  <2>5. pps'.states = worker.states /\ worker.pc = "update"
    BY <2>1, <2>3, <2>4 DEF UpdateRecord, Conflict, StoreRecord, NewStates, TypeOK, PPS
  <2>6. QED
    BY <2>5, SizeType DEF GuardInv
<1>4. QED
  BY <1>1, <1>2, <1>3, PTL DEF Spec, GuardHolds

-----------------------------------------------------------------------------
(***************************************************************************)
(* An address is reserved before it is recorded.                           *)
(***************************************************************************)
FreshResv == \A p \in Pods \ resvStale : cresv[p] = resv[p]

\* A pod is either still to do or part of the new record, and in the record
\* only with the address its IPReservation holds.
ReserveInv ==
  /\ FreshResv
  /\ \A p \in Pods :
       worker.states[p] # None =>
         /\ worker.todo[p] = None
         /\ p \notin worker.blind => resv[p] = worker.states[p].ip

\* A cached IPReservation is the stored one while it is not marked stale.
LEMMA FreshResvStep ==
  ASSUME TypeOK, FreshResv, [Next]_vars
  PROVE  FreshResv'
<1>1. CASE UNCHANGED <<resv, cresv, resvStale>>
  BY <1>1 DEF FreshResv
<1>2. CASE ClusterStep
  <2>1. ASSUME NEW p \in Pods, SyncResv(p)
        PROVE  FreshResv'
    BY <2>1 DEF SyncResv, FreshResv, TypeOK, stored
  <2>2. QED
    BY <1>1, <1>2, <2>1
       DEF ClusterStep, StartPod, DeletePod, OtherTakes, OtherReleases, DeletePps,
           SyncPods, stored, caches, stale
<1>3. CASE WebhookStep
  BY <1>1, <1>3 DEF WebhookStep, handlePod, AdmissionBypassed, stored, caches, stale
<1>4. CASE StatefulSetEvent \/ SyncPps \/ Crash \/ UNCHANGED vars
  BY <1>1, <1>4 DEF StatefulSetEvent, SyncPps, Crash, vars, stored, caches, stale
<1>5. CASE Restart
  BY <1>5 DEF Restart, FreshResv, stored
<1>6. CASE WorkerStep
  <2>1. ASSUME NEW p \in Pods, createOrUpdateIPReservation(p)
        PROVE  FreshResv'
    <3>1. UNCHANGED cresv
      BY <2>1 DEF createOrUpdateIPReservation, caches
    <3>2. UNCHANGED <<resv, resvStale>> \/ StoreReservation(p)
      BY <2>1 DEF createOrUpdateIPReservation, KeepReservation, PutReservation
    <3>3. QED
      BY <3>1, <3>2 DEF StoreReservation, FreshResv, TypeOK
  <2>2. QED
    BY <1>1, <1>6, <2>1
       DEF WorkerStep, Reconcile, NothingToRecord, CreateRecord, CompareRecord,
           UpdateRecord, stored, caches, stale
<1>7. QED
  BY <1>2, <1>3, <1>4, <1>5, <1>6 DEF Next

\* ReserveInv holds initially.
LEMMA InitReserve == Init => ReserveInv
BY DEF Init, ReserveInv, FreshResv, Idle, NoStates

\* ReserveInv is kept by every step.
LEMMA NextReserve ==
  ASSUME TypeOK, ReserveInv, [Next]_vars
  PROVE  ReserveInv'
<1>0. FreshResv'
  BY FreshResvStep DEF ReserveInv
<1>1. CASE worker'.states = NoStates
  BY <1>0, <1>1 DEF ReserveInv, NoStates
<1>2. CASE /\ worker'.states = worker.states /\ worker'.todo = worker.todo
           /\ worker'.blind = worker.blind /\ resv' = resv
  BY <1>0, <1>2 DEF ReserveInv
<1>3. CASE DeletePps \/ Crash \/ UNCHANGED <<worker, stored>>
  BY <1>1, <1>2, <1>3 DEF DeletePps, Crash, Idle, stored, manager
<1>4. CASE WorkerStep
  <2>1. ASSUME NEW p \in Pods, createOrUpdateIPReservation(p)
        PROVE  ReserveInv'
    <3>1. worker \in Workers /\ worker.todo[p] \in Place /\ worker.todo[p] # None
      BY <2>1 DEF createOrUpdateIPReservation, TypeOK, Workers, States
    <3>2. worker.states[p] = None
      BY <3>1 DEF ReserveInv
    <3>3. \A q \in Pods \ {p} : resv'[q] = resv[q]
      BY <2>1 DEF createOrUpdateIPReservation, KeepReservation, PutReservation,
                  StoreReservation, TypeOK
    <3>4. CASE Skip(p)
      <4>1. /\ worker'.todo = [worker.todo EXCEPT ![p] = None]
            /\ worker'.states = worker.states
            /\ worker'.blind = worker.blind
        BY <3>1, <3>4, SkipFields
      <4>2. QED
        BY <1>0, <3>1, <3>2, <3>3, <4>1 DEF ReserveInv, Workers, States
    <3>5. ASSUME NEW b \in SUBSET {p}, Accept(p, b),
                 p \in b \/ resv'[p] = worker.todo[p].ip
          PROVE  ReserveInv'
      <4>1. /\ worker'.todo = [worker.todo EXCEPT ![p] = None]
            /\ worker'.states = [worker.states EXCEPT ![p] = worker.todo[p]]
            /\ worker'.blind = worker.blind \cup b
        BY <3>1, <3>5, AcceptFields
      <4>2. QED
        BY <1>0, <3>1, <3>3, <3>5, <4>1 DEF ReserveInv, Workers, States
    <3>6. CASE KeepReservation(p)
      <4>1. /\ cresv[p] = worker.todo[p].ip
            /\ Accept(p, resvStale \cap {p})
            /\ resv' = resv
        BY <3>6 DEF KeepReservation
      <4>2. p \in resvStale \/ resv[p] = cresv[p]
        BY DEF ReserveInv, FreshResv
      <4>3. QED
        BY <3>5, <4>1, <4>2
    <3>7. CASE PutReservation(p)
      <4>1. \/ Skip(p)
            \/ Accept(p, {}) /\ resv' = [resv EXCEPT ![p] = worker.todo[p].ip]
        BY <3>7 DEF PutReservation, StoreReservation
      <4>2. QED
        BY <3>4, <3>5, <4>1 DEF TypeOK
    <3>8. QED
      BY <2>1, <3>6, <3>7 DEF createOrUpdateIPReservation
  <2>2. CASE \/ \E key \in Keys : Reconcile(key)
             \/ NothingToRecord
             \/ CreateRecord
    <3>1. worker'.states = NoStates
      <4>1. ASSUME NEW key \in Keys, Reconcile(key)
            PROVE  worker'.states = NoStates
        BY <4>1 DEF Reconcile, Idle
      <4>2. CASE NothingToRecord \/ CreateRecord
        BY <4>2 DEF NothingToRecord, CreateRecord, Return, ReturnError, Idle
      <4>3. QED
        BY <2>2, <4>1, <4>2
    <3>2. QED
      BY <1>1, <3>1
  <2>3. CASE CompareRecord \/ UpdateRecord
    <3>1. resv' = resv
      BY <2>3 DEF CompareRecord, UpdateRecord, stored
    <3>2. \/ worker' = Idle
          \/ /\ worker'.states = worker.states
             /\ worker'.todo = worker.todo
             /\ worker'.blind = worker.blind
      BY <2>3 DEF CompareRecord, UpdateRecord, Conflict, Return, ReturnError, TypeOK, Workers
    <3>3. worker' = Idle => worker'.states = NoStates
      BY DEF Idle
    <3>4. QED
      BY <1>1, <1>2, <3>1, <3>2, <3>3
  <2>4. QED
    BY <1>4, <2>1, <2>2, <2>3 DEF WorkerStep
<1>5. QED
  BY <1>3, <1>4, Frame

\* Whatever fails or crashes between the two writes, a place enters the record
\* only after its address was reserved for the pod, or was taken for reserved
\* on a stale copy of the IPReservation.
THEOREM ReservedSafe == Spec => ReserveFirst
<1>1. Init => TypeOK /\ ReserveInv
  BY InitTypes, InitReserve
<1>2. TypeOK /\ ReserveInv /\ [Next]_vars => (TypeOK /\ ReserveInv)'
  BY NextTypes, NextReserve
<1>3. TypeOK /\ ReserveInv /\ [Next]_vars
        => [\A p \in Pods :
              pps'.states[p] \notin {None, pps.states[p]}
                => resv[p] = pps'.states[p].ip \/ p \in worker.blind]_vars
  <2> SUFFICES ASSUME TypeOK, ReserveInv, [Next]_vars, NEW p \in Pods,
                      pps'.states[p] \notin {None, pps.states[p]}
               PROVE  resv[p] = pps'.states[p].ip \/ p \in worker.blind
    OBVIOUS
  <2>1. WorkerStep
    <3>1. ~DeletePps
      BY DEF DeletePps, Absent, NoStates
    <3>2. ~Crash /\ ~UNCHANGED <<worker, stored>>
      BY DEF Crash, stored
    <3>3. QED
      BY <3>1, <3>2, Frame
  <2>2. ~CreateRecord
    BY DEF CreateRecord, StoreEmptyRecord, NoStates
  <2>3. UpdateRecord
    BY <2>1, <2>2
       DEF WorkerStep, Reconcile, createOrUpdateIPReservation, NothingToRecord,
           CompareRecord, stored
  <2>4. pps'.states = worker.states
    BY <2>3 DEF UpdateRecord, Conflict, StoreRecord, NewStates, TypeOK, PPS
  <2>5. QED
    BY <2>4 DEF ReserveInv
<1>4. QED
  BY <1>1, <1>2, <1>3, PTL DEF Spec, ReserveFirst

-----------------------------------------------------------------------------
(***************************************************************************)
(* A pod keeps its place.  Settled is inductive for every step that leaves *)
(* the record in existence, provided pods cannot slip past the webhook     *)
(* (failurePolicy Fail) and pods the webhook does not know are never       *)
(* pinned.                                                                 *)
(***************************************************************************)
ForeignUnpinned ==
  \A p \in Foreign : pods[p].phase = "pending" => pods[p].place = None

\* Initially no pod, foreign ones included, is pinned.
LEMMA InitForeign == Init => ForeignUnpinned
BY ConstantsAssumption DEF Init, ForeignUnpinned

\* The webhook never pins a foreign pod.
LEMMA NextForeign ==
  ASSUME TypeOK, ForeignUnpinned, [Next]_vars
  PROVE  ForeignUnpinned'
<1>1. CASE UNCHANGED pods
  BY <1>1 DEF ForeignUnpinned
<1>2. ASSUME NEW p \in Pods,
             \/ StartPod(p) \/ DeletePod(p)
             \/ handlePod(p) \/ AdmissionBypassed(p)
      PROVE  ForeignUnpinned'
  BY <1>2, ConstantsAssumption
     DEF StartPod, DeletePod, handlePod, AdmissionBypassed, PinFor,
         LeadsToRecord, ForeignUnpinned, TypeOK
<1>3. CASE ClusterStep
  BY <1>1, <1>2, <1>3
     DEF ClusterStep, SyncResv, OtherTakes, OtherReleases, DeletePps, SyncPods, cluster
<1>4. CASE WebhookStep
  BY <1>2, <1>4 DEF WebhookStep
<1>5. CASE StatefulSetEvent \/ SyncPps \/ Crash \/ Restart \/ UNCHANGED vars
  BY <1>1, <1>5 DEF StatefulSetEvent, SyncPps, Crash, Restart, vars, cluster
<1>6. CASE WorkerStep
  BY <1>1, <1>6
     DEF WorkerStep, Reconcile, createOrUpdateIPReservation, NothingToRecord,
         CreateRecord, CompareRecord, UpdateRecord, cluster
<1>7. QED
  BY <1>3, <1>4, <1>5, <1>6 DEF Next

\* A record with as many entries as there are pods has one for each of them.
LEMMA LongIsFull ==
  ASSUME NEW s, NEW t, Full(t), Size(s) >= Size(t)
  PROVE  Full(s)
<1>1. Recorded(s) \subseteq Pods /\ IsFiniteSet(Pods)
  BY ConstantsAssumption DEF Recorded
<1>2. Cardinality(Recorded(s)) \in Nat /\ Cardinality(Pods) \in Nat
  BY <1>1, FS_Subset, FS_CardinalityType
<1>3. Cardinality(Recorded(s)) >= Cardinality(Pods)
  BY DEF Full, Size
<1>4. QED
  BY <1>1, <1>2, <1>3, FS_Subset DEF Full

\* The recorded place of an owned pod is a place.
LEMMA RecordedPlace ==
  ASSUME TypeOK, Full(pps.states), NEW p \in Pods
  PROVE  pps.states[p] \in Place /\ pps.states[p] # None /\ pps.states[p].ip \in IPs
<1>1. pps.states[p] \in Place /\ pps.states[p] # None
  BY DEF Full, Recorded, TypeOK, PPS, States
<1>2. QED
  BY <1>1 DEF Place

\* A step that changes nothing but the queue, the process and the budget.
LEMMA SettledSame ==
  ASSUME Settled, UNCHANGED <<pods, others, resv, pps, caches, worker>>
  PROVE  Settled'
BY DEF Settled, SettledPod, Full, Recorded, Running, caches

\* Pods that start or go, other workloads and the informers keep a settled
\* cluster settled.
LEMMA SettledCluster ==
  ASSUME TypeOK, ForeignUnpinned, Settled, ClusterStep, pps'.exists
  PROVE  Settled' /\ UNCHANGED pps
<1> USE DEF Owned
<1>0. /\ \A p \in Owned : /\ pps.states[p] \in Place
                           /\ pps.states[p] # None
                           /\ resv[p] = pps.states[p].ip
                           /\ pps.states[p].ip \in Reserved
      /\ Owned \subseteq Pods /\ Foreign \subseteq Pods
  <2>1. \A p \in Owned : pps.states[p] \in Place /\ pps.states[p].ip \in IPs
                                              /\ pps.states[p] # None
    BY RecordedPlace DEF Settled
  <2>2. \A p \in Owned : resv[p] = pps.states[p].ip
    BY DEF Settled, SettledPod
  <2>3. QED
    BY <2>1, <2>2, ConstantsAssumption DEF Reserved
<1>1. ASSUME NEW p \in Pods, StartPod(p)
      PROVE  Settled' /\ UNCHANGED pps
  <2>1. PICK place \in Place :
          /\ IF pods[p].place = None
               THEN place.ip \in Assignable
               ELSE place = pods[p].place /\ place.ip \notin IpsInUse
          /\ pods' = [pods EXCEPT ![p] = [phase |-> "running", place |-> place]]
    BY <1>1 DEF StartPod
  <2>2. p \in Owned => place = pps.states[p]
    BY <1>0, <1>1, <2>1 DEF StartPod, Settled, SettledPod
  <2>3. p \in Foreign => \A q \in Owned : place.ip # pps.states[q].ip
    BY <1>0, <1>1, <2>1 DEF StartPod, ForeignUnpinned, Assignable
  <2>4. QED
    BY <1>0, <1>1, <2>1, <2>2, <2>3
       DEF StartPod, Settled, SettledPod, Full, Recorded, Running, TypeOK,
           stored, caches, manager
<1>2. ASSUME NEW p \in Pods, DeletePod(p)
      PROVE  Settled' /\ UNCHANGED pps
  BY <1>0, <1>2
     DEF DeletePod, Settled, SettledPod, Full, Recorded, Running, TypeOK,
         stored, caches, manager
<1>3. ASSUME NEW p \in Pods, SyncResv(p)
      PROVE  Settled' /\ UNCHANGED pps
  BY <1>0, <1>3
     DEF SyncResv, Settled, SettledPod, Full, Recorded, Running, TypeOK,
         cluster, stored, manager
<1>4. ASSUME NEW ip \in IPs, OtherTakes(ip) \/ OtherReleases(ip)
      PROVE  Settled' /\ UNCHANGED pps
  <2>1. \A p \in Owned : pps.states[p].ip \notin others'
    BY <1>0, <1>4 DEF OtherTakes, OtherReleases, Assignable, Settled, SettledPod
  <2>2. UNCHANGED <<pods, stored, caches, manager>>
    BY <1>4 DEF OtherTakes, OtherReleases
  <2>3. QED
    BY <2>1, <2>2 DEF Settled, SettledPod, Full, Recorded, Running, stored, caches, manager
<1>5. ~DeletePps
  BY DEF DeletePps, Absent
<1>6. CASE SyncPods
  <2>1. \A p \in Owned : cpods'[p] \in {None, pps.states[p]}
    BY <1>0, <1>6 DEF SyncPods, RunningPlaces, Running, Settled, SettledPod
  <2>2. UNCHANGED <<cluster, stored, cresv, cpps, manager>>
    BY <1>6 DEF SyncPods
  <2>3. QED
    BY <2>1, <2>2 DEF Settled, SettledPod, Full, Recorded, Running, cluster, stored, manager
<1>7. QED
  BY <1>1, <1>2, <1>3, <1>4, <1>5, <1>6 DEF ClusterStep

\* Under failurePolicy Fail, admission keeps a settled cluster settled.
LEMMA SettledWebhook ==
  ASSUME TypeOK, FailurePolicy = "Fail", ~CacheGetFails, Settled, WebhookStep
  PROVE  Settled' /\ UNCHANGED pps
<1>1. PICK p \in Pods : handlePod(p)
  BY DEF WebhookStep, AdmissionBypassed
<1>2. p \in Owned => PinFor(p) = pps.states[p]
  BY DEF PinFor, LeadsToRecord, Owned, Settled, SettledPod
<1>3. QED
  BY <1>1, <1>2, ConstantsAssumption
     DEF handlePod, Settled, SettledPod, Full, Recorded, Running, Owned, TypeOK,
         stored, caches, manager

\* The worker's own part of Settled.
LEMMA SettledWorker ==
  ASSUME Settled, UNCHANGED <<cluster, caches, pps>>,
         \A p \in Owned : /\ resv'[p] = resv[p]
                          /\ worker'.todo[p] \in {None, pps.states[p]}
                          /\ worker'.states[p] \in {None, pps.states[p]},
         worker'.pc = "update" => Full(worker'.states)
  PROVE  Settled'
BY DEF Settled, SettledPod, Full, Recorded, Running, cluster, caches

\* The locals of an idle worker.
LEMMA IdleFields ==
  /\ Idle.pc = "idle"
  /\ \A p \in Pods : Idle.todo[p] = None /\ Idle.states[p] = None
BY DEF Idle, NoStates

\* The reconciler keeps a settled cluster settled: what it writes is the record.
LEMMA SettledReconciler ==
  ASSUME TypeOK, Settled, WorkerStep
  PROVE  /\ Settled'
         /\ \A p \in Owned : pps'.states[p] = pps.states[p]
<1>0. /\ Owned \subseteq Pods
      /\ \A p \in Owned : /\ worker.todo[p] \in {None, pps.states[p]}
                          /\ worker.states[p] \in {None, pps.states[p]}
                          /\ cpods[p] \in {None, pps.states[p]}
                          /\ cresv[p] = pps.states[p].ip
  BY DEF Owned, Settled, SettledPod
<1>1. ASSUME NEW key \in Keys, Reconcile(key)
      PROVE  Settled' /\ UNCHANGED pps
  <2>1. /\ worker'.pc # "update"
        /\ worker'.todo \in {NoStates, cpods}
        /\ worker'.states = NoStates
        /\ UNCHANGED <<cluster, caches, pps, resv>>
    BY <1>1 DEF Reconcile, Idle, stored
  <2>2. QED
    BY <1>0, <2>1, SettledWorker DEF NoStates
<1>2. ASSUME NEW p \in Pods, createOrUpdateIPReservation(p)
      PROVE  Settled' /\ UNCHANGED pps
  <2>1. worker \in Workers /\ worker.todo[p] \in Place /\ worker.todo[p] # None
    BY <1>2 DEF createOrUpdateIPReservation, TypeOK, Workers, States
  <2>2. (\E b \in SUBSET Pods : Accept(p, b)) \/ Skip(p)
    BY <1>2 DEF createOrUpdateIPReservation, KeepReservation, PutReservation, TypeOK
  <2>3. /\ worker'.pc = worker.pc
        /\ worker'.todo = [worker.todo EXCEPT ![p] = None]
        /\ \/ worker'.states = [worker.states EXCEPT ![p] = worker.todo[p]]
           \/ worker'.states = worker.states
    BY <2>1, <2>2, AcceptFields, SkipFields
  <2>4. \A q \in Owned :
           /\ worker'.todo[q] \in {None, pps.states[q]}
           /\ worker'.states[q] \in {None, pps.states[q]}
    BY <1>0, <2>1, <2>3 DEF Workers, States
  <2>5. p \in Owned => KeepReservation(p)
    BY <1>0, <1>2, <2>1 DEF createOrUpdateIPReservation, PutReservation
  <2>6. \A q \in Owned : resv'[q] = resv[q]
    BY <1>0, <1>2, <2>5
       DEF createOrUpdateIPReservation, KeepReservation, PutReservation,
           StoreReservation, TypeOK
  <2>7. /\ UNCHANGED <<cluster, caches, pps>>
        /\ worker'.pc # "update"
    BY <1>2, <2>3 DEF createOrUpdateIPReservation
  <2>8. QED
    BY <2>4, <2>6, <2>7, SettledWorker
<1>3. CASE NothingToRecord
  <2>1. worker' = Idle /\ UNCHANGED <<cluster, caches, pps, resv>>
    BY <1>3 DEF NothingToRecord, Return, stored
  <2>2. QED
    BY <1>0, <2>1, IdleFields, SettledWorker
<1>4. ~CreateRecord
  BY DEF CreateRecord, Settled
<1>5. CASE CompareRecord
  <2>1. UNCHANGED <<cluster, caches, pps, resv>>
    BY <1>5 DEF CompareRecord, stored
  <2>2. CASE WorthWriting
    <3>1. Full(worker.states)
      BY <2>2, LongIsFull DEF WorthWriting, Settled
    <3>2. worker'.todo = worker.todo /\ worker'.states = worker.states
      BY <1>5, <2>2 DEF CompareRecord, TypeOK, Workers
    <3>3. QED
      BY <1>0, <2>1, <3>1, <3>2, SettledWorker
  <2>3. CASE ~WorthWriting
    BY <1>0, <1>5, <2>1, <2>3, IdleFields, SettledWorker DEF CompareRecord, Return
  <2>4. QED
    BY <2>2, <2>3
<1>6. CASE UpdateRecord
  <2>1. UNCHANGED <<cluster, caches, resv>> /\ worker.pc = "update"
    BY <1>6 DEF UpdateRecord
  <2>2. \A p \in Owned : worker.states[p] = pps.states[p]
    BY <1>0, <2>1 DEF Settled, Full, Recorded
  <2>3. \/ worker' = Idle
        \/ /\ worker'.todo = worker.todo /\ worker'.states = worker.states
           /\ UNCHANGED pps
    BY <1>6 DEF UpdateRecord, Conflict, Return, ReturnError, TypeOK, Workers
  <2>4. CASE UNCHANGED pps
    <3>1. Full(worker.states)
      BY <2>1 DEF Settled
    <3>2. QED
      BY <1>0, <2>1, <2>3, <2>4, <3>1, IdleFields, SettledWorker
  <2>5. CASE StoreRecord /\ worker' = Idle
    <3>1. pps'.exists = pps.exists /\ pps'.states = worker.states
      BY <2>5 DEF StoreRecord, NewStates, TypeOK, PPS
    <3>2. QED
      BY <1>0, <2>1, <2>2, <2>5, <3>1, IdleFields
         DEF Settled, SettledPod, Full, Recorded, Running, cluster, caches
  <2>6. QED
    BY <1>6, <2>4, <2>5 DEF UpdateRecord, Conflict, Return, ReturnError
<1>7. QED
  BY <1>1, <1>2, <1>3, <1>4, <1>5, <1>6 DEF WorkerStep

\* Events, the record's watch, a crash and a restart keep a settled cluster
\* settled.
LEMMA SettledManager ==
  ASSUME TypeOK, Settled, StatefulSetEvent \/ SyncPps \/ Crash \/ Restart \/ UNCHANGED vars
  PROVE  Settled' /\ UNCHANGED pps
<1>1. CASE StatefulSetEvent \/ UNCHANGED vars
  BY <1>1, SettledSame DEF StatefulSetEvent, vars, cluster, stored, manager
<1>2. CASE SyncPps
  BY <1>2 DEF SyncPps, Settled, SettledPod, Full, Recorded, Running, cluster, stored
<1>3. CASE Crash
  <2>1. worker' = Idle /\ UNCHANGED <<cluster, caches, pps, resv>>
    BY <1>3 DEF Crash, stored
  <2>2. QED
    BY <2>1, IdleFields, SettledWorker DEF Owned
<1>4. CASE Restart
  <2>1. \A p \in Owned : cpods'[p] \in {None, pps.states[p]}
    BY <1>4 DEF Restart, RunningPlaces, Running, Settled, SettledPod, Owned
  <2>2. cpps' = pps /\ cresv' = resv /\ UNCHANGED <<cluster, pps, resv, worker>>
    BY <1>4 DEF Restart, stored
  <2>3. QED
    BY <2>1, <2>2 DEF Settled, SettledPod, Full, Recorded, Running, cluster
<1>5. QED
  BY <1>1, <1>2, <1>3, <1>4

\* The promise of the program: when the API server enforces the webhook and the
\* webhook can read its cache, a settled StatefulSet stays settled, with every
\* owned pod on its recorded address and node, for as long as the record is not
\* deleted, through any re-creation of pods, staleness of caches, failure of API
\* calls and crash of the manager.
THEOREM StickySafe == FailurePolicy = "Fail" /\ ~CacheGetFails /\ Spec => StickyIP
<1> SUFFICES ASSUME FailurePolicy = "Fail", ~CacheGetFails
             PROVE  Spec => StickyIP
  OBVIOUS
<1>1. Init => TypeOK /\ ForeignUnpinned
  BY InitTypes, InitForeign
<1>2. TypeOK /\ ForeignUnpinned /\ [Next]_vars => (TypeOK /\ ForeignUnpinned)'
  BY NextTypes, NextForeign
<1>3. TypeOK /\ ForeignUnpinned /\ [Next]_vars
        => [Settled /\ pps'.exists
              => /\ Settled'
                 /\ \A p \in Owned : pps'.states[p] = pps.states[p]]_vars
  BY SettledCluster, SettledWebhook, SettledReconciler, SettledManager DEF Next
<1>4. QED
  BY <1>1, <1>2, <1>3, PTL DEF Spec, StickyIP

=============================================================================
