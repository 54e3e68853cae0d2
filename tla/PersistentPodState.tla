------------------------- MODULE PersistentPodState -------------------------
(***************************************************************************)
(* The persistent-pod-state manager in its cluster: the reconciler that    *)
(* records where the pods of a StatefulSet run, the webhook that pins      *)
(* re-created pods to the record, and the crashes of the process that      *)
(* holds both.                                                             *)
(***************************************************************************)
EXTENDS PodMutatingWebhook, StatefulSetReconciler

\* What a freshly started manager queues once its caches are filled: a create
\* event per object.
InitialQueue ==
  (IF Annotated THEN {"generate"} ELSE {})
    \cup (IF pps.exists THEN {"pps"} ELSE {})

\* No pod exists yet; the record is absent or was created by hand, empty.
Init ==
  /\ pods = [p \in Pods |-> [phase |-> "absent", place |-> None]]
  /\ others = {}
  /\ resv = [p \in Pods |-> None]
  /\ pps \in {Absent, [exists |-> TRUE, states |-> NoStates]}
  /\ cpods = NoStates
  /\ cresv = resv
  /\ resvStale = {}
  /\ cpps = pps
  /\ ppsStale = FALSE
  /\ queue = InitialQueue
  /\ worker = Idle
  /\ up = TRUE
  /\ budget = Budget

\* The process dies; what the reconcile in progress has written so far stays.
Crash ==
  /\ up
  /\ Spend("crash")
  /\ up' = FALSE
  /\ queue' = {}
  /\ worker' = Idle
  /\ UNCHANGED <<cluster, stored, caches, stale>>

\* The Deployment starts it again: the caches are filled before the
\* controller and the webhook serve, then every object is a create event.
Restart ==
  /\ ~up
  /\ up' = TRUE
  /\ cpods' = RunningPlaces
  /\ cresv' = resv
  /\ resvStale' = {}
  /\ cpps' = pps
  /\ ppsStale' = FALSE
  /\ queue' = InitialQueue
  /\ UNCHANGED <<cluster, stored, worker, budget>>

ClusterStep ==
  \/ \E p \in Pods : StartPod(p) \/ DeletePod(p) \/ SyncResv(p)
  \/ \E ip \in IPs : OtherTakes(ip) \/ OtherReleases(ip)
  \/ DeletePps
  \/ SyncPods

WebhookStep == \E p \in Pods : handlePod(p) \/ AdmissionBypassed(p)

Next ==
  \/ ClusterStep
  \/ WebhookStep
  \/ StatefulSetEvent
  \/ SyncPps
  \/ WorkerStep
  \/ Crash
  \/ Restart

Spec == Init /\ [][Next]_vars

\* Fairness.  Watches deliver, the worker runs, the Deployment restarts the
\* process, and the informers resync (every ten hours by default), so that
\* StatefulSet events never cease.  Nothing is assumed of the pods, of other
\* workloads, of faults or of users.
Fairness ==
  /\ WF_vars(SyncPods)
  /\ WF_vars(\E p \in Pods : SyncResv(p))
  /\ WF_vars(SyncPps)
  /\ WF_vars(StatefulSetEvent)
  /\ WF_vars(Restart)
  /\ WF_vars(Reconcile("generate"))
  /\ WF_vars(Reconcile("pps"))
  /\ WF_vars(worker.pc # "idle" /\ WorkerStep)

FairSpec == Spec /\ Fairness

-----------------------------------------------------------------------------
TypeOK ==
  /\ pods \in [Pods -> [phase : {"absent", "pending", "running"},
                        place : Place \cup {None}]]
  /\ \A p \in Pods : Running(p) => pods[p].place \in Place
  /\ others \subseteq IPs
  /\ resv \in [Pods -> IPs \cup {None}]
  /\ pps \in PPS
  /\ cpods \in States
  /\ cresv \in [Pods -> IPs \cup {None}]
  /\ resvStale \subseteq Pods
  /\ cpps \in PPS
  /\ ppsStale \in BOOLEAN
  /\ queue \subseteq Keys
  /\ worker \in Workers
  /\ worker.pc # "idle" => worker.key \in Keys
  /\ up \in BOOLEAN
  /\ budget \in [Events -> Nat]

\* No two pods of a set of states have the same address.
DistinctIPs(states) ==
  \A p, q \in Recorded(states) : states[p].ip = states[q].ip => p = q

\* The record never gives one address to two pods, although pods come and go,
\* addresses are reused, and the record is rebuilt from a stale pod list while
\* some of its pods are skipped.  It holds because the record is replaced by a
\* part of ONE cached pod list, never merged with an older one.
RecordIPsDistinct == DistinctIPs(pps.states)

\* The length guard "len(new) < len(existing): return nil" is meant to keep a
\* record from losing pods.  It is checked once, on the cached record, and not
\* again when RetryOnConflict re-reads the record: the stored record shrinks
\* only in a reconcile that decided on a stale copy.
GuardHolds ==
  [][pps.exists /\ pps'.exists /\ Size(pps'.states) < Size(pps.states)
       => worker.late]_vars

\* An address is reserved before it is recorded, whatever fails in between:
\* a newly recorded place is covered by the pod's own IPReservation, unless the
\* reconcile took a stale IPReservation of the cache for the stored one.
ReserveFirst ==
  [][\A p \in Pods :
       pps'.states[p] \notin {None, pps.states[p]}
         => resv[p] = pps'.states[p].ip \/ p \in worker.blind]_vars

-----------------------------------------------------------------------------
(***************************************************************************)
(* What the manager is for: a pod keeps its address and its node.          *)
(***************************************************************************)
Owned == Pods \ Foreign

Full(states) == Recorded(states) = Pods

\* Pod p and everything the manager knows of it agree with the record.
SettledPod(p) ==
  LET rec == pps.states[p]
  IN  /\ cpps.states[p] = rec
      /\ resv[p] = rec.ip
      /\ cresv[p] = rec.ip
      /\ pods[p].phase # "absent" => pods[p].place = rec
      /\ {cpods[p], worker.todo[p], worker.states[p]} \subseteq {None, rec}
      /\ rec.ip \notin others
      /\ \A q \in Foreign : Running(q) => pods[q].place.ip # rec.ip

\* The record is complete, the cache has seen it, and every pod complies.
Settled ==
  /\ pps.exists /\ Full(pps.states)
  /\ cpps.exists /\ Full(cpps.states)
  /\ \A p \in Owned : SettledPod(p)
  /\ worker.pc = "update" => Full(worker.states)

\* Once settled, always settled, with the same places, until somebody deletes
\* the record: pods may be deleted and re-created, addresses taken and freed,
\* watches lag, API calls fail and the manager crash in any order, and no owned
\* pod starts anywhere but where it ran before.
StickyIP ==
  [][Settled /\ pps'.exists
       => /\ Settled'
          /\ \A p \in Owned : pps'.states[p] = pps.states[p]]_vars

\* When the pods of an annotated StatefulSet run undisturbed, the record is
\* eventually complete and everything agrees with it, although a Create stores
\* an empty record, a reconcile that could not reserve an address reports
\* success, and a StatefulSet event may be handled before the pod list is fresh.
AllRunning == \A p \in Pods : Running(p)

Converges == <>[]AllRunning => <>[]Settled

\* AnnotationAutoGeneratePersistentPodState "indicates kruise will auto generate
\* PersistentPodState object": a StatefulSet without it gets no record.
AutoGenerateOnlyAnnotated ==
  [][~Annotated /\ ~pps.exists => ~pps'.exists]_vars

=============================================================================
