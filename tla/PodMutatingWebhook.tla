------------------------- MODULE PodMutatingWebhook -------------------------
(***************************************************************************)
(* Admission of the StatefulSet's pods: PodMutatingHandler                 *)
(* (internal/webhook/pod/mutating).  The handler reads the record from the *)
(* manager's cache and pins the new pod to the recorded address and node.  *)
(***************************************************************************)
EXTENDS ClusterState

\* getStatefulSetNameFromPod: the owner reference, or the name's numeric
\* suffix, leads from the pod to the record; for a Foreign pod neither does.
LeadsToRecord(p) == p \notin Foreign

\* Mutant of PinFor: a pod that the cached list still shows is taken for placed.
PinForUnlisted(p) ==
  IF LeadsToRecord(p) /\ cpps.exists /\ cpods[p] = None THEN cpps.states[p] ELSE None

\* The Calico annotation and the node affinity handlePodCreate adds: both or
\* neither, since a PodState always has both an IP and a node.
PinFor(p) ==
  IF LeadsToRecord(p) /\ cpps.exists THEN cpps.states[p] ELSE None

\* Handle -> handlePod -> handlePodCreate for the creation of pod p.  A Get that
\* fails is only logged, and the pod admitted as it is.
handlePod(p) ==
  /\ up
  /\ pods[p].phase = "absent"
  /\ \E pin \in Place \cup {None} :
       /\ \/ pin = PinFor(p) /\ UNCHANGED budget
          \/ CacheGetFails /\ LeadsToRecord(p) /\ pin = None /\ Spend("fault")
       /\ pods' = [pods EXCEPT ![p] = [phase |-> "pending", place |-> pin]]
  /\ UNCHANGED <<others, stored, caches, stale, manager>>

\* The API server could not reach the webhook, and the configuration tells it
\* to go ahead: the pod is stored as it was submitted.
AdmissionBypassed(p) ==
  /\ FailurePolicy = "Ignore"
  /\ \/ ~up /\ UNCHANGED budget
     \/ up /\ Spend("fault")
  /\ pods[p].phase = "absent"
  /\ pods' = [pods EXCEPT ![p] = [phase |-> "pending", place |-> None]]
  /\ UNCHANGED <<others, stored, caches, stale, manager>>

=============================================================================
