---------------------------- MODULE VmiReconciler ----------------------------
(***************************************************************************)
(* The manager and ONE VirtualMachineInstance: its event handler, Reconcile *)
(* -> VmiAutoGeneratePersistentPodState (internal/controller/apps) and the *)
(* VMI half of the admission webhook (internal/webhook/pod/mutating).      *)
(* The record is named after the VMI; with Namesake, a StatefulSet of the  *)
(* same name writes into the same record.  There is one worker, Gets are   *)
(* served by the caches, and one step of the worker is one API call.       *)
(***************************************************************************)
EXTENDS Naturals

CONSTANTS
  IPs, Nodes, None,
  Other,       \* the status the namesake StatefulSet, of one pod, asks for
  Namesake,    \* is there a StatefulSet of the VMI's name?
  Owners,      \* may the VMI belong to a VirtualMachine (TRUE), or to none?
  Annotated,   \* does it carry both annotations?
  RetrySteps,  \* tries of retry.DefaultBackoff
  MaxEvents    \* TLC bound: failed calls, crashes and the other events around
               \* the manager, in any mix

Place == [ip : IPs, node : Nodes]

ASSUME VmiAssumption ==
  /\ None \notin Place \cup IPs
  /\ Other \notin Place \cup {None}
  /\ {Namesake, Annotated} \cup Owners \subseteq BOOLEAN
  /\ RetrySteps \in Nat \ {0}
  /\ MaxEvents \in Nat

VARIABLES
  vmi,        \* [phase, place, pinned]; while pending the place is its pin
  others,     \* addresses held by other workloads
  resv,       \* reservedCIDRs of the IPReservation vmi-<ns>-<name>
  pps,        \* the PersistentPodState: [exists, state]
  cvmi,       \* cached VMI: [phase, place], the place once an IP is reported
  cresv,
  resvStale,  \* the cached IPReservation is older than the stored one
  cpps,
  ppsStale,   \* the cached record is older than the stored one
  queue,      \* keys in the controller's workqueue
  worker,     \* the reconcile in progress
  up,         \* is the manager process running?
  owned,      \* has the VMI an owner?
  events

cluster == <<vmi, others, owned>>
caches  == <<cvmi, cresv, resvStale, cpps, ppsStale>>
vars    == <<cluster, resv, pps, caches, queue, worker, up, events>>

\* "booting": IsRunning() holds, but Status.Interfaces shows no IP yet.
Phases == {"absent", "pending", "booting", "running"}

Live == {"booting", "running"}

NoVmi == [phase |-> "absent", place |-> None, pinned |-> FALSE]

\* The VMI's entry of PodStates, the namesake's status, or an empty status.
Records == [exists : BOOLEAN, state : Place \cup {Other, None}]

NoRecord == [exists |-> FALSE, state |-> None]

\* "vmi" and "sts": generate#<kind>#<name>; "pps": the record's own key.
Keys == {"vmi", "sts", "pps"}

\* The locals of the reconcile in progress.  `blind' is history: the
\* IPReservation was judged right on a stale copy.
Workers == [pc    : {"idle", "reserve", "record", "update"},
            key   : Keys \cup {None},
            want  : Place \cup {Other, None},
            tries : 0 .. RetrySteps,
            blind : BOOLEAN]

Idle == [pc |-> "idle", key |-> None, want |-> None, tries |-> 0, blind |-> FALSE]

Event == events < MaxEvents /\ events' = events + 1

\* What a Get of the VMI returns, as far as the reconciler looks at it.
Reported(v) ==
  [phase |-> v.phase, place |-> IF v.phase = "running" THEN v.place ELSE None]

Init ==
  /\ vmi = NoVmi
  /\ others = {}
  /\ resv = None
  /\ pps = NoRecord
  /\ cvmi = Reported(NoVmi)
  /\ cresv = None
  /\ resvStale = FALSE
  /\ cpps = NoRecord
  /\ ppsStale = FALSE
  /\ queue = {}
  /\ worker = Idle
  /\ up = TRUE
  /\ owned \in Owners
  /\ events = 0

-----------------------------------------------------------------------------
(***************************************************************************)
(* The cluster (external): KubeVirt, scheduler, Calico and users.          *)
(***************************************************************************)
InUse == others \cup (IF vmi.phase \in Live THEN {vmi.place.ip} ELSE {})

\* Calico hands out an address by itself only if no IPReservation covers it.
Assignable == IPs \ (InUse \cup {resv})

\* virt-handler reports the phase before the guest's address.
BootVmi ==
  /\ vmi.phase = "pending"
  /\ \E place \in Place :
       /\ IF vmi.pinned THEN place = vmi.place /\ place.ip \notin InUse
                        ELSE place.ip \in Assignable
       /\ vmi' = [vmi EXCEPT !.phase = "booting", !.place = place]
  /\ UNCHANGED <<others, owned, resv, pps, caches, queue, worker, up, events>>

ReportIP ==
  /\ vmi.phase = "booting"
  /\ vmi' = [vmi EXCEPT !.phase = "running"]
  /\ UNCHANGED <<others, owned, resv, pps, caches, queue, worker, up, events>>

\* A live migration; the required affinity and the fixed address leave a pinned
\* VMI no other place to go to.
Migrate ==
  /\ vmi.phase = "running" /\ ~vmi.pinned
  /\ Event
  /\ \E place \in Place :
       /\ place.ip \in Assignable
       /\ vmi' = [vmi EXCEPT !.place = place]
  /\ UNCHANGED <<others, owned, resv, pps, caches, queue, worker, up>>

\* The VirtualMachine is restarted: its VMI goes, and is created again.
DeleteVmi ==
  /\ vmi.phase # "absent"
  /\ Event
  /\ vmi' = NoVmi
  /\ UNCHANGED <<others, owned, resv, pps, caches, queue, worker, up>>

OtherTakes ==
  /\ Event
  /\ \E ip \in Assignable : others' = others \cup {ip}
  /\ UNCHANGED <<vmi, owned, resv, pps, caches, queue, worker, up>>

OtherReleases ==
  /\ \E ip \in others : others' = others \ {ip}
  /\ UNCHANGED <<vmi, owned, resv, pps, caches, queue, worker, up, events>>

DeletePps ==
  /\ pps.exists
  /\ Event
  /\ pps' = NoRecord
  /\ ppsStale' = TRUE
  /\ UNCHANGED <<cluster, resv, cvmi, cresv, resvStale, cpps, queue, worker, up>>

-----------------------------------------------------------------------------
(***************************************************************************)
(* Admission of the VMI.                                                   *)
(***************************************************************************)
Admit(pin) ==
  /\ vmi.phase = "absent"
  /\ vmi' = [phase |-> "pending", place |-> pin, pinned |-> pin # None]
  /\ UNCHANGED <<others, owned, resv, pps, caches, queue, worker, up>>

\* Mutant of PinFor: the entry is looked up under the name of the VMI's pod.
PinForPod == None

\* The annotation and the affinity handleVMICreate adds.  A record without an
\* entry under the VMI's name, an empty one or the namesake's, gives no pin.
PinFor == IF cpps.state \in Place THEN cpps.state ELSE None

handleVMI == up /\ Admit(PinFor) /\ UNCHANGED events

\* The webhook cannot be reached, and failurePolicy Ignore stores the VMI as it
\* is; or handleVMICreate's Get fails, which is only logged.
AdmissionMissed ==
  /\ \/ ~up /\ UNCHANGED events
     \/ up /\ Event
  /\ Admit(None)

-----------------------------------------------------------------------------
(***************************************************************************)
(* Watches.                                                                *)
(***************************************************************************)

\* Create and Update of enqueueRequestForVirtualMachineInstance, for the VMI as
\* stored or, in a resync, as cached.
VmiEvent(seen) ==
  /\ up
  /\ cvmi' = seen
  /\ queue' = IF Annotated /\ seen.phase \in Live
                THEN queue \cup {"vmi"} ELSE queue
  /\ UNCHANGED <<cluster, resv, pps, cresv, resvStale, cpps, ppsStale, worker, up, events>>

StatefulSetEvent ==
  /\ up
  /\ Namesake
  /\ queue' = queue \cup {"sts"}
  /\ UNCHANGED <<cluster, resv, pps, caches, worker, up, events>>

SyncPps ==
  /\ up
  /\ ppsStale
  /\ cpps' = pps
  /\ ppsStale' = FALSE
  /\ queue' = queue \cup {"pps"}
  /\ UNCHANGED <<cluster, resv, pps, cvmi, cresv, resvStale, worker, up, events>>

SyncResv ==
  /\ up
  /\ resvStale
  /\ cresv' = resv
  /\ resvStale' = FALSE
  /\ UNCHANGED <<cluster, resv, pps, cvmi, cpps, ppsStale, queue, worker, up, events>>

-----------------------------------------------------------------------------
(***************************************************************************)
(* Reconcile.                                                              *)
(***************************************************************************)
Return == worker' = Idle /\ UNCHANGED queue

ReturnError == worker' = Idle /\ queue' = queue \cup {worker.key}

Goto(pc) == worker' = [worker EXCEPT !.pc = pc] /\ UNCHANGED queue

Begin(key, pc, want) ==
  worker' = [Idle EXCEPT !.pc = pc, !.key = key, !.want = want]

\* Mutant of ReconcileVmi: a VMI without an IP is reconciled all the same.
ReconcileVmiAnyway(key) == Begin(key, "reserve", cvmi.place)

\* VmiAutoGeneratePersistentPodState returns at once for a VMI without an IP.
ReconcileVmi(key) ==
  IF cvmi.place # None THEN Begin(key, "reserve", cvmi.place) ELSE worker' = Idle

\* The StatefulSet's reservations are its own; they are in StatefulSetReconciler.
ReconcileSts(key) ==
  IF Namesake THEN Begin(key, "record", Other) ELSE worker' = Idle

\* Mutant of Prefers: the record's key is the StatefulSet's, if there is one.
PrefersSts(key) == key = "vmi" \/ (key = "pps" /\ ~Namesake)

\* The record's own key leads to the VMI first, annotated or not.
Prefers(key) == key = "vmi" \/ (key = "pps" /\ cvmi.phase # "absent")

Reconcile(key) ==
  /\ up
  /\ worker.pc = "idle"
  /\ key \in queue
  /\ queue' = queue \ {key}
  /\ IF Prefers(key) THEN ReconcileVmi(key) ELSE ReconcileSts(key)
  /\ UNCHANGED <<cluster, resv, pps, caches, up, events>>

StoreReservation == resv' = worker.want.ip /\ resvStale' = TRUE

\* Mutant of ReserveFailed: the error is only logged, as for pods.
ReserveLogged == Goto("record")

\* Unlike the reservation of a pod, a failed one ends the reconcile.
ReserveFailed == ReturnError

\* Get, then Create or Update, of the IPReservation.  A stale cache makes the
\* API server refuse the write.
Reserve ==
  /\ up
  /\ worker.pc = "reserve"
  /\ \/ /\ cresv = worker.want.ip
        /\ worker' = [worker EXCEPT !.pc = "record", !.blind = resvStale]
        /\ UNCHANGED <<resv, resvStale, queue, events>>
     \/ /\ cresv # worker.want.ip /\ ~resvStale
        /\ StoreReservation /\ Goto("record") /\ UNCHANGED events
     \/ /\ cresv # worker.want.ip /\ resvStale
        /\ ReserveFailed /\ UNCHANGED <<resv, resvStale, events>>
     \/ /\ cresv # worker.want.ip
        /\ Event
        /\ ReserveFailed
        /\ \/ ~resvStale /\ StoreReservation
           \/ UNCHANGED <<resv, resvStale>>
  /\ UNCHANGED <<cluster, pps, cvmi, cresv, cpps, ppsStale, up>>

\* OwnerReferences[0] of a VMI that has no owner.
OutOfRange == worker.want # Other /\ ~owned

\* The new record takes its owner from the VMI's.  controller-runtime v0.18 does
\* not recover from the panic unless told to, and the process dies.
Panic ==
  /\ up
  /\ worker.pc = "record"
  /\ OutOfRange
  /\ up' = FALSE
  /\ queue' = {}
  /\ worker' = Idle
  /\ UNCHANGED <<cluster, resv, pps, caches, events>>

\* The status subresource is enabled, so a Create stores no status.
StoreEmptyRecord ==
  /\ pps' = [exists |-> TRUE, state |-> None]
  /\ ppsStale' = TRUE

\* No record in the cache: create it.  AlreadyExists counts as success.
CreateRecord ==
  /\ up
  /\ worker.pc = "record" /\ ~OutOfRange
  /\ ~cpps.exists
  /\ \/ ~pps.exists /\ StoreEmptyRecord /\ Return /\ UNCHANGED events
     \/ pps.exists /\ Return /\ UNCHANGED <<pps, ppsStale, events>>
     \/ /\ Event
        /\ ReturnError
        /\ \/ ~pps.exists /\ StoreEmptyRecord
           \/ UNCHANGED <<pps, ppsStale>>
  /\ UNCHANGED <<cluster, resv, cvmi, cresv, resvStale, cpps, up>>

\* Mutant of WorthWriting: a length guard that is off by one.
WorthWritingLonger == cpps.state = None

\* reflect.DeepEqual on the statuses.  The VMI has no length guard; the
\* StatefulSet's lets it pass, one pod against one entry.
WorthWriting == worker.want # cpps.state

CompareRecord ==
  /\ up
  /\ worker.pc = "record" /\ ~OutOfRange
  /\ cpps.exists
  /\ IF WorthWriting THEN Goto("update") ELSE Return
  /\ UNCHANGED <<cluster, resv, pps, caches, up, events>>

StoreRecord ==
  /\ pps' = [pps EXCEPT !.state = worker.want]
  /\ ppsStale' = TRUE

Conflict ==
  IF worker.tries + 1 < RetrySteps
    THEN worker' = [worker EXCEPT !.tries = @ + 1] /\ UNCHANGED queue
    ELSE ReturnError

\* One try of RetryOnConflict: Get from the cache, then Status().Update.
UpdateRecord ==
  /\ up
  /\ worker.pc = "update"
  /\ \/ /\ ~cpps.exists \/ ~pps.exists
        /\ ReturnError /\ UNCHANGED <<pps, ppsStale, events>>
     \/ /\ cpps.exists /\ pps.exists /\ ppsStale
        /\ Conflict /\ UNCHANGED <<pps, ppsStale, events>>
     \/ /\ cpps.exists /\ pps.exists /\ ~ppsStale
        /\ StoreRecord /\ Return /\ UNCHANGED events
     \/ /\ cpps.exists
        /\ Event
        /\ ReturnError
        /\ \/ pps.exists /\ ~ppsStale /\ StoreRecord
           \/ UNCHANGED <<pps, ppsStale>>
  /\ UNCHANGED <<cluster, resv, cvmi, cresv, resvStale, cpps, up>>

-----------------------------------------------------------------------------
Crash ==
  /\ up
  /\ Event
  /\ up' = FALSE
  /\ queue' = {}
  /\ worker' = Idle
  /\ UNCHANGED <<cluster, resv, pps, caches>>

\* The caches are filled first, then every object is a create event.
Restart ==
  /\ ~up
  /\ up' = TRUE
  /\ cvmi' = Reported(vmi)
  /\ cresv' = resv /\ resvStale' = FALSE
  /\ cpps' = pps /\ ppsStale' = FALSE
  /\ queue' = {k \in Keys : \/ k = "vmi" /\ Annotated /\ vmi.phase \in Live
                            \/ k = "sts" /\ Namesake
                            \/ k = "pps" /\ pps.exists}
  /\ UNCHANGED <<cluster, resv, pps, worker, events>>

Busy == Reserve \/ Panic \/ CreateRecord \/ CompareRecord \/ UpdateRecord

Next ==
  \/ BootVmi \/ ReportIP \/ Migrate \/ DeleteVmi
  \/ OtherTakes \/ OtherReleases \/ DeletePps
  \/ handleVMI \/ AdmissionMissed
  \/ VmiEvent(Reported(vmi)) \/ VmiEvent(cvmi)
  \/ StatefulSetEvent \/ SyncPps \/ SyncResv
  \/ \E key \in Keys : Reconcile(key)
  \/ Busy
  \/ Crash \/ Restart

Spec == Init /\ [][Next]_vars

\* Watches deliver and resync, the queue is first in, first out, a reconcile
\* goes on, and the Deployment restarts the process.  Nothing is assumed of the
\* VMI, of the StatefulSet's events, of users or of faults.
Fairness ==
  /\ WF_vars(VmiEvent(Reported(vmi)))
  /\ WF_vars(SyncPps)
  /\ WF_vars(SyncResv)
  /\ \A key \in Keys : SF_vars(Reconcile(key))
  /\ WF_vars(Busy)
  /\ WF_vars(Restart)

FairSpec == Spec /\ Fairness

-----------------------------------------------------------------------------
TypeOK ==
  /\ vmi \in [phase : Phases, place : Place \cup {None}, pinned : BOOLEAN]
  /\ vmi.phase \in Live \/ vmi.pinned => vmi.place \in Place
  /\ others \subseteq IPs
  /\ resv \in IPs \cup {None}
  /\ pps \in Records
  /\ cvmi \in [phase : Phases, place : Place \cup {None}]
  /\ cresv \in IPs \cup {None}
  /\ resvStale \in BOOLEAN
  /\ cpps \in Records
  /\ ppsStale \in BOOLEAN
  /\ queue \subseteq Keys
  /\ worker \in Workers
  /\ worker.pc # "idle" => worker.key \in Keys /\ worker.want # None
  /\ worker.pc = "reserve" => worker.want \in Place
  /\ up \in BOOLEAN
  /\ owned \in BOOLEAN
  /\ events \in 0 .. MaxEvents

\* The VMI's address is reserved before it is recorded: a failed Create or
\* Update of the IPReservation keeps the address out of the record.  Only a
\* stale copy of the reservation can let it in.
VmiReserveFirst ==
  [][pps'.state \in Place /\ pps'.state # pps.state
       => resv = pps'.state.ip \/ worker.blind]_vars

\* The VMI, absent or pinned, and all the manager knows of it agree with the
\* record.
Settled ==
  LET rec == pps.state
  IN  /\ rec \in Place /\ cpps = pps
      /\ resv = rec.ip /\ cresv = rec.ip
      /\ vmi.phase # "absent" => vmi.pinned /\ vmi.place = rec
      /\ cvmi.place \in {None, rec}
      /\ worker.want \in {None, Other, rec}
      /\ rec.ip \notin others

\* Once settled, a VMI keeps its address and node through restarts, faults,
\* crashes and competing workloads, until an admission passes the webhook by,
\* somebody deletes the record or the namesake writes over it.
VmiSticky ==
  [][Settled /\ ~AdmissionMissed /\ pps'.exists /\ pps'.state # Other
       => Settled' /\ pps' = pps]_vars

Runs == vmi.phase = "running"

Recorded == Runs /\ pps.state = vmi.place /\ resv = vmi.place.ip

\* A StatefulSet of the VMI's name keeps writing its pods into the record: the
\* VMI's place always comes back, whatever order the three keys are served in.
VmiRecovers == <>[](Runs /\ owned) => []<>Recorded

\* The namesake has nothing to say.
Quiet == "sts" \notin queue /\ worker.key # "sts"

\* Then the record settles on the VMI: its own key leads to the VMI and not back
\* to the namesake, a Create stores an empty record that is filled later, the
\* address is reported after the VMI runs, and calls fail.
VmiConverges == <>[](Runs /\ owned /\ Quiet) => <>[]Recorded

\* AnnotationAutoGeneratePersistentPodState "indicates kruise will auto generate
\* PersistentPodState object", for a VMI that runs and carries the annotation.
VmiGetsRecord == <>[]Runs => <>pps.exists

=============================================================================
