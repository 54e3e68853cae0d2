------------------------ MODULE VmiReconciler_proofs ------------------------
(***************************************************************************)
(* Theorems about VmiReconciler, for every set of addresses and nodes,     *)
(* with and without namesake, owner and annotation, and for every bound.   *)
(***************************************************************************)
EXTENDS VmiReconciler, TLAPS

\* The variables that the cluster and the webhook leave to the manager.
manager == <<resv, pps, caches, queue, worker, up>>

\* The idle worker and the empty objects have their types.
LEMMA BasicTypes ==
  /\ Idle \in Workers /\ Idle.pc = "idle" /\ Idle.want = None
  /\ NoRecord \in Records /\ NoRecord.state = None /\ ~NoRecord.exists
  /\ Reported(NoVmi) \in [phase : Phases, place : Place \cup {None}]
  /\ Reported(NoVmi).place = None
BY VmiAssumption
   DEF Idle, Workers, NoRecord, Records, Reported, NoVmi, Phases

\* What a Get of the VMI returns is typed, and shows the VMI's place or none.
LEMMA ReportedType ==
  ASSUME TypeOK
  PROVE  /\ Reported(vmi) \in [phase : Phases, place : Place \cup {None}]
         /\ Reported(vmi).place \in {None, vmi.place}
BY DEF TypeOK, Reported

\* An event that is still allowed keeps the count within its bound.
LEMMA EventType ==
  ASSUME events \in 0 .. MaxEvents, Event
  PROVE  events' \in 0 .. MaxEvents
BY VmiAssumption DEF Event

-----------------------------------------------------------------------------
(***************************************************************************)
(* Types.                                                                  *)
(***************************************************************************)

\* What the cluster and the admission of the VMI do keeps the types.
LEMMA ClusterTypes ==
  ASSUME TypeOK,
         BootVmi \/ ReportIP \/ Migrate \/ DeleteVmi \/ OtherTakes
           \/ OtherReleases \/ handleVMI \/ AdmissionMissed
  PROVE  TypeOK'
<1>1. /\ vmi' \in [phase : Phases, place : Place \cup {None}, pinned : BOOLEAN]
      /\ vmi'.phase \in Live \/ vmi'.pinned => vmi'.place \in Place
  <2>1. CASE BootVmi
    BY <2>1 DEF BootVmi, TypeOK, Phases, Live
  <2>2. CASE ReportIP
    BY <2>2 DEF ReportIP, TypeOK, Phases, Live
  <2>3. CASE Migrate
    BY <2>3 DEF Migrate, TypeOK, Phases, Live
  <2>4. CASE DeleteVmi
    BY <2>4 DEF DeleteVmi, NoVmi, TypeOK, Phases, Live
  <2>5. CASE OtherTakes \/ OtherReleases
    BY <2>5 DEF OtherTakes, OtherReleases, TypeOK
  <2>6. ASSUME NEW pin \in Place \cup {None}, Admit(pin)
        PROVE  /\ vmi' \in [phase : Phases, place : Place \cup {None}, pinned : BOOLEAN]
               /\ vmi'.phase \in Live \/ vmi'.pinned => vmi'.place \in Place
    BY <2>6 DEF Admit, Phases, Live
  <2>7. PinFor \in Place \cup {None}
    BY DEF PinFor
  <2>8. QED
    BY <2>1, <2>2, <2>3, <2>4, <2>5, <2>6, <2>7 DEF handleVMI, AdmissionMissed
<1>2. others' \subseteq IPs
  BY DEF BootVmi, ReportIP, Migrate, DeleteVmi, OtherTakes, OtherReleases, handleVMI,
         AdmissionMissed, Admit, Assignable, TypeOK
<1>3. events' \in 0 .. MaxEvents
  BY EventType DEF BootVmi, ReportIP, Migrate, DeleteVmi, OtherTakes, OtherReleases,
                   handleVMI, AdmissionMissed, Admit, TypeOK
<1>4. UNCHANGED manager /\ UNCHANGED owned
  BY DEF manager, BootVmi, ReportIP, Migrate, DeleteVmi, OtherTakes, OtherReleases,
         handleVMI, AdmissionMissed, Admit, caches
<1>5. QED
  BY <1>1, <1>2, <1>3, <1>4 DEF TypeOK, manager, caches

\* The record is deleted, or a watch delivers.
LEMMA WatchTypes ==
  ASSUME TypeOK,
         DeletePps \/ VmiEvent(Reported(vmi)) \/ VmiEvent(cvmi) \/ StatefulSetEvent
           \/ SyncPps \/ SyncResv
  PROVE  TypeOK'
<1>1. CASE DeletePps
  BY <1>1, EventType, BasicTypes DEF DeletePps, TypeOK, cluster
<1>2. ASSUME NEW seen \in [phase : Phases, place : Place \cup {None}], VmiEvent(seen)
      PROVE  TypeOK'
  BY <1>2 DEF VmiEvent, TypeOK, cluster, Keys
<1>3. CASE VmiEvent(Reported(vmi)) \/ VmiEvent(cvmi)
  BY <1>2, <1>3, ReportedType DEF TypeOK
<1>4. CASE StatefulSetEvent
  BY <1>4 DEF StatefulSetEvent, TypeOK, cluster, caches, Keys
<1>5. CASE SyncPps
  BY <1>5 DEF SyncPps, TypeOK, cluster, Keys
<1>6. CASE SyncResv
  BY <1>6 DEF SyncResv, TypeOK, cluster
<1>7. QED
  BY <1>1, <1>3, <1>4, <1>5, <1>6

\* What TypeOK says of the reconcile in progress.
WorkerOK ==
  /\ worker \in Workers
  /\ worker.pc # "idle" => worker.key \in Keys /\ worker.want # None
  /\ worker.pc = "reserve" => worker.want \in Place

\* A reconcile begins.
LEMMA ReconcileTypes ==
  ASSUME TypeOK, NEW key \in Keys, Reconcile(key)
  PROVE  TypeOK'
<1>1. cvmi.place \in Place \cup {None}
  BY DEF TypeOK
<1>2. WorkerOK'
  <2>1. CASE worker' = Idle
    BY <2>1, BasicTypes DEF WorkerOK
  <2>2. CASE Begin(key, "reserve", cvmi.place) /\ cvmi.place # None
    <3>1. worker' = [pc |-> "reserve", key |-> key, want |-> cvmi.place,
                     tries |-> 0, blind |-> FALSE]
      BY <2>2 DEF Begin, Idle
    <3>2. QED
      BY <1>1, <2>2, <3>1, VmiAssumption DEF WorkerOK, Workers
  <2>3. CASE Begin(key, "record", Other)
    <3>1. worker' = [pc |-> "record", key |-> key, want |-> Other,
                     tries |-> 0, blind |-> FALSE]
      BY <2>3 DEF Begin, Idle
    <3>2. QED
      BY <3>1, VmiAssumption DEF WorkerOK, Workers
  <2>4. QED
    BY <2>1, <2>2, <2>3 DEF Reconcile, ReconcileVmi, ReconcileSts
<1>3. QED
  BY <1>2 DEF Reconcile, TypeOK, WorkerOK, cluster, caches

\* Going on, ending and failing keep the locals typed.
LEMMA WorkerMoves ==
  ASSUME TypeOK, worker.pc # "idle"
  PROVE  /\ Return => WorkerOK' /\ queue' \subseteq Keys
         /\ ReturnError => WorkerOK' /\ queue' \subseteq Keys
         /\ \A pc \in {"record", "update"} :
              Goto(pc) => WorkerOK' /\ queue' \subseteq Keys
<1>1. WorkerOK /\ queue \subseteq Keys
  BY DEF TypeOK, WorkerOK
<1>2. Return => WorkerOK' /\ queue' \subseteq Keys
  BY <1>1, BasicTypes DEF Return, WorkerOK
<1>3. ReturnError => WorkerOK' /\ queue' \subseteq Keys
  BY <1>1, BasicTypes DEF ReturnError, WorkerOK
<1>4. ASSUME NEW pc \in {"record", "update"}, Goto(pc)
      PROVE  WorkerOK' /\ queue' \subseteq Keys
  BY <1>1, <1>4 DEF Goto, WorkerOK, Workers
<1>5. QED
  BY <1>2, <1>3, <1>4

\* The steps of a reconcile keep the types.
LEMMA BusyTypes ==
  ASSUME TypeOK, Busy
  PROVE  TypeOK'
<1>1. CASE Reserve
  <2>1. worker.want \in Place /\ worker.want.ip \in IPs /\ worker.pc # "idle"
    BY <1>1 DEF Reserve, TypeOK, Place
  <2>2. resv' \in IPs \cup {None} /\ resvStale' \in BOOLEAN
    BY <1>1, <2>1 DEF Reserve, StoreReservation, TypeOK
  <2>3. events' \in 0 .. MaxEvents
    BY <1>1, EventType DEF Reserve, TypeOK
  <2>4. WorkerOK' /\ queue' \subseteq Keys
    <3>1. ASSUME worker' = [worker EXCEPT !.pc = "record", !.blind = resvStale],
                 UNCHANGED queue
          PROVE  WorkerOK' /\ queue' \subseteq Keys
      BY <2>1, <3>1 DEF TypeOK, WorkerOK, Workers
    <3>2. QED
      BY <1>1, <2>1, <3>1, WorkerMoves DEF Reserve, ReserveFailed
  <2>5. QED
    BY <1>1, <2>2, <2>3, <2>4 DEF Reserve, TypeOK, WorkerOK, cluster
<1>2. CASE Panic
  BY <1>2, BasicTypes DEF Panic, TypeOK, cluster, caches
<1>3. CASE CreateRecord
  <2>1. worker.pc # "idle" /\ (Return \/ ReturnError)
    BY <1>3 DEF CreateRecord
  <2>2. WorkerOK' /\ queue' \subseteq Keys
    BY <2>1, WorkerMoves
  <2>3. pps' \in Records /\ ppsStale' \in BOOLEAN
    <3>1. StoreEmptyRecord \/ UNCHANGED <<pps, ppsStale>>
      BY <1>3 DEF CreateRecord
    <3>2. CASE StoreEmptyRecord
      BY <3>2 DEF StoreEmptyRecord, Records
    <3>3. CASE UNCHANGED <<pps, ppsStale>>
      BY <3>3 DEF TypeOK
    <3>4. QED
      BY <3>1, <3>2, <3>3
  <2>4. events' \in 0 .. MaxEvents
    BY <1>3, EventType DEF CreateRecord, TypeOK
  <2>5. QED
    BY <1>3, <2>2, <2>3, <2>4 DEF CreateRecord, TypeOK, WorkerOK, cluster
<1>4. CASE CompareRecord
  <2>1. WorkerOK' /\ queue' \subseteq Keys
    BY <1>4, WorkerMoves DEF CompareRecord
  <2>2. QED
    BY <1>4, <2>1 DEF CompareRecord, TypeOK, WorkerOK, cluster, caches
<1>5. CASE UpdateRecord
  <2>1. WorkerOK' /\ queue' \subseteq Keys
    <3>1. CASE Return \/ ReturnError
      BY <1>5, <3>1, WorkerMoves DEF UpdateRecord
    <3>2. ASSUME worker.tries + 1 < RetrySteps,
                 worker' = [worker EXCEPT !.tries = @ + 1], UNCHANGED queue
          PROVE  WorkerOK' /\ queue' \subseteq Keys
      <4>1. worker.tries + 1 \in 0 .. RetrySteps
        BY <3>2, VmiAssumption DEF TypeOK, Workers
      <4>2. QED
        BY <3>2, <4>1 DEF TypeOK, WorkerOK, Workers
    <3>3. QED
      BY <1>5, <3>1, <3>2 DEF UpdateRecord, Conflict
  <2>2. pps' \in Records /\ ppsStale' \in BOOLEAN
    BY <1>5 DEF UpdateRecord, StoreRecord, TypeOK, Records, Workers
  <2>3. events' \in 0 .. MaxEvents
    BY <1>5, EventType DEF UpdateRecord, TypeOK
  <2>4. QED
    BY <1>5, <2>1, <2>2, <2>3 DEF UpdateRecord, TypeOK, WorkerOK, cluster
<1>6. QED
  BY <1>1, <1>2, <1>3, <1>4, <1>5 DEF Busy

\* Every step keeps the types.
LEMMA NextTypes ==
  ASSUME TypeOK, [Next]_vars
  PROVE  TypeOK'
<1>1. CASE Crash
  BY <1>1, BasicTypes, EventType DEF Crash, TypeOK, cluster, caches
<1>2. CASE Restart
  BY <1>2, ReportedType DEF Restart, TypeOK, cluster, Keys
<1>3. CASE UNCHANGED vars
  BY <1>3 DEF vars, TypeOK, cluster, caches
<1>4. CASE \E key \in Keys : Reconcile(key)
  BY <1>4, ReconcileTypes
<1>5. CASE Busy
  BY <1>5, BusyTypes
<1>6. QED
  BY <1>1, <1>2, <1>3, <1>4, <1>5, ClusterTypes, WatchTypes DEF Next

\* The initial state is typed.
LEMMA InitTypes == Init => TypeOK
<1> SUFFICES ASSUME Init PROVE TypeOK
  OBVIOUS
<1>1. /\ vmi \in [phase : Phases, place : Place \cup {None}, pinned : BOOLEAN]
      /\ vmi.phase \notin Live /\ ~vmi.pinned
  BY DEF Init, NoVmi, Phases, Live
<1>2. events \in 0 .. MaxEvents /\ owned \in BOOLEAN
  BY VmiAssumption DEF Init
<1>3. QED
  BY <1>1, <1>2, BasicTypes DEF Init, TypeOK

\* Type correctness: the VMI, the record, the caches, the workqueue and the
\* locals of the reconcile in progress keep their types in every behaviour.
THEOREM TypeCorrect == Spec => []TypeOK
BY InitTypes, NextTypes, PTL DEF Spec

-----------------------------------------------------------------------------
(***************************************************************************)
(* The address is reserved before it is recorded.                          *)
(***************************************************************************)

\* A cached reservation that is not stale is the stored one; past Reserve, the
\* address about to be recorded is reserved, unless it was judged blindly; and
\* a status is one of a record that exists.
ReserveInv ==
  /\ ~resvStale => cresv = resv
  /\ worker.pc \in {"record", "update"} /\ worker.want \in Place
       => worker.want.ip = resv \/ worker.blind
  /\ pps.state # None => pps.exists

\* What Reserve changes.
LEMMA ReserveKeeps ==
  ASSUME TypeOK, ReserveInv, Reserve
  PROVE  ReserveInv'
<1>1. worker \in Workers /\ worker.pc = "reserve" /\ UNCHANGED <<pps, cresv>>
  BY DEF Reserve, TypeOK
<1>2. CASE /\ cresv = worker.want.ip
           /\ worker' = [worker EXCEPT !.pc = "record", !.blind = resvStale]
           /\ UNCHANGED <<resv, resvStale>>
  <2>1. worker'.want = worker.want /\ worker'.blind = resvStale
    BY <1>1, <1>2 DEF Workers
  <2>2. QED
    BY <1>1, <1>2, <2>1 DEF ReserveInv, TypeOK
<1>3. CASE StoreReservation /\ Goto("record")
  <2>1. worker'.want = worker.want
    BY <1>1, <1>3 DEF Goto, Workers
  <2>2. QED
    BY <1>1, <1>3, <2>1 DEF ReserveInv, StoreReservation
<1>4. CASE /\ worker' = Idle
           /\ StoreReservation \/ UNCHANGED <<resv, resvStale>>
  BY <1>1, <1>4, BasicTypes DEF ReserveInv, StoreReservation
<1>5. QED
  BY <1>2, <1>3, <1>4 DEF Reserve, ReserveFailed, ReturnError

\* What the other steps of a reconcile change of the record.
LEMMA RecordWrites ==
  ASSUME TypeOK, Next
  PROVE  \/ UNCHANGED pps
         \/ pps' = NoRecord
         \/ ~pps.exists /\ pps' = [exists |-> TRUE, state |-> None]
         \/ UpdateRecord /\ pps.exists /\ StoreRecord
BY DEF Next, BootVmi, ReportIP, Migrate, DeleteVmi, OtherTakes, OtherReleases,
       DeletePps, handleVMI, AdmissionMissed, Admit, VmiEvent, StatefulSetEvent,
       SyncPps, SyncResv, Reconcile, Busy, Reserve, Panic, CreateRecord,
       StoreEmptyRecord, CompareRecord, UpdateRecord, Crash, Restart

\* A record that has a status exists.
LEMMA StatusOfRecord ==
  ASSUME TypeOK, ReserveInv, [Next]_vars
  PROVE  pps'.state # None => pps'.exists
<1>1. CASE UNCHANGED pps
  BY <1>1 DEF ReserveInv
<1>2. CASE pps' = NoRecord \/ pps' = [exists |-> TRUE, state |-> None]
  BY <1>2, BasicTypes
<1>3. CASE pps.exists /\ StoreRecord
  BY <1>3 DEF StoreRecord, TypeOK, Records
<1>4. QED
  BY <1>1, <1>2, <1>3, RecordWrites DEF vars

\* The worker of a step other than Reserve: as it was, idle, or at a point with
\* the same locals.
LEMMA WorkerSteps ==
  ASSUME TypeOK, [Next]_vars, ~Reserve
  PROVE  /\ UNCHANGED resv
         /\ \/ worker'.pc \notin {"record", "update"} \/ worker'.want \notin Place
            \/ /\ worker.pc \in {"record", "update"}
               /\ worker'.want = worker.want /\ worker'.blind = worker.blind
<1> DEFINE Same == /\ worker.pc \in {"record", "update"}
                   /\ worker'.want = worker.want /\ worker'.blind = worker.blind
           Out == worker'.pc \notin {"record", "update"} \/ worker'.want \notin Place
<1>1. UNCHANGED resv
  BY DEF Next, BootVmi, ReportIP, Migrate, DeleteVmi, OtherTakes, OtherReleases,
         DeletePps, handleVMI, AdmissionMissed, Admit, VmiEvent, StatefulSetEvent,
         SyncPps, SyncResv, Reconcile, Busy, Panic, CreateRecord, CompareRecord,
         UpdateRecord, Crash, Restart, vars
<1> SUFFICES Out \/ Same
  BY <1>1
<1>2. worker \in Workers
  BY DEF TypeOK
<1>3. worker' = Idle => Out
  BY BasicTypes
<1>4. UNCHANGED worker => Out \/ Same
  OBVIOUS
<1>5. ASSUME NEW key \in Keys, Reconcile(key)
      PROVE  Out
  <2>1. CASE worker' = Idle
    BY <1>3, <2>1
  <2>2. CASE Begin(key, "reserve", cvmi.place)
    BY <2>2 DEF Begin, Idle
  <2>3. CASE Begin(key, "record", Other)
    BY <2>3, VmiAssumption DEF Begin, Idle
  <2>4. QED
    BY <1>5, <2>1, <2>2, <2>3 DEF Reconcile, ReconcileVmi, ReconcileSts
<1>6. CASE Busy
  <2>1. CASE worker' = Idle
    BY <1>3, <2>1
  <2>2. CASE CompareRecord /\ Goto("update")
    BY <1>2, <2>2 DEF CompareRecord, Goto, Workers
  <2>3. CASE UpdateRecord /\ worker' = [worker EXCEPT !.tries = @ + 1]
    <3>1. worker.pc = "update"
      BY <2>3 DEF UpdateRecord
    <3>2. worker'.want = worker.want /\ worker'.blind = worker.blind
      BY <1>2, <2>3 DEF Workers
    <3>3. QED
      BY <3>1, <3>2
  <2>4. QED
    BY <1>6, <2>1, <2>2, <2>3
       DEF Busy, Panic, CreateRecord, CompareRecord, UpdateRecord, Conflict, Return,
           ReturnError
<1>7. CASE Crash
  BY <1>3, <1>7 DEF Crash
<1>8. CASE UNCHANGED worker
  BY <1>4, <1>8
<1>9. Busy \/ Crash \/ UNCHANGED worker \/ \E key \in Keys : Reconcile(key)
  BY DEF Next, BootVmi, ReportIP, Migrate, DeleteVmi, OtherTakes, OtherReleases,
         DeletePps, handleVMI, AdmissionMissed, Admit, VmiEvent, StatefulSetEvent,
         SyncPps, SyncResv, Restart, vars
<1>10. QED
  BY <1>5, <1>6, <1>7, <1>8, <1>9

\* Every step keeps the invariant.
LEMMA ReserveInvSteps ==
  ASSUME TypeOK, ReserveInv, [Next]_vars
  PROVE  ReserveInv'
<1>1. CASE Reserve
  BY <1>1, ReserveKeeps
<1>2. CASE ~Reserve
  <2>1. ~resvStale' => cresv' = resv'
    <3>1. CASE UNCHANGED <<resv, cresv, resvStale>>
      BY <3>1 DEF ReserveInv
    <3>2. CASE SyncResv \/ Restart
      BY <3>2 DEF SyncResv, Restart
    <3>3. QED
      BY <1>2, <3>1, <3>2
         DEF Next, BootVmi, ReportIP, Migrate, DeleteVmi, OtherTakes, OtherReleases,
             DeletePps, handleVMI, AdmissionMissed, Admit, VmiEvent, StatefulSetEvent,
             SyncPps, Reconcile, Busy, Panic, CreateRecord, CompareRecord,
             UpdateRecord, Crash, vars, caches
  <2>2. worker'.pc \in {"record", "update"} /\ worker'.want \in Place
          => worker'.want.ip = resv' \/ worker'.blind
    BY <1>2, WorkerSteps DEF ReserveInv
  <2>3. QED
    BY <2>1, <2>2, StatusOfRecord DEF ReserveInv
<1>3. QED
  BY <1>1, <1>2

\* The invariant holds in every state.
LEMMA ReserveInvariant == Spec => [](TypeOK /\ ReserveInv)
<1>1. Init => TypeOK /\ ReserveInv
  <2>1. Init => ReserveInv
    BY BasicTypes DEF Init, ReserveInv
  <2>2. QED
    BY <2>1, InitTypes
<1>2. TypeOK /\ ReserveInv /\ [Next]_vars => (TypeOK /\ ReserveInv)'
  BY NextTypes, ReserveInvSteps
<1>3. QED
  BY <1>1, <1>2, PTL DEF Spec

\* Reserve, then record: an address enters the VMI's record only while the
\* IPReservation holds it, or after a judgement on a stale copy of it, whatever
\* the order of failed calls, crashes and cache updates.
THEOREM ReservedBeforeRecorded == Spec => VmiReserveFirst
<1> DEFINE Kept == pps'.state \in Place /\ pps'.state # pps.state
                     => resv = pps'.state.ip \/ worker.blind
<1>1. ASSUME TypeOK, ReserveInv, [Next]_vars
      PROVE  [Kept]_vars
  <2>1. CASE UNCHANGED pps \/ UNCHANGED vars
    BY <2>1
  <2>2. CASE pps' = NoRecord \/ pps' = [exists |-> TRUE, state |-> None]
    BY <2>2, BasicTypes, VmiAssumption
  <2>3. CASE UpdateRecord /\ StoreRecord
    <3>1. worker.pc = "update"
      BY <2>3 DEF UpdateRecord
    <3>2. pps'.state = worker.want
      BY <1>1, <2>3 DEF StoreRecord, TypeOK, Records
    <3>3. QED
      BY <1>1, <3>1, <3>2 DEF ReserveInv
  <2>4. QED
    BY <1>1, <2>1, <2>2, <2>3, RecordWrites
<1>2. QED
  BY <1>1, ReserveInvariant, PTL DEF Spec, VmiReserveFirst

-----------------------------------------------------------------------------
(***************************************************************************)
(* A settled VMI stays settled.                                            *)
(***************************************************************************)

\* What Settled says of the VMI and of the other workloads.
Pinned(rec) ==
  /\ vmi.phase # "absent" => vmi.pinned /\ vmi.place = rec
  /\ rec.ip \notin others

\* What Settled says of the manager's knowledge.
Agreed(rec) ==
  /\ pps.state = rec /\ rec \in Place /\ cpps = pps
  /\ resv = rec.ip /\ cresv = rec.ip
  /\ cvmi.place \in {None, rec}
  /\ worker.want \in {None, Other, rec}

\* Settled, taken apart.
LEMMA SettledParts == Settled <=> Agreed(pps.state) /\ Pinned(pps.state)
BY DEF Settled, Agreed, Pinned

\* The cluster and the webhook put a settled VMI back where it was, and no other
\* workload gets the reserved address.
LEMMA ClusterSticks ==
  ASSUME TypeOK, NEW rec, Agreed(rec), Pinned(rec),
         BootVmi \/ ReportIP \/ Migrate \/ DeleteVmi \/ OtherTakes
           \/ OtherReleases \/ handleVMI
  PROVE  Agreed(rec)' /\ Pinned(rec)' /\ UNCHANGED pps
<1>1. UNCHANGED <<resv, pps, caches, worker>>
  BY DEF BootVmi, ReportIP, Migrate, DeleteVmi, OtherTakes, OtherReleases, handleVMI,
         Admit, caches
<1>2. Agreed(rec)'
  BY <1>1 DEF Agreed, caches
<1>3. Pinned(rec)'
  <2>1. CASE BootVmi
    BY <2>1 DEF BootVmi, Pinned, TypeOK
  <2>2. CASE ReportIP
    BY <2>2 DEF ReportIP, Pinned, TypeOK
  <2>3. CASE Migrate
    BY <2>3 DEF Migrate, Pinned
  <2>4. CASE DeleteVmi
    BY <2>4 DEF DeleteVmi, NoVmi, Pinned
  <2>5. CASE OtherTakes
    BY <2>5 DEF OtherTakes, Assignable, Pinned, Agreed
  <2>6. CASE OtherReleases
    BY <2>6 DEF OtherReleases, Pinned
  <2>7. CASE handleVMI
    <3>1. PinFor = rec /\ rec # None
      BY VmiAssumption DEF PinFor, Agreed
    <3>2. QED
      BY <2>7, <3>1 DEF handleVMI, Admit, Pinned
  <2>8. QED
    BY <2>1, <2>2, <2>3, <2>4, <2>5, <2>6, <2>7
<1>4. QED
  BY <1>1, <1>2, <1>3

\* Watches deliver what the manager already knows.
LEMMA WatchSticks ==
  ASSUME TypeOK, NEW rec, Agreed(rec), Pinned(rec),
         VmiEvent(Reported(vmi)) \/ VmiEvent(cvmi) \/ StatefulSetEvent
           \/ SyncPps \/ SyncResv \/ Restart \/ Crash \/ Panic
  PROVE  Agreed(rec)' /\ Pinned(rec)' /\ UNCHANGED pps
<1>1. UNCHANGED <<cluster, resv, pps>>
  BY DEF VmiEvent, StatefulSetEvent, SyncPps, SyncResv, Restart, Crash, Panic
<1>2. Reported(vmi).place \in {None, rec}
  BY DEF Reported, Pinned
<1>3. cvmi'.place \in {None, rec}
  BY <1>2 DEF Agreed, VmiEvent, StatefulSetEvent, SyncPps, SyncResv, Restart, Crash,
              Panic, caches
<1>4. cpps' = pps /\ cresv' = resv
  BY DEF Agreed, VmiEvent, StatefulSetEvent, SyncPps, SyncResv, Restart, Crash,
         Panic, caches
<1>5. worker'.want \in {None, Other, rec}
  BY BasicTypes DEF Agreed, VmiEvent, StatefulSetEvent, SyncPps, SyncResv, Restart,
                    Crash, Panic
<1>6. QED
  BY <1>1, <1>3, <1>4, <1>5 DEF Agreed, Pinned, cluster

\* A reconcile of any key wants what is recorded, or the namesake's status.
LEMMA ReconcileSticks ==
  ASSUME TypeOK, NEW rec, Agreed(rec), Pinned(rec), NEW key \in Keys, Reconcile(key)
  PROVE  Agreed(rec)' /\ Pinned(rec)' /\ UNCHANGED pps
<1>1. UNCHANGED <<cluster, resv, pps, caches>>
  BY DEF Reconcile
<1>2. worker'.want \in {None, Other, rec}
  <2>1. CASE worker' = Idle
    BY <2>1, BasicTypes
  <2>2. CASE Begin(key, "reserve", cvmi.place)
    BY <2>2 DEF Begin, Idle, Agreed
  <2>3. CASE Begin(key, "record", Other)
    BY <2>3 DEF Begin, Idle
  <2>4. QED
    BY <2>1, <2>2, <2>3 DEF Reconcile, ReconcileVmi, ReconcileSts
<1>3. QED
  BY <1>1, <1>2 DEF Agreed, Pinned, cluster, caches

\* The steps of a reconcile find the reservation right and the record there, and
\* write nothing else into it than the namesake's status.
LEMMA BusySticks ==
  ASSUME TypeOK, ReserveInv, NEW rec, Agreed(rec), Pinned(rec),
         Reserve \/ CreateRecord \/ CompareRecord \/ UpdateRecord,
         pps'.exists, pps'.state # Other
  PROVE  Agreed(rec)' /\ Pinned(rec)' /\ UNCHANGED pps
<1>1. UNCHANGED <<cluster, cvmi, cresv, cpps>>
  BY DEF Reserve, CreateRecord, CompareRecord, UpdateRecord, caches
<1>2. pps.exists /\ cpps.exists /\ worker \in Workers /\ rec # None /\ rec # Other
  BY VmiAssumption DEF ReserveInv, Agreed, TypeOK
<1>3. worker'.want \in {None, worker.want}
  BY <1>2, BasicTypes
     DEF Reserve, ReserveFailed, CreateRecord, CompareRecord, UpdateRecord, Conflict,
         Return, ReturnError, Goto, Workers
<1>4. UNCHANGED resv
  <2>1. CASE Reserve
    <3>1. worker.want = rec
      BY <2>1, VmiAssumption DEF Reserve, TypeOK, Agreed
    <3>2. QED
      BY <2>1, <3>1 DEF Reserve, Agreed
  <2>2. QED
    BY <2>1 DEF CreateRecord, CompareRecord, UpdateRecord
<1>5. UNCHANGED pps
  <2>1. CASE UpdateRecord /\ StoreRecord
    <3>1. worker.want # None /\ pps'.state = worker.want
      BY <2>1 DEF UpdateRecord, StoreRecord, TypeOK, Records
    <3>2. worker.want = pps.state
      BY <3>1 DEF Agreed
    <3>3. QED
      BY <2>1, <3>2 DEF StoreRecord, TypeOK, Records
  <2>2. QED
    BY <1>2, <2>1 DEF Reserve, CreateRecord, CompareRecord, UpdateRecord
<1>6. QED
  BY <1>1, <1>3, <1>4, <1>5 DEF Agreed, Pinned, cluster

\* Sticky: once the VMI, its reservation, its record and all the manager knows of
\* them agree, they agree for good, through restarts of the VMI, crashes, failed
\* calls, competing workloads and stale events, until an admission passes the
\* webhook by, the record is deleted or the namesake writes over it.
THEOREM StickyVmi == Spec => VmiSticky
<1> DEFINE Kept == Settled /\ ~AdmissionMissed /\ pps'.exists /\ pps'.state # Other
                     => Settled' /\ pps' = pps
<1>1. ASSUME TypeOK, ReserveInv, [Next]_vars
      PROVE  [Kept]_vars
  <2> SUFFICES ASSUME Next, Settled, ~AdmissionMissed, pps'.exists, pps'.state # Other
               PROVE  Settled' /\ pps' = pps
    BY <1>1
  <2>1. PICK rec : rec = pps.state
    OBVIOUS
  <2>2. Agreed(rec) /\ Pinned(rec)
    BY <2>1, SettledParts
  <2>3. ~DeletePps
    BY BasicTypes DEF DeletePps
  <2>4. Agreed(rec)' /\ Pinned(rec)' /\ UNCHANGED pps
    BY <1>1, <2>2, <2>3, ClusterSticks, WatchSticks, ReconcileSticks, BusySticks
       DEF Next, Busy
  <2>5. QED
    BY <2>1, <2>4 DEF Settled, Agreed, Pinned
<1>2. QED
  BY <1>1, ReserveInvariant, PTL DEF Spec, VmiSticky

=============================================================================
