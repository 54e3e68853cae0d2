------------------------ MODULE StatefulSetReconciler ------------------------
(***************************************************************************)
(* The controller that keeps the record: event handlers, workqueue and     *)
(* Reconcile -> StatefulSetAutoGeneratePersistentPodState (package         *)
(* internal/controller/apps).  controller-runtime runs one worker          *)
(* (MaxConcurrentReconciles is left at 1); every Get and List of the       *)
(* client is served by the informer caches, every write goes to the API    *)
(* server.  One step of the worker is one API call.                        *)
(***************************************************************************)
EXTENDS ClusterState

\* "generate": the key generate#StatefulSet#<name> of the StatefulSet watch;
\* "pps": the key <name> that For(&PersistentPodState{}) produces.
Keys == {"generate", "pps"}

Idle == [pc |-> "idle", key |-> None, todo |-> NoStates,
         states |-> NoStates, tries |-> 0, late |-> FALSE, blind |-> {}]

\* The locals of the reconcile in progress: the rest of podList, the PodStates
\* built so far, and the tries of RetryOnConflict.  `late' and `blind' are
\* history: the length guard was decided on a stale copy of the record; the
\* reservations of these pods were judged right on a stale copy.
Workers ==
  [pc     : {"idle", "reserve", "update"},
   key    : Keys \cup {None},
   todo   : States,
   states : States,
   tries  : 0 .. RetrySteps,
   late   : BOOLEAN,
   blind  : SUBSET Pods]

-----------------------------------------------------------------------------
(***************************************************************************)
(* Event handlers.                                                         *)
(***************************************************************************)

\* enqueueRequestForStatefulSet.Create / .Update: the StatefulSet changed, or
\* the informer re-sent it in a resync.
StatefulSetEvent ==
  /\ up
  /\ Annotated
  /\ queue' = queue \cup {"generate"}
  /\ UNCHANGED <<cluster, stored, caches, stale, worker, up, budget>>

\* The record's own watch: the cache is refreshed and the record's key queued.
SyncPps ==
  /\ up
  /\ ppsStale
  /\ cpps' = pps
  /\ ppsStale' = FALSE
  /\ queue' = queue \cup {"pps"}
  /\ UNCHANGED <<cluster, stored, cpods, cresv, resvStale, worker, up, budget>>

-----------------------------------------------------------------------------
(***************************************************************************)
(* How a reconcile ends: with a nil error the key is forgotten, with an    *)
(* error it goes back to the queue.                                        *)
(***************************************************************************)
Return == worker' = Idle /\ UNCHANGED queue

ReturnError == worker' = Idle /\ queue' = queue \cup {worker.key}

\* The manager's API call fails although the API server is there (timeout,
\* 5xx).  Whether the write took effect is not known: `applied' says it did.
Fault(applied) == Spend("fault") /\ applied \in BOOLEAN

-----------------------------------------------------------------------------
\* Reconcile takes a key, finds the StatefulSet (no VMI has its name) and lists
\* its pods.  Pods without IP or node are passed over by the loop; with none
\* left there is nothing to record.
Reconcile(key) ==
  /\ up
  /\ worker.pc = "idle"
  /\ key \in queue
  /\ queue' = queue \ {key}
  /\ worker' = IF cpods = NoStates
                 THEN Idle
                 ELSE [Idle EXCEPT !.pc = "reserve", !.key = key, !.todo = cpods]
  /\ UNCHANGED <<cluster, stored, caches, stale, up, budget>>

\* Pod p is done: its state is part of the new record, or it was skipped
\* because its IPReservation could not be written (`continue').
Accept(p, blindly) ==
  worker' = [worker EXCEPT !.todo[p] = None,
                           !.states[p] = worker.todo[p],
                           !.blind = @ \cup blindly]

\* Mutant of Skip: the `continue' is missing.
SkipRecorded(p) == Accept(p, {})

Skip(p) == worker' = [worker EXCEPT !.todo[p] = None]

StoreReservation(p) ==
  /\ resv' = [resv EXCEPT ![p] = worker.todo[p].ip]
  /\ resvStale' = resvStale \cup {p}

\* Mutant of KeepReservation: an IPReservation that exists is an error.
RefuseReservation(p) ==
  /\ cresv[p] = worker.todo[p].ip
  /\ Skip(p)
  /\ UNCHANGED <<resv, resvStale, budget>>

\* The cached IPReservation already names the pod's address: no API call.
KeepReservation(p) ==
  /\ cresv[p] = worker.todo[p].ip
  /\ Accept(p, resvStale \cap {p})
  /\ UNCHANGED <<resv, resvStale, budget>>

\* Create or Update of the IPReservation.  A stale cache makes the API server
\* refuse it: AlreadyExists for a Create, Conflict for an Update.
PutReservation(p) ==
  /\ cresv[p] # worker.todo[p].ip
  /\ \/ p \notin resvStale /\ StoreReservation(p) /\ Accept(p, {}) /\ UNCHANGED budget
     \/ p \in resvStale /\ Skip(p) /\ UNCHANGED <<resv, resvStale, budget>>
     \/ \E applied \in BOOLEAN :
          /\ Fault(applied)
          /\ Skip(p)
          /\ IF applied /\ p \notin resvStale
               THEN StoreReservation(p)
               ELSE UNCHANGED <<resv, resvStale>>

createOrUpdateIPReservation(p) ==
  /\ up
  /\ worker.pc = "reserve"
  /\ worker.todo[p] # None
  /\ KeepReservation(p) \/ PutReservation(p)
  /\ UNCHANGED <<cluster, pps, caches, ppsStale, queue, up>>

-----------------------------------------------------------------------------
\* The loop over the pods is over.
LoopDone == up /\ worker.pc = "reserve" /\ worker.todo = NoStates

\* len(PodStates) == 0: skip.
NothingToRecord ==
  /\ LoopDone
  /\ worker.states = NoStates
  /\ Return
  /\ UNCHANGED <<cluster, stored, caches, stale, up, budget>>

\* The status subresource is enabled, so a Create stores no status.
StoreEmptyRecord ==
  /\ pps' = [exists |-> TRUE, states |-> NoStates]
  /\ ppsStale' = TRUE

\* No record in the cache: create it.  AlreadyExists counts as success.
CreateRecord ==
  /\ LoopDone
  /\ worker.states # NoStates
  /\ ~cpps.exists
  /\ \/ ~pps.exists /\ StoreEmptyRecord /\ Return /\ UNCHANGED budget
     \/ pps.exists /\ Return /\ UNCHANGED <<pps, ppsStale, budget>>
     \/ \E applied \in BOOLEAN :
          /\ Fault(applied)
          /\ ReturnError
          /\ IF applied /\ ~pps.exists
               THEN StoreEmptyRecord
               ELSE UNCHANGED <<pps, ppsStale>>
  /\ UNCHANGED <<cluster, resv, caches, resvStale, up>>

\* Mutant of WorthWriting: no length guard.
WorthWritingUnguarded == worker.states # cpps.states

\* reflect.DeepEqual on the statuses, then the length guard.
WorthWriting ==
  /\ worker.states # cpps.states
  /\ Size(worker.states) >= Size(cpps.states)

CompareRecord ==
  /\ LoopDone
  /\ worker.states # NoStates
  /\ cpps.exists
  /\ IF WorthWriting
       THEN /\ worker' = [worker EXCEPT !.pc = "update", !.late = ppsStale]
            /\ UNCHANGED queue
       ELSE Return
  /\ UNCHANGED <<cluster, stored, caches, stale, up, budget>>

-----------------------------------------------------------------------------
\* Mutant of NewStates: the new states are merged into the stored ones.
NewStatesMerged ==
  [p \in Pods |-> IF worker.states[p] = None THEN pps.states[p]
                                             ELSE worker.states[p]]

\* The status written: the whole map is replaced by the new one.
NewStates == worker.states

StoreRecord ==
  /\ pps' = [pps EXCEPT !.states = NewStates]
  /\ ppsStale' = TRUE

\* Mutant of Conflict: the tries are not limited.
ConflictForever ==
  /\ worker' = [worker EXCEPT !.tries = @ + 1]
  /\ UNCHANGED <<queue, pps, ppsStale, budget>>

\* Status().Update found the object changed since the cached copy was taken:
\* RetryOnConflict reads the cache again, until it runs out of tries.
Conflict ==
  /\ IF worker.tries + 1 < RetrySteps
       THEN worker' = [worker EXCEPT !.tries = @ + 1] /\ UNCHANGED queue
       ELSE ReturnError
  /\ UNCHANGED <<pps, ppsStale, budget>>

\* One try of the closure given to RetryOnConflict: Get from the cache, then
\* Status().Update.  Anything but a conflict ends the retries.
UpdateRecord ==
  /\ up
  /\ worker.pc = "update"
  /\ \/ /\ ~cpps.exists \/ ~pps.exists
        /\ ReturnError
        /\ UNCHANGED <<pps, ppsStale, budget>>
     \/ cpps.exists /\ pps.exists /\ ppsStale /\ Conflict
     \/ /\ cpps.exists /\ pps.exists /\ ~ppsStale
        /\ StoreRecord /\ Return /\ UNCHANGED budget
     \/ \E applied \in BOOLEAN :
          /\ cpps.exists
          /\ Fault(applied)
          /\ ReturnError
          /\ IF applied /\ pps.exists /\ ~ppsStale
               THEN StoreRecord
               ELSE UNCHANGED <<pps, ppsStale>>
  /\ UNCHANGED <<cluster, resv, caches, resvStale, up>>

WorkerStep ==
  \/ \E key \in Keys : Reconcile(key)
  \/ \E p \in Pods : createOrUpdateIPReservation(p)
  \/ NothingToRecord
  \/ CreateRecord
  \/ CompareRecord
  \/ UpdateRecord

=============================================================================
