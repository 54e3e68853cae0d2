-------------------------- MODULE WebhookReadiness --------------------------
(***************************************************************************)
(* Start-up of the manager (cmd/main.go, internal/webhook/server.go) and   *)
(* its readiness check (internal/webhook/util/health).  main waits for the *)
(* certificate sync, starts the servers, and sets the controllers up once  *)
(* a check has succeeded.  A check is an HTTPS request to the manager's    *)
(* own webhook server by a client that trusts ca-cert.pem; a watcher       *)
(* reloads the client when that file is replaced.  CAs are numbered in the *)
(* order in which they are issued; 0 is none.                              *)
(***************************************************************************)
EXTENDS Naturals

CONSTANTS
  Probes,     \* readyz requests that may be served at the same time
  None,
  MaxEvents   \* TLC bound: renewals, failed calls, time-outs and crashes

\* Who calls Checker: main's goroutine, by WaitReady, and the probe server.
Callers == {"waiter"} \cup Probes

ASSUME ReadinessAssumption ==
  /\ {"waiter", "new", "done", None} \cap Probes = {}
  /\ None \notin {"waiter"}
  /\ MaxEvents \in Nat

CAs == 1 .. MaxEvents + 1

VARIABLES
  main,     \* "init", "inited", "up": mgr.Start has been called, "down"
  wanted,   \* the CA of the certificate store
  file,     \* the CA in ca-cert.pem
  stuck,    \* does a leftover ..data_tmp make every Write fail?
  sync,     \* [pc, old] of the certificate controller
  inited,   \* is the channel of Inited() closed?
  served,   \* the CA of the certificate the webhook server presents
  client,   \* the CA the shared http.Client trusts, 0 while it is nil
  lock,     \* who holds the mutex
  once,     \* onceWatch: "new", the caller inside, or "done"
  checks,   \* caller -> [pc, got] of its call of Checker
  watch,    \* the CA whose file (inode) is watched
  notice,   \* a Remove event is in the watcher's channel
  watcher,  \* [pc, got] of watchCACert
  started,  \* are the controllers set up?
  missed,   \* history: a replacement of the file goes unnoticed
  events

certs  == <<wanted, file, stuck, sync, inited>>
health == <<client, lock, once, checks, watch, notice, watcher, missed>>
vars   == <<main, certs, served, health, started, events>>

Event == events < MaxEvents /\ events' = events + 1

Off == [pc |-> "off", got |-> 0]

Init ==
  /\ main = "init"
  /\ wanted = 1
  /\ file = 0
  /\ stuck = FALSE
  /\ sync = [pc |-> "idle", old |-> 0]
  /\ inited = FALSE
  /\ served = 0
  /\ client = 0
  /\ lock = None
  /\ once = "new"
  /\ checks = [c \in Callers |-> Off]
  /\ watch = 0
  /\ notice = FALSE
  /\ watcher = Off
  /\ started = FALSE
  /\ missed = FALSE
  /\ events = 0

\* os.Exit, a panic that nobody recovers, or a crash.  It may hit a Write between
\* the links ..data_tmp and ..data (step 8 and 9).
Exit ==
  /\ main' = "down"
  /\ stuck' \in {stuck, stuck \/ (sync.pc = "idle" /\ file # wanted)}
  /\ sync' = [pc |-> "idle", old |-> 0]
  /\ inited' = FALSE
  /\ served' = 0
  /\ client' = 0
  /\ lock' = None
  /\ once' = "new"
  /\ checks' = [c \in Callers |-> Off]
  /\ watch' = 0
  /\ notice' = FALSE
  /\ watcher' = Off
  /\ started' = FALSE
  /\ missed' = FALSE
  /\ UNCHANGED <<wanted, file>>

-----------------------------------------------------------------------------
(***************************************************************************)
(* The certificates: what CertController and AtomicWriter do, as far as    *)
(* readers of ca-cert.pem can tell.                                        *)
(***************************************************************************)
Renew ==
  /\ Event
  /\ wanted' = wanted + 1
  /\ UNCHANGED <<main, file, stuck, sync, inited, served, health, started>>

\* sync up to the atomic switch of the directory.  A Write with nothing to update
\* does not get to ..data_tmp; one whose rename and clean-up fail leaves it; and
\* one that finds it fails, to be tried again.
WriteCerts ==
  /\ main # "down"
  /\ sync.pc = "idle"
  /\ \/ /\ file = wanted
        /\ sync' = [pc |-> "ensure", old |-> 0]
        /\ UNCHANGED <<file, stuck, events>>
     \/ /\ file # wanted /\ ~stuck
        /\ file' = wanted
        /\ sync' = [pc |-> "remove", old |-> file]
        /\ UNCHANGED <<stuck, events>>
     \/ /\ file # wanted /\ ~stuck
        /\ Event
        /\ stuck' = TRUE
        /\ UNCHANGED <<file, sync>>
     \/ file # wanted /\ stuck /\ UNCHANGED <<file, stuck, sync, events>>
  /\ UNCHANGED <<main, wanted, inited, served, health, started>>

\* The replaced file is gone, which is what the watcher is told of.
FileRemoved ==
  /\ IF watch # 0 /\ watch = sync.old
       THEN watch' = 0 /\ notice' = TRUE
       ELSE UNCHANGED <<watch, notice>>
  /\ UNCHANGED missed

\* It stays, for good: no later Write looks at it.
FileLeft ==
  /\ missed' = (missed \/ (watch # 0 /\ watch = sync.old))
  /\ UNCHANGED <<watch, notice>>

\* Step 11 of Write.  RemoveAll may fail before or after it came to the file.
RemoveOld ==
  /\ sync.pc = "remove"
  /\ \/ /\ sync' = [pc |-> "ensure", old |-> 0]
        /\ FileRemoved
        /\ UNCHANGED events
     \/ /\ Event
        /\ sync' = [pc |-> "idle", old |-> 0]
        /\ FileRemoved \/ FileLeft
  /\ UNCHANGED <<main, wanted, file, stuck, inited, served, client, lock, once,
                 checks, watcher, started>>

\* The rest of sync: Ensure, and close(uninit).
EnsureAndInit ==
  /\ sync.pc = "ensure"
  /\ sync' = [pc |-> "idle", old |-> 0]
  /\ \/ inited' = TRUE /\ UNCHANGED events
     \/ Event /\ UNCHANGED inited
  /\ UNCHANGED <<main, wanted, file, stuck, served, health, started>>

-----------------------------------------------------------------------------
(***************************************************************************)
(* main.                                                                   *)
(***************************************************************************)

\* Initialize returns nil; WaitReady is started in its own goroutine.
InitializeDone ==
  /\ main = "init"
  /\ inited
  /\ main' = "inited"
  /\ checks' = [checks EXCEPT !["waiter"].pc = "idle"]
  /\ UNCHANGED <<certs, served, client, lock, once, watch, notice, watcher,
                 started, missed, events>>

\* The timer of 20 s fires; if both channels are ready, select may choose it.
InitializeTimeout ==
  /\ main = "init"
  /\ Event
  /\ Exit

\* Mutant of mgrStart: WaitReady is called, not started as a goroutine.
mgrStartWhenReady ==
  /\ main = "inited"
  /\ started
  /\ main' = "up"
  /\ served' = file
  /\ UNCHANGED <<certs, health, started, events>>

\* mgr.Start: the webhook server and the probes are served from now on.
mgrStart ==
  /\ main = "inited"
  /\ main' = "up"
  /\ served' = file
  /\ UNCHANGED <<certs, health, started, events>>

\* The server's own watch on its certificate.
ReloadServer ==
  /\ main = "up"
  /\ served # file
  /\ served' = file
  /\ UNCHANGED <<main, certs, health, started, events>>

\* The Deployment starts the container again; the directory may have survived,
\* with all that is in it.
Restart ==
  /\ main = "down"
  /\ main' = "init"
  /\ \/ file' = 0 /\ stuck' = FALSE
     \/ UNCHANGED <<file, stuck>>
  /\ UNCHANGED <<wanted, sync, inited, served, health, started, events>>

Crash == main # "down" /\ Event /\ Exit

\* After WaitReady.  SetupWithManager may fail, and it registers types in a
\* scheme that the running servers read without a lock: either ends the process.
SetupControllers ==
  /\ checks["waiter"].pc = "setup"
  /\ \/ /\ started' = TRUE
        /\ checks' = [checks EXCEPT !["waiter"] = Off]
        /\ UNCHANGED <<main, certs, served, client, lock, once, watch, notice,
                       watcher, missed, events>>
     \/ Event /\ Exit

-----------------------------------------------------------------------------
(***************************************************************************)
(* Checker.                                                                *)
(***************************************************************************)
Goto(c, pc) == checks' = [checks EXCEPT ![c].pc = pc]

\* The caller's panic: net/http recovers the probe's, nobody the goroutine's.
\* A Once that is left by a panic is done: without a watch, or without a client.
Panic(c) ==
  IF c = "waiter"
    THEN Exit
    ELSE /\ checks' = [checks EXCEPT ![c] = [pc |-> "idle", got |-> 0]]
         /\ once' = "done"
         /\ lock' = IF lock = c THEN None ELSE lock
         /\ missed' = (missed \/ client # 0)
         /\ UNCHANGED <<main, certs, served, client, watch, notice, watcher,
                        started>>

\* WaitReady goes round its loop, or a probe arrives; Inited() is tested first.
Enter(c) ==
  /\ \/ c = "waiter" /\ checks[c].pc = "idle"
     \/ c \in Probes /\ main = "up" /\ checks[c].pc \in {"off", "idle"}
  /\ inited
  /\ Goto(c, "once")
  /\ UNCHANGED <<main, certs, served, client, lock, once, watch, notice, watcher,
                 started, missed, events>>

\* onceWatch.Do: the first caller goes in, others wait until it is done.
OnceDo(c) ==
  /\ checks[c].pc = "once"
  /\ \/ once = "new" /\ once' = c /\ Goto(c, "load")
     \/ once = "done" /\ Goto(c, "lock") /\ UNCHANGED once
  /\ UNCHANGED <<main, certs, served, client, lock, watch, notice, watcher,
                 started, missed, events>>

\* loadHTTPClientWithCACert for the first time: ReadFile ...
Load(c) ==
  /\ checks[c].pc = "load"
  /\ \/ /\ checks' = [checks EXCEPT ![c] = [pc |-> "set", got |-> file]]
        /\ UNCHANGED <<main, certs, served, client, lock, once, watch, notice,
                       watcher, started, missed, events>>
     \/ Event /\ Panic(c)

\* ... and the new client.
SetClient(c) ==
  /\ checks[c].pc = "set"
  /\ lock = None
  /\ client' = checks[c].got
  /\ Goto(c, "add")
  /\ UNCHANGED <<main, certs, served, lock, once, watch, notice, watcher,
                 started, missed, events>>

\* NewWatcher and Add.  Add follows the links to the file of this moment: a
\* replacement since it was read is never noticed.  Nor is any, if Add fails.
AddWatch(c) ==
  /\ checks[c].pc = "add"
  /\ \/ /\ watch' = file
        /\ watcher' = [pc |-> "wait", got |-> 0]
        /\ missed' = (client # file)
        /\ once' = "done"
        /\ Goto(c, "lock")
        /\ UNCHANGED <<main, certs, served, client, lock, notice, started, events>>
     \/ Event /\ Panic(c)

\* Mutant of Lock: no lock.Lock() around the request.
LockFree(c) ==
  /\ checks[c].pc = "lock"
  /\ lock' = c
  /\ Goto(c, "request")
  /\ UNCHANGED <<main, certs, served, client, once, watch, notice, watcher,
                 started, missed, events>>

Lock(c) ==
  /\ checks[c].pc = "lock"
  /\ lock = None
  /\ lock' = c
  /\ Goto(c, "request")
  /\ UNCHANGED <<main, certs, served, client, once, watch, notice, watcher,
                 started, missed, events>>

\* Mutant of Answered: the error of the request is not looked at.
AnsweredAnyway == TRUE

\* The server answers, and the client trusts its certificate.
Answered == main = "up" /\ served = client

\* Mutant of Unlock: the mutex is released after a success only.
UnlockIfAnswered == lock' = IF Answered THEN None ELSE lock

Unlock == lock' = None

\* client.Do, with the mutex held; a nil client panics.
Request(c) ==
  /\ checks[c].pc = "request"
  /\ \/ client = 0 /\ UNCHANGED events /\ Panic(c)
     \/ /\ client # 0
        /\ Unlock
        /\ Goto(c, IF c = "waiter" /\ Answered THEN "setup" ELSE "idle")
        /\ UNCHANGED <<main, certs, served, client, once, watch, notice, watcher,
                       started, missed, events>>

-----------------------------------------------------------------------------
(***************************************************************************)
(* watchCACert.                                                            *)
(***************************************************************************)

\* Mutant of Rewatch: the watch is not added again.
RewatchNot == UNCHANGED <<watch, missed, events>>

\* A failed Add is only logged.
Rewatch ==
  \/ watch' = file /\ UNCHANGED <<missed, events>>
  \/ Event /\ missed' = TRUE /\ UNCHANGED watch

RemoveEvent ==
  /\ watcher.pc = "wait"
  /\ notice
  /\ notice' = FALSE
  /\ watcher' = [pc |-> "load", got |-> 0]
  /\ Rewatch
  /\ UNCHANGED <<main, certs, served, client, lock, once, checks, started>>

\* loadHTTPClientWithCACert; a failed ReadFile is only logged.
ReloadFile ==
  /\ watcher.pc = "load"
  /\ \/ watcher' = [pc |-> "set", got |-> file] /\ UNCHANGED <<missed, events>>
     \/ watcher' = [pc |-> "wait", got |-> 0] /\ Event /\ missed' = TRUE
  /\ UNCHANGED <<main, certs, served, client, lock, once, checks, watch, notice,
                 started>>

ReloadClient ==
  /\ watcher.pc = "set"
  /\ lock = None
  /\ client' = watcher.got
  /\ watcher' = [pc |-> "wait", got |-> 0]
  /\ UNCHANGED <<main, certs, served, lock, once, checks, watch, notice, started,
                 missed, events>>

-----------------------------------------------------------------------------
SyncStep == WriteCerts \/ RemoveOld \/ EnsureAndInit

Next ==
  \/ Renew \/ SyncStep
  \/ InitializeDone \/ InitializeTimeout \/ mgrStart \/ ReloadServer
  \/ Restart \/ Crash \/ SetupControllers
  \/ \E c \in Callers : \/ Enter(c) \/ OnceDo(c) \/ Load(c) \/ SetClient(c)
                        \/ AddWatch(c) \/ Lock(c) \/ Request(c)
  \/ RemoveEvent \/ ReloadFile \/ ReloadClient

Spec == Init /\ [][Next]_vars

\* Goroutines run; the workqueue syncs again and again; WaitReady has no limit;
\* sync.Mutex lets nobody starve; the webhook server answers /healthz at once and
\* follows its certificate; the Deployment restarts the container.
Fairness ==
  /\ WF_vars(SyncStep)
  /\ WF_vars(InitializeDone) /\ WF_vars(mgrStart)
  /\ WF_vars(ReloadServer) /\ WF_vars(Restart)
  /\ WF_vars(Enter("waiter")) /\ WF_vars(SetupControllers)
  /\ \A c \in Callers :
       /\ WF_vars(OnceDo(c) \/ Load(c) \/ AddWatch(c) \/ Request(c))
       /\ SF_vars(SetClient(c) \/ Lock(c))
  /\ WF_vars(RemoveEvent \/ ReloadFile)
  /\ SF_vars(ReloadClient)

FairSpec == Spec /\ Fairness

-----------------------------------------------------------------------------
\* The mutex is held by the caller whose request is under way, and by no other.
TypeOK ==
  /\ main \in {"init", "inited", "up", "down"}
  /\ {wanted, file, served, client, watch} \subseteq CAs \cup {0}
  /\ sync \in [pc : {"idle", "remove", "ensure"}, old : CAs \cup {0}]
  /\ inited \in BOOLEAN /\ stuck \in BOOLEAN
  /\ once \in {"new", "done"} \cup Callers
  /\ checks \in [Callers -> [pc  : {"off", "idle", "once", "load", "set", "add",
                                    "lock", "request", "setup"},
                             got : CAs \cup {0}]]
  /\ \A c \in Callers : lock = c <=> checks[c].pc = "request"
  /\ watcher \in [pc : {"off", "wait", "load", "set"}, got : CAs \cup {0}]
  /\ {notice, started, missed} \subseteq BOOLEAN
  /\ events \in 0 .. MaxEvents

\* No renewal is lost on the watcher: it is about to be told of the removal of
\* the file it watches, or has been told, or watches the present file and its
\* client trusts the CA in it, at the latest after the reload under way.
ReloadPending ==
  watcher.pc # "off" /\ ~missed =>
    \/ notice
    \/ sync.pc = "remove" /\ watch = sync.old
    \/ /\ watch = file
       /\ watcher.pc = "wait" => client = file
       /\ watcher.pc = "set"  => watcher.got = file

\* The controllers are set up only behind a webhook that works: certificates were
\* synced and are served, and a client had the CA to check it with, also after
\* exits and restarts, panics of probes inside the Once and a directory that is lost.
ControllersLast ==
  started \/ checks["waiter"].pc = "setup" =>
    main = "up" /\ inited /\ served # 0 /\ client # 0

\* However renewals, reloads and checks interleave, the client ends up trusting
\* the certificate that is served, and that is the renewed one unless the directory
\* is closed, except where the watcher missed a replacement (ClientFollowsFile).
TrustFollows ==
  <>[](main = "up" /\ ~missed)
    => <>[](client = file /\ served = file /\ (file = wanted \/ stuck))

\* "Only care about events which may modify the contents of the file": those are
\* watched, so that the client of a process that keeps running ends up with the CA
\* that is in the file.
ClientFollowsFile == <>[](main = "up" /\ client # 0) => <>[](client = file)

\* No call of Checker hangs: neither on the Once that another caller is in, or
\* has left by a panic, nor on the mutex that is held during requests.
ChecksEnd ==
  \A c \in Callers :
    checks[c].pc \notin {"off", "idle"} ~> checks[c].pc \in {"off", "idle"}

\* The controllers are set up in the end, whatever time-outs, failed syncs,
\* panics inside the Once and crashes came before, unless a replacement of the
\* CA was missed or a crash or failed clean-up in the middle of a Write has closed
\* a directory that outlives the process.
ControllersStart == <>[](~missed /\ ~stuck) => <>[]started

=============================================================================
