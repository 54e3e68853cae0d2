----------------------- MODULE WebhookReadiness_proofs -----------------------
(***************************************************************************)
(* Theorems about WebhookReadiness, for every set of probes and any number *)
(* of renewals, failed calls, time-outs and crashes.                       *)
(***************************************************************************)
EXTENDS WebhookReadiness, TLAPS

PCs == {"off", "idle", "once", "load", "set", "add", "lock", "request", "setup"}

Inside == {"load", "set", "add"}

Beyond == {"lock", "request", "setup"}

\* CAs are numbered as they are issued; the file follows.
Numbered == wanted \in 1 .. events + 1 /\ file \in 0 .. wanted

\* Where main is, there is nothing to check yet, or nothing runs.
PhaseInv ==
  /\ main \in {"init", "down"} => \A c \in Callers : checks[c].pc = "off"
  /\ main = "down" => ~inited /\ sync.pc = "idle"

\* A sync that has written leaves a file; what it is about to remove is another
\* file, and was one that somebody may have read if a sync has succeeded before.
FileInv ==
  /\ inited \/ sync.pc # "idle" => file # 0
  /\ sync.pc = "remove" => file # sync.old
  /\ inited /\ sync.pc = "remove" => sync.old # 0

\* One caller at a time is inside the Once, and nobody gets past it, or sees a
\* watcher at work, before it is done.
OnceInv ==
  /\ \A c \in Callers : checks[c].pc \in Inside => once = c
  /\ \A c \in Callers : checks[c].pc \in Beyond => once = "done"
  /\ \A c \in Callers : checks[c].pc # "off" => inited
  /\ watcher.pc # "off" => inited /\ once = "done"

Inv == TypeOK /\ Numbered /\ PhaseInv /\ FileInv /\ OnceInv /\ ReloadPending

-----------------------------------------------------------------------------
(***************************************************************************)
(* Steps of one caller.                                                    *)
(***************************************************************************)

\* Names of callers are not those of the states of the Once, nor None.
LEMMA CallerNames ==
  /\ "waiter" \in Callers
  /\ \A c \in Callers : c # None /\ c # "new" /\ c # "done"
BY ReadinessAssumption DEF Callers

\* A caller goes on: nobody else moves.
LEMMA GotoStep ==
  ASSUME TypeOK, NEW c \in Callers, NEW pc \in PCs, Goto(c, pc)
  PROVE  /\ checks' \in [Callers -> [pc : PCs, got : CAs \cup {0}]]
         /\ checks'[c].pc = pc /\ checks'[c].got = checks[c].got
         /\ \A d \in Callers : d # c => checks'[d] = checks[d]
<1>1. checks \in [Callers -> [pc : PCs, got : CAs \cup {0}]]
  BY DEF TypeOK, PCs
<1>2. [checks[c] EXCEPT !.pc = pc] \in [pc : PCs, got : CAs \cup {0}]
  BY <1>1
<1>3. checks' = [checks EXCEPT ![c] = [checks[c] EXCEPT !.pc = pc]]
  BY <1>1 DEF Goto
<1>4. QED
  BY <1>1, <1>2, <1>3

\* The same, when the local copy of the CA is set too.
LEMMA SetStep ==
  ASSUME TypeOK, NEW c \in Callers, NEW pc \in PCs, NEW got \in CAs \cup {0},
         checks' = [checks EXCEPT ![c] = [pc |-> pc, got |-> got]]
  PROVE  /\ checks' \in [Callers -> [pc : PCs, got : CAs \cup {0}]]
         /\ checks'[c].pc = pc /\ checks'[c].got = got
         /\ \A d \in Callers : d # c => checks'[d] = checks[d]
<1>1. checks \in [Callers -> [pc : PCs, got : CAs \cup {0}]]
  BY DEF TypeOK, PCs
<1>2. [pc |-> pc, got |-> got] \in [pc : PCs, got : CAs \cup {0}]
  OBVIOUS
<1>3. QED
  BY <1>1, <1>2

\* Events are counted.
LEMMA EventStep ==
  ASSUME TypeOK, Numbered, Event
  PROVE  events' \in 0 .. MaxEvents /\ events' = events + 1
BY ReadinessAssumption DEF TypeOK, Event

\* Numbers that were in range stay in range.
LEMMA StillNumbered ==
  ASSUME TypeOK, Numbered, UNCHANGED <<wanted, file>>, UNCHANGED events \/ Event
  PROVE  Numbered' /\ events' \in 0 .. MaxEvents
BY EventStep DEF Numbered, TypeOK

\* The end of the process.
LEMMA ExitInv ==
  ASSUME Inv, Exit, Event \/ UNCHANGED events
  PROVE  Inv'
<1>1. Numbered' /\ events' \in 0 .. MaxEvents
  BY StillNumbered DEF Inv, Exit
<1>2. checks' \in [Callers -> [pc : PCs, got : CAs \cup {0}]]
        /\ \A c \in Callers : checks'[c].pc = "off"
  BY DEF Exit, Off, PCs
<1>3. TypeOK'
  <2>1. {wanted, file, served, client, watch}' \subseteq CAs \cup {0}
    BY DEF Exit, Inv, TypeOK
  <2>2. sync' \in [pc : {"idle", "remove", "ensure"}, old : CAs \cup {0}]
    BY DEF Exit
  <2>3. watcher' \in [pc : {"off", "wait", "load", "set"}, got : CAs \cup {0}]
    BY DEF Exit, Off
  <2>4. \A c \in Callers : lock' = c <=> checks'[c].pc = "request"
    BY <1>2, CallerNames DEF Exit
  <2>5. /\ main' \in {"init", "inited", "up", "down"} /\ inited' \in BOOLEAN
        /\ once' \in {"new", "done"} \cup Callers
        /\ {notice, started, missed}' \subseteq BOOLEAN
    BY DEF Exit
  <2>6. stuck' \in BOOLEAN
    <3>1. stuck \in BOOLEAN
      BY DEF Inv, TypeOK
    <3>2. QED
      BY <3>1, Zenon DEF Exit
  <2>7. QED
    BY <1>1, <1>2, <2>1, <2>2, <2>3, <2>4, <2>5, <2>6 DEF TypeOK, PCs
<1>4. PhaseInv'
  BY <1>2 DEF Exit, PhaseInv
<1>5. FileInv'
  BY DEF Exit, FileInv
<1>6. OnceInv'
  BY <1>2 DEF Exit, OnceInv, Inside, Beyond, Off
<1>7. ReloadPending'
  BY DEF Exit, ReloadPending, Off
<1>8. QED
  BY <1>1, <1>3, <1>4, <1>5, <1>6, <1>7 DEF Inv

\* A step of one caller, that leaves main and the certificates alone: what is left
\* to show of it.
LEMMA CallerStep ==
  ASSUME Inv, NEW c \in Callers, NEW pc \in PCs,
         checks' \in [Callers -> [pc : PCs, got : CAs \cup {0}]],
         checks'[c].pc = pc, \A d \in Callers : d # c => checks'[d] = checks[d],
         main \notin {"init", "down"}, inited,
         UNCHANGED <<main, certs, served>>, UNCHANGED events \/ Event,
         lock' = c <=> pc = "request",
         \A d \in Callers : d # c => (lock' = d <=> lock = d),
         \/ UNCHANGED once
         \/ once = "new" /\ once' = c
         \/ once = c /\ once' = "done",
         pc \in Inside => once' = c,
         pc \in Beyond => once' = "done",
         watcher'.pc # "off" => once' = "done",
         client' \in CAs \cup {0}, watch' \in CAs \cup {0},
         watcher' \in [pc : {"off", "wait", "load", "set"}, got : CAs \cup {0}],
         {notice', started', missed'} \subseteq BOOLEAN,
         ReloadPending'
  PROVE  Inv'
<1>1. TypeOK /\ Numbered /\ PhaseInv /\ FileInv /\ OnceInv
  BY DEF Inv
<1>2. Numbered' /\ events' \in 0 .. MaxEvents
  BY <1>1, StillNumbered DEF certs
<1>3. \A d \in Callers : lock' = d <=> checks'[d].pc = "request"
  BY <1>1 DEF TypeOK
<1>4. TypeOK'
  <2>1. {wanted, file, served, client, watch}' \subseteq CAs \cup {0}
    BY <1>1 DEF TypeOK, certs
  <2>2. once' \in {"new", "done"} \cup Callers
    BY <1>1 DEF TypeOK
  <2>3. {notice, started, missed}' \subseteq BOOLEAN
    OBVIOUS
  <2>4. main' \in {"init", "inited", "up", "down"}
          /\ inited' \in BOOLEAN /\ stuck' \in BOOLEAN
          /\ sync' \in [pc : {"idle", "remove", "ensure"}, old : CAs \cup {0}]
    BY <1>1 DEF TypeOK, certs
  <2>5. QED
    BY <1>2, <1>3, <2>1, <2>2, <2>3, <2>4 DEF TypeOK, PCs
<1>5. PhaseInv'
  BY <1>1 DEF PhaseInv, certs
<1>6. FileInv'
  BY <1>1 DEF FileInv, certs
<1>7. OnceInv'
  <2>1. \A d \in Callers : checks'[d].pc \in Inside => once' = d
    <3> TAKE d \in Callers
    <3>1. CASE d = c
      BY <3>1
    <3>2. CASE d # c
      BY <1>1, <3>2, CallerNames DEF OnceInv
    <3>3. QED
      BY <3>1, <3>2
  <2>2. \A d \in Callers : checks'[d].pc \in Beyond => once' = "done"
    <3> TAKE d \in Callers
    <3>1. CASE d = c
      BY <3>1
    <3>2. CASE d # c
      BY <1>1, <3>2, CallerNames DEF OnceInv
    <3>3. QED
      BY <3>1, <3>2
  <2>3. inited'
    BY DEF certs
  <2>4. QED
    BY <2>1, <2>2, <2>3 DEF OnceInv
<1>8. QED
  BY <1>2, <1>4, <1>5, <1>6, <1>7 DEF Inv

\* A caller that is somewhere in Checker: main is past Initialize.
LEMMA CallerRuns ==
  ASSUME Inv, NEW c \in Callers, checks[c].pc # "off"
  PROVE  main \notin {"init", "down"} /\ inited
BY DEF Inv, PhaseInv, OnceInv

\* What a step of one caller mostly leaves alone.
LEMMA QuietWatch ==
  ASSUME Inv, UNCHANGED <<file, sync, client, watch, notice, watcher>>,
         missed => missed'
  PROVE  ReloadPending'
BY DEF Inv, ReloadPending

\* The types that most steps leave alone.
LEMMA HealthTypes ==
  ASSUME Inv
  PROVE  /\ client \in CAs \cup {0} /\ watch \in CAs \cup {0} /\ file \in CAs \cup {0}
         /\ watcher \in [pc : {"off", "wait", "load", "set"}, got : CAs \cup {0}]
         /\ {notice, started, missed} \subseteq BOOLEAN
         /\ once \in {"new", "done"} \cup Callers
         /\ \A c \in Callers : /\ checks[c].pc \in PCs
                               /\ checks[c].got \in CAs \cup {0}
                               /\ lock = c <=> checks[c].pc = "request"
BY DEF Inv, TypeOK, PCs

\* Enter.
LEMMA EnterInv ==
  ASSUME Inv, NEW c \in Callers, Enter(c)
  PROVE  Inv'
<1>1. main \notin {"init", "down"} /\ inited
  BY CallerRuns DEF Enter
<1>2. /\ checks' \in [Callers -> [pc : PCs, got : CAs \cup {0}]]
      /\ checks'[c].pc = "once"
      /\ \A d \in Callers : d # c => checks'[d] = checks[d]
  BY GotoStep DEF Enter, Inv, PCs
<1>3. lock # c
  BY HealthTypes DEF Enter
<1>4. UNCHANGED <<main, certs, served, client, lock, once, watch, notice, watcher,
                  started, missed, events>>
  BY DEF Enter
<1>5. ReloadPending'
  BY <1>4, QuietWatch DEF certs
<1>6. watcher'.pc # "off" => once' = "done"
  BY <1>4 DEF Inv, OnceInv
<1>7. QED
  BY <1>1, <1>2, <1>3, <1>4, <1>5, <1>6, HealthTypes, CallerStep DEF PCs, Inside, Beyond

\* onceWatch.Do.
LEMMA OnceDoInv ==
  ASSUME Inv, NEW c \in Callers, OnceDo(c)
  PROVE  Inv'
<1>1. main \notin {"init", "down"} /\ inited
  BY CallerRuns DEF OnceDo
<1>2. UNCHANGED <<main, certs, served, client, lock, watch, notice, watcher, started,
                  missed, events>>
  BY DEF OnceDo
<1>3. lock # c
  BY HealthTypes DEF OnceDo
<1>4. ReloadPending'
  BY <1>2, QuietWatch DEF certs
<1>5. CASE once = "new" /\ once' = c /\ Goto(c, "load")
  <2>1. /\ checks' \in [Callers -> [pc : PCs, got : CAs \cup {0}]]
        /\ checks'[c].pc = "load"
        /\ \A d \in Callers : d # c => checks'[d] = checks[d]
    BY <1>5, GotoStep DEF Inv, PCs
  <2>2. watcher'.pc = "off"
    BY <1>2, <1>5 DEF Inv, OnceInv
  <2>3. QED
    BY <1>1, <1>2, <1>3, <1>4, <1>5, <2>1, <2>2, HealthTypes, CallerStep
       DEF PCs, Inside, Beyond
<1>6. CASE once = "done" /\ Goto(c, "lock") /\ UNCHANGED once
  <2>1. /\ checks' \in [Callers -> [pc : PCs, got : CAs \cup {0}]]
        /\ checks'[c].pc = "lock"
        /\ \A d \in Callers : d # c => checks'[d] = checks[d]
    BY <1>6, GotoStep DEF Inv, PCs
  <2>2. QED
    BY <1>1, <1>2, <1>3, <1>4, <1>6, <2>1, HealthTypes, CallerStep
       DEF PCs, Inside, Beyond
<1>7. QED
  BY <1>5, <1>6 DEF OnceDo

\* A panic ends the process, or the probe; then nobody else is inside the Once.
LEMMA PanicInv ==
  ASSUME Inv, NEW c \in Callers, Panic(c), Event \/ UNCHANGED events,
         checks[c].pc \in Inside \cup {"request"}
  PROVE  Inv'
<1>1. CASE Exit
  BY <1>1, ExitInv
<1>2. CASE c # "waiter"
  <2>1. /\ checks' = [checks EXCEPT ![c] = [pc |-> "idle", got |-> 0]]
        /\ once' = "done"
        /\ lock' = IF lock = c THEN None ELSE lock
        /\ missed' = (missed \/ client # 0)
        /\ UNCHANGED <<main, certs, served, client, watch, notice, watcher, started>>
    BY <1>2 DEF Panic
  <2>2. main \notin {"init", "down"} /\ inited
    BY CallerRuns DEF Inside
  <2>3. /\ checks' \in [Callers -> [pc : PCs, got : CAs \cup {0}]]
        /\ checks'[c].pc = "idle"
        /\ \A d \in Callers : d # c => checks'[d] = checks[d]
    BY <2>1, SetStep DEF Inv, PCs
  <2>4. once = c \/ once = "done"
    BY DEF Inv, OnceInv, Beyond
  <2>5. ReloadPending'
    BY <2>1, QuietWatch DEF certs
  <2>6. {notice', started', missed'} \subseteq BOOLEAN
    BY <2>1, HealthTypes
  <2>7. lock' # c /\ \A d \in Callers : d # c => (lock' = d <=> lock = d)
    BY <2>1, CallerNames
  <2>8. QED
    BY <2>1, <2>2, <2>3, <2>4, <2>5, <2>6, <2>7, HealthTypes, CallerStep
       DEF PCs, Inside, Beyond
<1>3. QED
  BY <1>1, <1>2 DEF Panic

\* The first read of the file.
LEMMA LoadInv ==
  ASSUME Inv, NEW c \in Callers, Load(c)
  PROVE  Inv'
<1>1. CASE Event /\ Panic(c)
  BY <1>1, PanicInv DEF Load, Inside
<1>2. CASE /\ checks' = [checks EXCEPT ![c] = [pc |-> "set", got |-> file]]
           /\ UNCHANGED <<main, certs, served, client, lock, once, watch, notice,
                          watcher, started, missed, events>>
  <2>1. main \notin {"init", "down"} /\ inited /\ once = c
    BY CallerRuns DEF Load, Inv, OnceInv, Inside
  <2>2. /\ checks' \in [Callers -> [pc : PCs, got : CAs \cup {0}]]
        /\ checks'[c].pc = "set"
        /\ \A d \in Callers : d # c => checks'[d] = checks[d]
    BY <1>2, HealthTypes, SetStep DEF Inv, PCs
  <2>3. lock # c
    BY HealthTypes DEF Load
  <2>4. ReloadPending'
    BY <1>2, QuietWatch DEF certs
  <2>5. watcher'.pc # "off" => once' = "done"
    BY <1>2 DEF Inv, OnceInv
  <2>6. QED
    BY <1>2, <2>1, <2>2, <2>3, <2>4, <2>5, HealthTypes, CallerStep
       DEF PCs, Inside, Beyond
<1>3. QED
  BY <1>1, <1>2 DEF Load

\* The first client: the watcher is not there yet.
LEMMA SetClientInv ==
  ASSUME Inv, NEW c \in Callers, SetClient(c)
  PROVE  Inv'
<1>1. main \notin {"init", "down"} /\ inited /\ once = c /\ lock # c
  BY CallerRuns, HealthTypes DEF SetClient, Inv, OnceInv, Inside
<1>2. /\ checks' \in [Callers -> [pc : PCs, got : CAs \cup {0}]]
      /\ checks'[c].pc = "add"
      /\ \A d \in Callers : d # c => checks'[d] = checks[d]
  BY GotoStep DEF SetClient, Inv, PCs
<1>3. client' = checks[c].got
      /\ UNCHANGED <<main, certs, served, lock, once, watch, notice, watcher, started,
                     missed, events>>
  BY DEF SetClient
<1>4. watcher'.pc = "off"
  BY <1>1, <1>3, CallerNames DEF Inv, OnceInv
<1>5. ReloadPending'
  BY <1>4 DEF ReloadPending
<1>6. QED
  BY <1>1, <1>2, <1>3, <1>4, <1>5, HealthTypes, CallerStep DEF PCs, Inside, Beyond

\* The first watch: if the file is still the one that was read, nothing is missed.
LEMMA AddWatchInv ==
  ASSUME Inv, NEW c \in Callers, AddWatch(c)
  PROVE  Inv'
<1>1. CASE Event /\ Panic(c)
  BY <1>1, PanicInv DEF AddWatch, Inside
<1>2. CASE /\ watch' = file
           /\ watcher' = [pc |-> "wait", got |-> 0]
           /\ missed' = (client # file)
           /\ once' = "done"
           /\ Goto(c, "lock")
           /\ UNCHANGED <<main, certs, served, client, lock, notice, started, events>>
  <2>1. main \notin {"init", "down"} /\ inited /\ once = c /\ lock # c
    BY CallerRuns, HealthTypes DEF AddWatch, Inv, OnceInv, Inside
  <2>2. /\ checks' \in [Callers -> [pc : PCs, got : CAs \cup {0}]]
        /\ checks'[c].pc = "lock"
        /\ \A d \in Callers : d # c => checks'[d] = checks[d]
    BY <1>2, GotoStep DEF Inv, PCs
  <2>3. ReloadPending'
    BY <1>2 DEF ReloadPending, certs
  <2>4. {notice', started', missed'} \subseteq BOOLEAN
    BY <1>2, HealthTypes
  <2>5. watcher' \in [pc : {"off", "wait", "load", "set"}, got : CAs \cup {0}]
    BY <1>2
  <2>6. QED
    BY <1>2, <2>1, <2>2, <2>3, <2>4, <2>5, HealthTypes, CallerStep
       DEF PCs, Inside, Beyond
<1>3. QED
  BY <1>1, <1>2 DEF AddWatch

\* The mutex is taken.
LEMMA LockInv ==
  ASSUME Inv, NEW c \in Callers, Lock(c)
  PROVE  Inv'
<1>1. main \notin {"init", "down"} /\ inited /\ once = "done"
  BY CallerRuns DEF Lock, Inv, OnceInv, Beyond
<1>2. /\ checks' \in [Callers -> [pc : PCs, got : CAs \cup {0}]]
      /\ checks'[c].pc = "request"
      /\ \A d \in Callers : d # c => checks'[d] = checks[d]
  BY GotoStep DEF Lock, Inv, PCs
<1>3. lock = None /\ lock' = c
      /\ UNCHANGED <<main, certs, served, client, once, watch, notice, watcher, started,
                     missed, events>>
  BY DEF Lock
<1>4. ReloadPending'
  BY <1>3, QuietWatch DEF certs
<1>5. \A d \in Callers : d # c => (lock' = d <=> lock = d)
  BY <1>3, CallerNames
<1>6. QED
  BY <1>1, <1>2, <1>3, <1>4, <1>5, HealthTypes, CallerStep DEF PCs, Inside, Beyond

\* The request, and the release of the mutex.
LEMMA RequestInv ==
  ASSUME Inv, NEW c \in Callers, Request(c)
  PROVE  Inv'
<1>1. CASE UNCHANGED events /\ Panic(c)
  BY <1>1, PanicInv DEF Request
<1>2. ASSUME NEW pc \in {"setup", "idle"}, Goto(c, pc), Unlock,
             UNCHANGED <<main, certs, served, client, once, watch, notice, watcher,
                         started, missed, events>>
      PROVE  Inv'
  <2>1. main \notin {"init", "down"} /\ inited /\ once = "done"
    BY CallerRuns DEF Request, Inv, OnceInv, Beyond
  <2>2. /\ checks' \in [Callers -> [pc : PCs, got : CAs \cup {0}]]
        /\ checks'[c].pc = pc
        /\ \A d \in Callers : d # c => checks'[d] = checks[d]
    BY <1>2, GotoStep DEF Inv, PCs
  <2>3. lock = c /\ lock' = None
    BY <1>2, HealthTypes DEF Request, Unlock
  <2>4. ReloadPending'
    BY <1>2, QuietWatch DEF certs
  <2>5. lock' # c /\ \A d \in Callers : d # c => (lock' = d <=> lock = d)
    BY <2>3, CallerNames
  <2>6. QED
    BY <1>2, <2>1, <2>2, <2>4, <2>5, HealthTypes, CallerStep DEF PCs, Inside, Beyond
<1>3. QED
  BY <1>1, <1>2 DEF Request

-----------------------------------------------------------------------------
(***************************************************************************)
(* Steps of main.                                                          *)
(***************************************************************************)

\* The controllers are set up, or that fails.
LEMMA SetupInv ==
  ASSUME Inv, SetupControllers
  PROVE  Inv'
<1>1. CASE Event /\ Exit
  BY <1>1, ExitInv
<1>2. CASE /\ started' = TRUE
           /\ checks' = [checks EXCEPT !["waiter"] = Off]
           /\ UNCHANGED <<main, certs, served, client, lock, once, watch, notice,
                          watcher, missed, events>>
  <2>1. main \notin {"init", "down"} /\ inited /\ lock # "waiter"
    BY CallerRuns, CallerNames, HealthTypes DEF SetupControllers
  <2>2. /\ checks' \in [Callers -> [pc : PCs, got : CAs \cup {0}]]
        /\ checks'["waiter"].pc = "off"
        /\ \A d \in Callers : d # "waiter" => checks'[d] = checks[d]
    BY <1>2, SetStep, CallerNames DEF Inv, PCs, Off
  <2>3. ReloadPending'
    BY <1>2, QuietWatch DEF certs
  <2>4. {notice', started', missed'} \subseteq BOOLEAN
    BY <1>2, HealthTypes
  <2>5. watcher'.pc # "off" => once' = "done"
    BY <1>2 DEF Inv, OnceInv
  <2>6. QED
    BY <1>2, <2>1, <2>2, <2>3, <2>4, <2>5, HealthTypes, CallerNames, CallerStep
       DEF PCs, Inside, Beyond
<1>3. QED
  BY <1>1, <1>2 DEF SetupControllers

\* Initialize returns: the waiter starts, nobody else has.
LEMMA InitializeInv ==
  ASSUME Inv, InitializeDone
  PROVE  Inv'
<1>1. /\ main' = "inited" /\ Goto("waiter", "idle") /\ inited
      /\ UNCHANGED <<certs, served, client, lock, once, watch, notice, watcher,
                     started, missed, events>>
  BY DEF InitializeDone, Goto
<1>2. \A c \in Callers : checks[c].pc = "off"
  BY DEF InitializeDone, Inv, PhaseInv
<1>3. /\ checks' \in [Callers -> [pc : PCs, got : CAs \cup {0}]]
      /\ checks'["waiter"].pc = "idle"
      /\ \A c \in Callers : c # "waiter" => checks'[c] = checks[c]
  BY <1>1, GotoStep, CallerNames DEF Inv, PCs
<1>4. \A c \in Callers : checks'[c].pc \in {"off", "idle"}
  BY <1>2, <1>3
<1>5. \A c \in Callers : lock' = c <=> checks'[c].pc = "request"
  BY <1>1, <1>2, <1>4, HealthTypes
<1>6. TypeOK'
  BY <1>1, <1>3, <1>5 DEF Inv, TypeOK, certs, PCs
<1>7. Numbered' /\ FileInv' /\ PhaseInv'
  BY <1>1 DEF Inv, Numbered, FileInv, PhaseInv, certs
<1>8. OnceInv'
  BY <1>1, <1>4 DEF Inv, OnceInv, Inside, Beyond, certs
<1>9. ReloadPending'
  BY <1>1, QuietWatch DEF certs
<1>10. QED
  BY <1>6, <1>7, <1>8, <1>9 DEF Inv

\* The servers start, and follow their certificate.
LEMMA ServerInv ==
  ASSUME Inv, mgrStart \/ ReloadServer
  PROVE  Inv'
<1>1. /\ main' = "up" /\ main \notin {"init", "down"} /\ served' = file
      /\ UNCHANGED <<certs, health, started, events>>
  BY DEF mgrStart, ReloadServer
<1>2. TypeOK'
  BY <1>1 DEF Inv, TypeOK, certs, health
<1>3. Numbered' /\ FileInv' /\ PhaseInv' /\ OnceInv'
  BY <1>1 DEF Inv, Numbered, FileInv, PhaseInv, OnceInv, certs, health
<1>4. ReloadPending'
  BY <1>1, QuietWatch DEF certs, health
<1>5. QED
  BY <1>2, <1>3, <1>4 DEF Inv

\* The container starts again.
LEMMA RestartInv ==
  ASSUME Inv, Restart
  PROVE  Inv'
<1>1. /\ main = "down" /\ main' = "init" /\ file' \in {0, file}
      /\ UNCHANGED <<wanted, sync, inited, served, health, started, events>>
  BY DEF Restart
<1>2. ~inited /\ sync.pc = "idle" /\ watcher.pc = "off"
  BY <1>1 DEF Inv, PhaseInv, OnceInv
<1>3. TypeOK'
  <2>1. stuck' \in BOOLEAN
    <3>1. stuck \in BOOLEAN
      BY DEF Inv, TypeOK
    <3>2. stuck' = FALSE \/ stuck' = stuck
      BY DEF Restart
    <3>3. QED
      BY <3>1, <3>2
  <2>2. QED
    BY <1>1, <2>1 DEF Inv, TypeOK, health
<1>4. Numbered'
  BY <1>1 DEF Inv, Numbered
<1>5. FileInv' /\ PhaseInv' /\ OnceInv'
  BY <1>1, <1>2 DEF Inv, FileInv, PhaseInv, OnceInv, health
<1>6. ReloadPending'
  BY <1>1, <1>2 DEF ReloadPending, health
<1>7. QED
  BY <1>3, <1>4, <1>5, <1>6 DEF Inv

-----------------------------------------------------------------------------
(***************************************************************************)
(* Steps of the certificate sync.                                          *)
(***************************************************************************)

\* A renewal gets the next number.
LEMMA RenewInv ==
  ASSUME Inv, Renew
  PROVE  Inv'
<1>1. /\ wanted' = wanted + 1 /\ events' = events + 1 /\ events' \in 0 .. MaxEvents
      /\ UNCHANGED <<main, file, stuck, sync, inited, served, health, started>>
  BY EventStep DEF Renew, Inv
<1>2. Numbered'
  BY <1>1 DEF Inv, Numbered, TypeOK
<1>3. wanted' \in CAs
  BY <1>1, <1>2, ReadinessAssumption DEF Numbered, CAs
<1>4. TypeOK'
  BY <1>1, <1>3 DEF Inv, TypeOK, health
<1>5. FileInv' /\ PhaseInv' /\ OnceInv'
  BY <1>1 DEF Inv, FileInv, PhaseInv, OnceInv, health
<1>6. ReloadPending'
  BY <1>1, QuietWatch DEF health
<1>7. QED
  BY <1>2, <1>4, <1>5, <1>6 DEF Inv

\* A Write that fails before the switch.
LEMMA FailedWriteInv ==
  ASSUME Inv, stuck' \in BOOLEAN, Event \/ UNCHANGED events,
         UNCHANGED <<main, wanted, file, sync, inited, served, health, started>>
  PROVE  Inv'
<1>1. Numbered' /\ events' \in 0 .. MaxEvents
  BY StillNumbered DEF Inv
<1>2. TypeOK'
  BY <1>1 DEF Inv, TypeOK, health
<1>3. FileInv' /\ PhaseInv' /\ OnceInv'
  BY DEF Inv, FileInv, PhaseInv, OnceInv, health
<1>4. ReloadPending'
  BY QuietWatch DEF health
<1>5. QED
  BY <1>1, <1>2, <1>3, <1>4 DEF Inv

\* The directory is up to date, or is switched: a watcher watches the file that
\* goes.
LEMMA SwitchInv ==
  ASSUME Inv, main # "down", sync.pc = "idle", file' = wanted,
         sync' = IF file = wanted THEN [pc |-> "ensure", old |-> 0]
                                  ELSE [pc |-> "remove", old |-> file],
         UNCHANGED <<main, wanted, stuck, inited, served, health, started, events>>
  PROVE  Inv'
<1>1. /\ main # "down" /\ sync.pc = "idle" /\ file' = wanted
      /\ sync' = IF file = wanted THEN [pc |-> "ensure", old |-> 0]
                                  ELSE [pc |-> "remove", old |-> file]
      /\ UNCHANGED <<main, wanted, stuck, inited, served, health, started, events>>
  OBVIOUS
<1>2. wanted # 0 /\ (inited => file # 0)
  BY <1>1 DEF Inv, Numbered, FileInv
<1>3. TypeOK'
  <2>1. sync' \in [pc : {"idle", "remove", "ensure"}, old : CAs \cup {0}]
    BY <1>1 DEF Inv, TypeOK
  <2>2. QED
    BY <1>1, <2>1 DEF Inv, TypeOK, health
<1>4. Numbered'
  BY <1>1 DEF Inv, Numbered
<1>5. FileInv'
  BY <1>1, <1>2 DEF FileInv
<1>6. PhaseInv' /\ OnceInv'
  BY <1>1 DEF Inv, PhaseInv, OnceInv, health
<1>7. ReloadPending'
  <2> SUFFICES ASSUME watcher.pc # "off", ~missed, ~notice
               PROVE  \/ sync'.pc = "remove" /\ watch = sync'.old
                      \/ /\ watch = file'
                         /\ watcher.pc = "wait" => client = file'
                         /\ watcher.pc = "set"  => watcher.got = file'
    BY <1>1 DEF ReloadPending, health
  <2>1. /\ watch = file
        /\ watcher.pc = "wait" => client = file
        /\ watcher.pc = "set"  => watcher.got = file
    BY <1>1 DEF Inv, ReloadPending
  <2>2. QED
    BY <1>1, <2>1
<1>8. QED
  BY <1>3, <1>4, <1>5, <1>6, <1>7 DEF Inv

\* sync up to the switch.
LEMMA WriteCertsInv ==
  ASSUME Inv, WriteCerts
  PROVE  Inv'
<1>1. stuck \in BOOLEAN
  BY DEF Inv, TypeOK
<1>2. CASE UNCHANGED <<file, sync>> /\ stuck' = TRUE /\ Event
  BY <1>2, FailedWriteInv DEF WriteCerts
<1>3. CASE UNCHANGED <<file, stuck, sync, events>>
  BY <1>1, <1>3, FailedWriteInv DEF WriteCerts
<1>4. CASE /\ file = wanted /\ sync' = [pc |-> "ensure", old |-> 0]
           /\ UNCHANGED <<file, stuck, events>>
  BY <1>4, SwitchInv DEF WriteCerts
<1>5. CASE /\ file # wanted /\ file' = wanted /\ sync' = [pc |-> "remove", old |-> file]
           /\ UNCHANGED <<stuck, events>>
  BY <1>5, SwitchInv DEF WriteCerts
<1>6. QED
  BY <1>2, <1>3, <1>4, <1>5 DEF WriteCerts

\* The old directory is removed: the watcher is told, or has missed it.
LEMMA RemoveOldInv ==
  ASSUME Inv, RemoveOld
  PROVE  Inv'
<1>1. /\ sync.pc = "remove"
      /\ sync' \in [pc : {"idle", "ensure"}, old : {0}]
      /\ FileRemoved \/ FileLeft
      /\ UNCHANGED events \/ Event
      /\ UNCHANGED <<main, wanted, file, stuck, inited, served, client, lock, once,
                     checks, watcher, started>>
  BY DEF RemoveOld
<1>2. file # 0 /\ file # sync.old /\ main # "down"
  BY <1>1 DEF Inv, FileInv, PhaseInv
<1>3. Numbered' /\ events' \in 0 .. MaxEvents
  BY <1>1, StillNumbered DEF Inv
<1>4. watch' \in CAs \cup {0} /\ {notice', started', missed'} \subseteq BOOLEAN
  BY <1>1, HealthTypes DEF FileRemoved, FileLeft
<1>5. TypeOK'
  BY <1>1, <1>3, <1>4 DEF Inv, TypeOK
<1>6. FileInv' /\ PhaseInv'
  BY <1>1, <1>2 DEF Inv, FileInv, PhaseInv
<1>7. OnceInv'
  BY <1>1 DEF Inv, OnceInv
<1>8. ReloadPending'
  <2> SUFFICES ASSUME watcher.pc # "off", ~missed'
               PROVE  \/ notice'
                      \/ /\ watch' = file
                         /\ watcher.pc = "wait" => client = file
                         /\ watcher.pc = "set"  => watcher.got = file
    BY <1>1 DEF ReloadPending
  <2>1. sync.old # 0
    BY <1>1 DEF Inv, FileInv, OnceInv
  <2>2. ~missed
    BY <1>1, HealthTypes DEF FileRemoved, FileLeft
  <2>3. CASE watch = sync.old
    BY <1>1, <2>1, <2>3 DEF FileRemoved, FileLeft
  <2>4. CASE watch # sync.old
    BY <1>1, <2>2, <2>4 DEF FileRemoved, FileLeft, Inv, ReloadPending
  <2>5. QED
    BY <2>3, <2>4
<1>9. QED
  BY <1>3, <1>5, <1>6, <1>7, <1>8 DEF Inv

\* The rest of sync.
LEMMA EnsureInv ==
  ASSUME Inv, EnsureAndInit
  PROVE  Inv'
<1>1. /\ sync.pc = "ensure" /\ sync' = [pc |-> "idle", old |-> 0]
      /\ inited' = TRUE \/ UNCHANGED inited
      /\ UNCHANGED events \/ Event
      /\ UNCHANGED <<main, wanted, file, stuck, served, health, started>>
  BY DEF EnsureAndInit
<1>2. file # 0 /\ main # "down"
  BY <1>1 DEF Inv, FileInv, PhaseInv
<1>3. Numbered' /\ events' \in 0 .. MaxEvents
  BY <1>1, StillNumbered DEF Inv
<1>4. inited' \in BOOLEAN /\ (inited => inited')
  <2>1. inited \in BOOLEAN
    BY DEF Inv, TypeOK
  <2>2. CASE inited' = TRUE
    BY <2>2
  <2>3. CASE inited' = inited
    BY <2>1, <2>3
  <2>4. QED
    BY <1>1, <2>2, <2>3
<1>5. sync' \in [pc : {"idle", "remove", "ensure"}, old : CAs \cup {0}]
  BY <1>1
<1>6. TypeOK'
  BY <1>1, <1>3, <1>4, <1>5 DEF Inv, TypeOK, health
<1>7. FileInv' /\ PhaseInv' /\ OnceInv'
  BY <1>1, <1>2, <1>4 DEF Inv, FileInv, PhaseInv, OnceInv, health
<1>8. ReloadPending'
  BY <1>1 DEF Inv, ReloadPending, health
<1>9. QED
  BY <1>3, <1>6, <1>7, <1>8 DEF Inv

-----------------------------------------------------------------------------
(***************************************************************************)
(* Steps of the watcher.                                                   *)
(***************************************************************************)

\* What is left to show of a step of the watcher.
LEMMA WatcherStep ==
  ASSUME Inv, watcher.pc # "off",
         UNCHANGED <<main, certs, served, lock, once, checks, started>>,
         UNCHANGED events \/ Event,
         client' \in CAs \cup {0}, watch' \in CAs \cup {0},
         watcher' \in [pc : {"off", "wait", "load", "set"}, got : CAs \cup {0}],
         {notice', missed'} \subseteq BOOLEAN,
         ReloadPending'
  PROVE  Inv'
<1>1. Numbered' /\ events' \in 0 .. MaxEvents
  BY StillNumbered DEF Inv, certs
<1>2. TypeOK'
  <2>1. {notice, started, missed}' \subseteq BOOLEAN
    BY HealthTypes
  <2>2. QED
    BY <1>1, <2>1 DEF Inv, TypeOK, certs
<1>3. FileInv' /\ PhaseInv'
  BY DEF Inv, FileInv, PhaseInv, certs
<1>4. OnceInv'
  BY DEF Inv, OnceInv, certs
<1>5. QED
  BY <1>1, <1>2, <1>3, <1>4 DEF Inv

\* The watcher re-adds its watch before it reads, so that what it reads is at least
\* as new as what it watches.
LEMMA WatcherInv ==
  ASSUME Inv, RemoveEvent \/ ReloadFile \/ ReloadClient
  PROVE  Inv'
<1>1. CASE RemoveEvent
  <2>1. /\ watcher.pc = "wait" /\ watcher' = [pc |-> "load", got |-> 0]
        /\ notice' = FALSE
        /\ UNCHANGED <<main, certs, served, client, lock, once, checks, started>>
    BY <1>1 DEF RemoveEvent
  <2>2. \/ watch' = file /\ UNCHANGED <<missed, events>>
        \/ Event /\ missed' = TRUE /\ UNCHANGED watch
    BY <1>1 DEF RemoveEvent, Rewatch
  <2>3. ReloadPending'
    BY <2>1, <2>2 DEF ReloadPending, certs
  <2>4. {notice', missed'} \subseteq BOOLEAN /\ watch' \in CAs \cup {0}
    BY <2>1, <2>2, HealthTypes
  <2>5. watcher' \in [pc : {"off", "wait", "load", "set"}, got : CAs \cup {0}]
    BY <2>1
  <2>6. QED
    BY <2>1, <2>2, <2>3, <2>4, <2>5, HealthTypes, WatcherStep
<1>2. CASE ReloadFile
  <2>1. /\ watcher.pc = "load"
        /\ UNCHANGED <<main, certs, served, client, lock, once, checks, watch, notice,
                       started>>
    BY <1>2 DEF ReloadFile
  <2>2. \/ watcher' = [pc |-> "set", got |-> file] /\ UNCHANGED <<missed, events>>
        \/ watcher' = [pc |-> "wait", got |-> 0] /\ Event /\ missed' = TRUE
    BY <1>2 DEF ReloadFile
  <2>3. ReloadPending'
    BY <2>1, <2>2 DEF Inv, ReloadPending, certs
  <2>4. {notice', missed'} \subseteq BOOLEAN
    BY <2>1, <2>2, HealthTypes
  <2>5. watcher' \in [pc : {"off", "wait", "load", "set"}, got : CAs \cup {0}]
    BY <2>2, HealthTypes
  <2>6. QED
    BY <2>1, <2>2, <2>3, <2>4, <2>5, HealthTypes, WatcherStep
<1>3. CASE ReloadClient
  <2>1. /\ watcher.pc = "set" /\ client' = watcher.got
        /\ watcher' = [pc |-> "wait", got |-> 0]
        /\ UNCHANGED <<main, certs, served, lock, once, checks, watch, notice, started,
                       missed, events>>
    BY <1>3 DEF ReloadClient
  <2>2. ReloadPending'
    BY <2>1 DEF Inv, ReloadPending, certs
  <2>3. watcher' \in [pc : {"off", "wait", "load", "set"}, got : CAs \cup {0}]
    BY <2>1
  <2>4. QED
    BY <2>1, <2>2, <2>3, HealthTypes, WatcherStep
<1>4. QED
  BY <1>1, <1>2, <1>3

-----------------------------------------------------------------------------
(***************************************************************************)
(* The theorems.                                                           *)
(***************************************************************************)

\* The invariant holds at the start.
LEMMA InitInv ==
  ASSUME Init
  PROVE  Inv
<1>1. checks \in [Callers -> [pc : PCs, got : CAs \cup {0}]]
      /\ \A c \in Callers : checks[c].pc = "off"
  BY DEF Init, Off, PCs
<1>2. Numbered /\ wanted \in CAs /\ events \in 0 .. MaxEvents
  BY ReadinessAssumption DEF Init, Numbered, CAs
<1>3. TypeOK
  <2>1. \A c \in Callers : lock = c <=> checks[c].pc = "request"
    BY <1>1, CallerNames DEF Init
  <2>2. sync \in [pc : {"idle", "remove", "ensure"}, old : CAs \cup {0}]
    BY DEF Init
  <2>3. watcher \in [pc : {"off", "wait", "load", "set"}, got : CAs \cup {0}]
    BY DEF Init, Off
  <2>4. QED
    BY <1>1, <1>2, <2>1, <2>2, <2>3 DEF Init, TypeOK, PCs
<1>4. PhaseInv /\ FileInv
  BY <1>1 DEF Init, PhaseInv, FileInv
<1>5. OnceInv /\ ReloadPending
  BY <1>1 DEF Init, OnceInv, ReloadPending, Inside, Beyond, Off
<1>6. QED
  BY <1>2, <1>3, <1>4, <1>5 DEF Inv

\* The invariant holds after every step.
LEMMA NextInv ==
  ASSUME Inv, [Next]_vars
  PROVE  Inv'
<1>1. CASE InitializeTimeout \/ Crash
  BY <1>1, ExitInv DEF InitializeTimeout, Crash
<1>2. CASE UNCHANGED vars
  BY <1>2 DEF vars, certs, health, Inv, TypeOK, Numbered, PhaseInv, FileInv, OnceInv,
              ReloadPending
<1>3. ASSUME NEW c \in Callers,
             \/ Enter(c) \/ OnceDo(c) \/ Load(c) \/ SetClient(c) \/ AddWatch(c)
             \/ Lock(c) \/ Request(c)
      PROVE  Inv'
  BY <1>3, EnterInv, OnceDoInv, LoadInv, SetClientInv, AddWatchInv, LockInv, RequestInv
<1>4. CASE Renew \/ SyncStep
  BY <1>4, RenewInv, WriteCertsInv, RemoveOldInv, EnsureInv DEF SyncStep
<1>5. CASE InitializeDone \/ mgrStart \/ ReloadServer \/ Restart \/ SetupControllers
  BY <1>5, InitializeInv, ServerInv, RestartInv, SetupInv
<1>6. CASE RemoveEvent \/ ReloadFile \/ ReloadClient
  BY <1>6, WatcherInv
<1>7. QED
  BY <1>1, <1>2, <1>3, <1>4, <1>5, <1>6 DEF Next

\* The invariant holds in every state.
LEMMA Invariant == Spec => []Inv
<1>1. Init => Inv
  BY InitInv
<1>2. Inv /\ [Next]_vars => Inv'
  BY NextInv
<1>3. QED
  BY <1>1, <1>2, PTL DEF Spec

\* Type correctness, and mutual exclusion: however calls of Checker, panics inside
\* the Once, crashes and reloads interleave, the mutex is held by the one caller
\* whose request is under way.
THEOREM TypeCorrect == Spec => []TypeOK
<1>1. Inv => TypeOK
  BY DEF Inv
<1>2. QED
  BY <1>1, Invariant, PTL

\* No renewal is lost on the watcher: unless a replacement was missed for good, the
\* client trusts the CA in the file, or what will reload it is on its way.
THEOREM ReloadSafe == Spec => []ReloadPending
<1>1. Inv => ReloadPending
  BY DEF Inv
<1>2. QED
  BY <1>1, Invariant, PTL

-----------------------------------------------------------------------------
(***************************************************************************)
(* The controllers come last.  What makes this inductive is that a file    *)
(* that is read after the first sync is never missing, so that no reload   *)
(* takes the CA away from a client, or the certificate from the server.    *)
(***************************************************************************)
Loaded ==
  /\ \A c \in Callers : checks[c].pc = "set" => checks[c].got # 0
  /\ watcher.pc = "set" => watcher.got # 0

LastInv == ControllersLast /\ Loaded

\* After the process has ended nothing is set up and nothing is read.
LEMMA ExitLast ==
  ASSUME Exit
  PROVE  LastInv'
BY CallerNames DEF Exit, Off, LastInv, ControllersLast, Loaded

\* A panic of one caller leaves the others, and the client, alone.
LEMMA PanicLast ==
  ASSUME Inv, LastInv, NEW c \in Callers, Panic(c)
  PROVE  LastInv'
<1>1. CASE c = "waiter"
  BY <1>1, ExitLast DEF Panic
<1>2. CASE c # "waiter"
  <2>1. /\ checks' = [checks EXCEPT ![c] = [pc |-> "idle", got |-> 0]]
        /\ UNCHANGED <<main, certs, served, client, watcher, started>>
    BY <1>2 DEF Panic
  <2>2. /\ checks'[c].pc = "idle"
        /\ \A d \in Callers : d # c => checks'[d] = checks[d]
    BY <2>1 DEF Inv, TypeOK
  <2>3. QED
    BY <1>2, <2>1, <2>2, CallerNames DEF LastInv, ControllersLast, Loaded, certs
<1>3. QED
  BY <1>1, <1>2

\* A caller that goes on, without a success that is none.
LEMMA GotoLast ==
  ASSUME Inv, LastInv, NEW c \in Callers, NEW pc \in PCs \ {"set", "setup"}, Goto(c, pc),
         UNCHANGED <<main, certs, served, client, watcher, started>>
  PROVE  LastInv'
<1>1. /\ checks'[c].pc = pc
      /\ \A d \in Callers : d # c => checks'[d] = checks[d]
  BY GotoStep DEF Inv
<1>2. QED
  BY <1>1, CallerNames DEF LastInv, ControllersLast, Loaded, certs

\* Steps of a caller of Checker.
LEMMA CallerLast ==
  ASSUME Inv, LastInv, NEW c \in Callers,
         \/ Enter(c) \/ OnceDo(c) \/ Load(c) \/ SetClient(c) \/ AddWatch(c)
         \/ Lock(c) \/ Request(c)
  PROVE  LastInv'
<1>1. CASE Enter(c) \/ OnceDo(c) \/ Lock(c)
  BY <1>1, GotoLast DEF Enter, OnceDo, Lock, PCs
<1>2. CASE Load(c)
  <2>1. CASE Panic(c)
    BY <2>1, PanicLast
  <2>2. CASE ~Panic(c)
    <3>1. /\ checks' = [checks EXCEPT ![c] = [pc |-> "set", got |-> file]]
          /\ UNCHANGED <<main, certs, served, client, watcher, started>>
          /\ checks[c].pc = "load"
      BY <1>2, <2>2 DEF Load
    <3>2. /\ checks'[c].pc = "set" /\ checks'[c].got = file
          /\ \A d \in Callers : d # c => checks'[d] = checks[d]
      BY <3>1 DEF Inv, TypeOK
    <3>3. file # 0
      BY <3>1 DEF Inv, OnceInv, FileInv
    <3>4. QED
      BY <3>1, <3>2, <3>3, CallerNames DEF LastInv, ControllersLast, Loaded, certs
  <2>3. QED
    BY <2>1, <2>2
<1>3. CASE SetClient(c)
  <2>1. client' # 0 /\ Goto(c, "add") /\ UNCHANGED <<main, certs, served, watcher, started>>
    BY <1>3 DEF SetClient, LastInv, Loaded
  <2>2. /\ checks'[c].pc = "add"
        /\ \A d \in Callers : d # c => checks'[d] = checks[d]
    BY <2>1, GotoStep DEF Inv, PCs
  <2>3. QED
    BY <2>1, <2>2, CallerNames DEF LastInv, ControllersLast, Loaded, certs
<1>4. CASE AddWatch(c)
  <2>1. CASE Panic(c)
    BY <2>1, PanicLast
  <2>2. CASE ~Panic(c)
    <3>1. /\ watcher' = [pc |-> "wait", got |-> 0] /\ Goto(c, "lock")
          /\ UNCHANGED <<main, certs, served, client, started>>
      BY <1>4, <2>2 DEF AddWatch
    <3>2. /\ checks'[c].pc = "lock"
          /\ \A d \in Callers : d # c => checks'[d] = checks[d]
      BY <3>1, GotoStep DEF Inv, PCs
    <3>3. QED
      BY <3>1, <3>2, CallerNames DEF LastInv, ControllersLast, Loaded, certs
  <2>3. QED
    BY <2>1, <2>2
<1>5. CASE Request(c)
  <2>1. CASE Panic(c)
    BY <2>1, PanicLast
  <2>2. CASE ~Panic(c)
    <3>1. /\ client # 0 /\ checks[c].pc = "request"
          /\ Goto(c, IF c = "waiter" /\ Answered THEN "setup" ELSE "idle")
          /\ UNCHANGED <<main, certs, served, client, watcher, started>>
      BY <1>5, <2>2 DEF Request
    <3>2. CASE c = "waiter" /\ Answered
      <4>1. /\ checks'[c].pc = "setup"
            /\ \A d \in Callers : d # c => checks'[d] = checks[d]
        BY <3>1, <3>2, GotoStep DEF Inv, PCs
      <4>2. main = "up" /\ inited /\ served # 0
        BY <3>1, <3>2 DEF Answered, Inv, OnceInv
      <4>3. QED
        BY <3>1, <4>1, <4>2 DEF LastInv, ControllersLast, Loaded, certs
    <3>3. CASE ~(c = "waiter" /\ Answered)
      BY <3>1, <3>3, GotoLast DEF PCs
    <3>4. QED
      BY <3>2, <3>3
  <2>3. QED
    BY <2>1, <2>2
<1>6. QED
  BY <1>1, <1>2, <1>3, <1>4, <1>5

\* Every step.
LEMMA NextLast ==
  ASSUME Inv, LastInv, [Next]_vars
  PROVE  LastInv'
<1>1. CASE InitializeTimeout \/ Crash
  BY <1>1, ExitLast DEF InitializeTimeout, Crash
<1>2. CASE UNCHANGED <<main, inited, served, client, checks, watcher, started>>
  BY <1>2 DEF LastInv, ControllersLast, Loaded
<1>3. CASE Renew \/ WriteCerts \/ RemoveOld \/ UNCHANGED vars
  BY <1>2, <1>3 DEF Renew, WriteCerts, RemoveOld, vars, certs, health
<1>4. CASE EnsureAndInit
  <2>1. /\ inited' = TRUE \/ UNCHANGED inited
        /\ UNCHANGED <<main, served, client, checks, watcher, started>>
    BY <1>4 DEF EnsureAndInit, health
  <2>2. inited => inited'
    BY <2>1
  <2>3. QED
    BY <2>1, <2>2 DEF LastInv, ControllersLast, Loaded
<1>5. CASE InitializeDone
  <2>1. Goto("waiter", "idle") /\ UNCHANGED <<certs, served, client, watcher, started>>
    BY <1>5 DEF InitializeDone, Goto
  <2>2. QED
    BY <1>5, <2>1, CallerNames, GotoStep
       DEF InitializeDone, LastInv, ControllersLast, Loaded, certs, Inv, PCs
<1>6. CASE mgrStart \/ ReloadServer
  <2>1. /\ main' = "up" /\ served' = file
        /\ UNCHANGED <<inited, client, checks, watcher, started>>
    BY <1>6 DEF mgrStart, ReloadServer, certs, health
  <2>2. inited => file # 0
    BY DEF Inv, FileInv
  <2>3. QED
    BY <2>1, <2>2 DEF LastInv, ControllersLast, Loaded
<1>7. CASE Restart
  BY <1>7 DEF Restart, health, LastInv, ControllersLast, Loaded
<1>8. CASE SetupControllers
  <2>1. CASE Exit
    BY <2>1, ExitLast
  <2>2. CASE ~Exit
    <3>1. /\ checks["waiter"].pc = "setup"
          /\ checks' = [checks EXCEPT !["waiter"] = Off]
          /\ UNCHANGED <<main, certs, served, client, watcher>>
      BY <1>8, <2>2 DEF SetupControllers
    <3>2. /\ checks'["waiter"].pc = "off"
          /\ \A d \in Callers : d # "waiter" => checks'[d] = checks[d]
      BY <3>1, CallerNames DEF Inv, TypeOK, Off
    <3>3. QED
      BY <3>1, <3>2 DEF LastInv, ControllersLast, Loaded, certs
  <2>3. QED
    BY <2>1, <2>2
<1>9. ASSUME NEW c \in Callers,
             \/ Enter(c) \/ OnceDo(c) \/ Load(c) \/ SetClient(c) \/ AddWatch(c)
             \/ Lock(c) \/ Request(c)
      PROVE  LastInv'
  BY <1>9, CallerLast
<1>10. CASE RemoveEvent
  BY <1>10 DEF RemoveEvent, certs, LastInv, ControllersLast, Loaded
<1>11. CASE ReloadFile
  <2>1. /\ watcher' \in {[pc |-> "set", got |-> file], [pc |-> "wait", got |-> 0]}
        /\ file # 0
        /\ UNCHANGED <<main, certs, served, client, checks, started>>
    BY <1>11 DEF ReloadFile, Inv, OnceInv, FileInv
  <2>2. QED
    BY <2>1 DEF LastInv, ControllersLast, Loaded, certs
<1>12. CASE ReloadClient
  BY <1>12 DEF ReloadClient, certs, LastInv, ControllersLast, Loaded
<1>13. QED
  BY <1>1, <1>3, <1>4, <1>5, <1>6, <1>7, <1>8, <1>9, <1>10, <1>11, <1>12
     DEF Next, SyncStep

\* The controllers are set up only in a process whose webhook is up and serves
\* certificates that a client could check.
THEOREM ControllersSafe == Spec => []ControllersLast
<1>1. Init => LastInv
  BY CallerNames DEF Init, Off, LastInv, ControllersLast, Loaded
<1>2. Inv /\ LastInv /\ [Next]_vars => LastInv'
  BY NextLast
<1>3. LastInv => ControllersLast
  BY DEF LastInv
<1>4. QED
  BY <1>1, <1>2, <1>3, Invariant, PTL DEF Spec

=============================================================================
