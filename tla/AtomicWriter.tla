---------------------------- MODULE AtomicWriter ----------------------------
(***************************************************************************)
(* WriteCertsToDir and atomic.Writer (internal/webhook/util/writer): the   *)
(* certificate controller's periodic sync projects the certificates into   *)
(* the webhook's certificate directory.  One step of the writer is one     *)
(* system call that changes the directory; any of them may fail, and the   *)
(* process may die before any of them and start again on what is left.     *)
(***************************************************************************)
EXTENDS Naturals, FiniteSets

CONSTANTS
  Files,      \* user-visible file names
  Data,       \* file contents
  None,
  Dirs,       \* names os.MkdirTemp may give a timestamped directory
  Payloads,   \* what Write may be asked to project
  HandMade,   \* names under which a plain file exists before the first Write
  Unreadable, \* names on which Readlink may fail while they exist
  Budget      \* TLC bound on renewals, faults and crashes

Events == {"renew", "fault", "crash"}

\* The files of a directory: None for a name it does not have.
Contents == [Files -> Data \cup {None}]

Empty == [f \in Files |-> None]

Has(content) == {f \in Files : content[f] # None}

ASSUME WriterAssumption ==
  /\ None \notin Data /\ None \notin Dirs /\ None \notin Contents
  /\ Payloads \subseteq Contents \ {Empty}
  /\ HandMade \subseteq Files /\ Unreadable \subseteq Files
  /\ Budget \in [Events -> Nat]

VARIABLES
  dirs,     \* timestamped directory -> its files, None if it does not exist
  data,     \* target of the link ..data
  tmp,      \* target of the link ..data_tmp
  links,    \* names f with a link f -> ..data/f
  plain,    \* names of plain files
  wanted,   \* the certificates EnsureCert returns now
  w,        \* the Write in progress
  budget

fs   == <<dirs, data, tmp, links, plain>>
vars == <<fs, wanted, w, budget>>

\* pc names the next numbered step of Write; todo are the files it has left.
Writes ==
  [pc : {"idle", "prepare", "mkdir", "write", "link", "tmp", "rename",
         "untmp", "rmnew", "unlink", "rmold"},
   payload : Payloads \cup {None},
   ts      : Dirs \cup {None},
   old     : Dirs \cup {None},
   remove  : SUBSET Files,
   todo    : SUBSET Files]

Idle == [pc |-> "idle", payload |-> None, ts |-> None, old |-> None,
         remove |-> {}, todo |-> {}]

Spend(event) ==
  /\ budget[event] > 0
  /\ budget' = [budget EXCEPT ![event] = @ - 1]

Init ==
  /\ dirs = [d \in Dirs |-> None]
  /\ data = None
  /\ tmp = None
  /\ links = {}
  /\ plain = HandMade
  /\ wanted \in Payloads
  /\ w = Idle
  /\ budget = Budget

-----------------------------------------------------------------------------
\* Write returns, nil or an error: sync is run again later in both cases.
Return == w' = Idle

\* A system call fails.
Fault == Spend("fault") /\ Return

Goto(pc, todo) == w' = [w EXCEPT !.pc = pc, !.todo = todo]

\* The certificates are renewed, here or by another replica.
Renew ==
  /\ \E p \in Payloads \ {wanted} : wanted' = p
  /\ Spend("renew")
  /\ UNCHANGED <<fs, w>>

\* Mutant of WriteCertsToDir: an error of EnsureCert is ignored.
WriteCertsUnchecked ==
  /\ w.pc = "idle"
  /\ \E certs \in {wanted, Empty} :
       w' = [Idle EXCEPT !.pc = "prepare", !.payload = certs, !.todo = Files]
  /\ UNCHANGED <<fs, wanted, budget>>

\* sync: EnsureCert, then WriteCertsToDir with what it returned.
WriteCertsToDir ==
  /\ w.pc = "idle"
  /\ w' = [Idle EXCEPT !.pc = "prepare", !.payload = wanted, !.todo = Files]
  /\ UNCHANGED <<fs, wanted, budget>>

\* The files behind ..data.
CurrentFiles == IF data = None THEN {} ELSE Has(dirs[data])

\* Plain files are removed, links (also dangling ones, which Stat reports as
\* missing) are kept; a failure to remove is only logged.  A link that cannot be
\* read is taken for a plain file.
prepareToWrite(f) ==
  /\ w.pc = "prepare"
  /\ f \in w.todo
  /\ w' = [w EXCEPT !.todo = @ \ {f}]
  /\ \/ plain' = plain \ {f} /\ UNCHANGED <<links, budget>>
     \/ f \in plain /\ Spend("fault") /\ UNCHANGED <<plain, links>>
     \/ /\ f \in Unreadable \cap links \cap CurrentFiles
        /\ Spend("fault")
        /\ links' = links \ {f}
        /\ UNCHANGED plain
  /\ UNCHANGED <<dirs, data, tmp, wanted>>

\* Files of the current directory that the payload does not have.
pathsToRemove == CurrentFiles \ Has(w.payload)

\* Mutant of shouldWritePayload: what is there is not compared.
shouldWriteMissing == data = None

shouldWritePayload ==
  data = None \/ \E f \in Has(w.payload) : dirs[data][f] # w.payload[f]

\* Steps 2 to 4 only read.
Inspect ==
  /\ w.pc = "prepare"
  /\ w.todo = {}
  /\ \/ /\ IF shouldWritePayload \/ pathsToRemove # {}
             THEN w' = [w EXCEPT !.pc = "mkdir", !.old = data,
                                 !.remove = pathsToRemove]
             ELSE Return
        /\ UNCHANGED budget
     \/ Fault
  /\ UNCHANGED <<fs, wanted>>

\* Mutant of newTimestampDir: the current directory is written in place.
reuseTimestampDir ==
  /\ w.pc = "mkdir"
  /\ \E d \in IF data = None THEN {e \in Dirs : dirs[e] = None} ELSE {data} :
       /\ dirs' = [dirs EXCEPT ![d] = IF d = data THEN @ ELSE Empty]
       /\ w' = [w EXCEPT !.pc = "write", !.ts = d, !.todo = Has(w.payload)]
  /\ UNCHANGED <<data, tmp, links, plain, wanted, budget>>

\* Step 5.  A Chmod that fails leaves the new directory behind.
newTimestampDir ==
  /\ w.pc = "mkdir"
  /\ \/ \E d \in {e \in Dirs : dirs[e] = None} :
          /\ dirs' = [dirs EXCEPT ![d] = Empty]
          /\ \/ /\ w' = [w EXCEPT !.pc = "write", !.ts = d, !.todo = Has(w.payload)]
                /\ UNCHANGED budget
             \/ Fault
     \/ Fault /\ UNCHANGED dirs
  /\ UNCHANGED <<data, tmp, links, plain, wanted>>

\* Step 6, one file.
writePayloadToDir(f) ==
  /\ w.pc = "write"
  /\ f \in w.todo
  /\ \/ /\ dirs' = [dirs EXCEPT ![w.ts][f] = w.payload[f]]
        /\ IF w.todo = {f} THEN Goto("link", Has(w.payload))
                           ELSE Goto("write", w.todo \ {f})
        /\ UNCHANGED budget
     \/ Fault /\ UNCHANGED dirs
  /\ UNCHANGED <<data, tmp, links, plain, wanted>>

\* Step 7, one file.  Readlink on a plain file fails with another error than
\* "does not exist", and may do so on any unreadable name: no link is made then.
createUserVisibleFiles(f) ==
  /\ w.pc = "link"
  /\ f \in w.todo
  /\ \/ /\ \/ /\ links' = IF f \in plain THEN links ELSE links \cup {f}
              /\ UNCHANGED budget
           \/ f \in Unreadable /\ Spend("fault") /\ UNCHANGED links
        /\ IF w.todo = {f} THEN Goto("tmp", {}) ELSE Goto("link", w.todo \ {f})
     \/ f \notin links \cup plain /\ Fault /\ UNCHANGED links
  /\ UNCHANGED <<dirs, data, tmp, plain, wanted>>

RemoveAll(d) == dirs' = [dirs EXCEPT ![d] = None]

\* Step 8.  A ..data_tmp that is already there makes Symlink fail.
SymlinkTmp ==
  /\ w.pc = "tmp"
  /\ \/ tmp = None /\ tmp' = w.ts /\ Goto("rename", {}) /\ UNCHANGED budget
     \/ /\ (tmp # None /\ UNCHANGED budget) \/ Spend("fault")
        /\ Goto("rmnew", {})
        /\ UNCHANGED tmp
  /\ UNCHANGED <<dirs, data, links, plain, wanted>>

\* Mutant of RenameTmp: a failed rename removes the directory only.
RenameLeavesTmp ==
  /\ w.pc = "rename"
  /\ \/ data' = tmp /\ tmp' = None /\ Goto("unlink", {}) /\ UNCHANGED budget
     \/ Spend("fault") /\ Goto("rmnew", {}) /\ UNCHANGED <<data, tmp>>
  /\ UNCHANGED <<dirs, links, plain, wanted>>

\* Step 9: the atomic switch.
RenameTmp ==
  /\ w.pc = "rename"
  /\ \/ data' = tmp /\ tmp' = None /\ Goto("unlink", {}) /\ UNCHANGED budget
     \/ Spend("fault") /\ Goto("untmp", {}) /\ UNCHANGED <<data, tmp>>
  /\ UNCHANGED <<dirs, links, plain, wanted>>

\* After a failed rename.  The error of the removal is not looked at.
RemoveTmp ==
  /\ w.pc = "untmp"
  /\ Goto("rmnew", {})
  /\ \/ tmp' = None /\ UNCHANGED budget
     \/ Spend("fault") /\ UNCHANGED tmp
  /\ UNCHANGED <<dirs, data, links, plain, wanted>>

\* Mutant of RemoveNew: the old directory is removed in place of the new one.
RemoveNewTakesOld ==
  /\ w.pc = "rmnew"
  /\ IF w.old = None THEN UNCHANGED dirs ELSE RemoveAll(w.old)
  /\ Return
  /\ UNCHANGED <<data, tmp, links, plain, wanted, budget>>

\* After a failed step 8 or 9, again whether or not the removal works.
RemoveNew ==
  /\ w.pc = "rmnew"
  /\ \/ RemoveAll(w.ts) /\ UNCHANGED budget
     \/ Spend("fault") /\ UNCHANGED dirs
  /\ Return
  /\ UNCHANGED <<data, tmp, links, plain, wanted>>

\* Step 10.  A name that cannot be removed, or is not there, is passed over, and
\* the error is returned at the end.
removeUserVisiblePaths ==
  /\ w.pc = "unlink"
  /\ \/ /\ links' = links \ w.remove
        /\ plain' = plain \ w.remove
        /\ IF w.remove \subseteq links \cup plain THEN Goto("rmold", {}) ELSE Return
        /\ UNCHANGED budget
     \/ \E f \in w.remove \cap (links \cup plain) :
          /\ links' = links \ (w.remove \ {f})
          /\ plain' = plain \ (w.remove \ {f})
          /\ Fault
  /\ UNCHANGED <<dirs, data, tmp, wanted>>

\* Mutant of RemoveOld: the old directory is removed only if links were, too.
RemoveOldWithLinks ==
  /\ w.pc = "rmold"
  /\ IF w.old = None \/ w.remove = {} THEN UNCHANGED dirs ELSE RemoveAll(w.old)
  /\ Return
  /\ UNCHANGED <<data, tmp, links, plain, wanted, budget>>

\* Step 11.
RemoveOld ==
  /\ w.pc = "rmold"
  /\ \/ /\ IF w.old = None THEN UNCHANGED dirs ELSE RemoveAll(w.old)
        /\ Return
        /\ UNCHANGED budget
     \/ w.old # None /\ Fault /\ UNCHANGED dirs
  /\ UNCHANGED <<data, tmp, links, plain, wanted>>

\* The process dies and is started again; the directory outlives it.
Crash ==
  /\ w.pc # "idle"
  /\ Spend("crash")
  /\ w' = Idle
  /\ UNCHANGED <<fs, wanted>>

WriterStep ==
  \/ WriteCertsToDir
  \/ \E f \in Files : \/ prepareToWrite(f)
                      \/ writePayloadToDir(f)
                      \/ createUserVisibleFiles(f)
  \/ Inspect
  \/ newTimestampDir
  \/ SymlinkTmp
  \/ RenameTmp
  \/ RemoveTmp
  \/ RemoveNew
  \/ removeUserVisiblePaths
  \/ RemoveOld

Next == WriterStep \/ Renew \/ Crash

Spec == Init /\ [][Next]_vars

\* The workqueue runs sync again after an error (rate limited) and after a
\* success (defaultResyncPeriod), and a started Write goes on.
FairSpec == Spec /\ WF_vars(WriterStep)

-----------------------------------------------------------------------------
TypeOK ==
  /\ dirs \in [Dirs -> Contents \cup {None}]
  /\ data \in Dirs \cup {None}
  /\ tmp \in Dirs \cup {None}
  /\ links \subseteq Files
  /\ plain \subseteq HandMade
  /\ wanted \in Payloads
  /\ w \in Writes
  /\ w.pc # "idle" => w.payload \in Payloads
  /\ budget \in [Events -> Nat]

\* What a reader of the directory finds under each name.
View == [f \in Files |->
           IF f \in links /\ data # None /\ dirs[data] # None
             THEN dirs[data][f] ELSE None]

\* Readers see the files of a payload change together, when ..data is switched,
\* and never see a part of a payload: neither the links made before the switch
\* nor the removals after it show, whatever fails and wherever the process dies.
Directory == INSTANCE AtomicDirectory
               WITH view <- View,
                    request <- IF w.pc = "idle" THEN None ELSE w.payload

AtomicUpdate == Directory!Spec

\* The link ..data never dangles and never leads to a half-written directory:
\* a Write removes the old directory only after the switch, and a failed one
\* removes only its own.
DataComplete == data # None => dirs[data] \in Payloads

Spent(event) == Budget[event] - budget[event]

\* Timestamped directories that nobody reads, writes or is going to remove.
Garbage == {d \in Dirs \ {data, w.ts, w.old} : dirs[d] # None}

\* Directories are left behind for good, but never by a Write that runs to its
\* end or finds ..data_tmp in its way: each failed call, and each crash, leaves at
\* most one, so renewals alone do not fill the volume.
GarbageBounded == Cardinality(Garbage) <= Spent("fault") + Spent("crash")

\* Once certificates are no longer renewed and system calls no longer fail, the
\* directory shows the current ones for good.
Published == <>[](View = wanted)

\* ..data_tmp is in the way of every Write to come.
Left == tmp # None /\ w.pc \notin {"rename", "untmp"}

\* It takes a crash between steps 8 and 9, or a failed rename whose clean-up fails
\* as well, to leave ..data_tmp behind: a single failed system call, at whatever
\* step, does not block the updates to come.
OneFailureNeverBlocks == Left => Spent("crash") > 0 \/ Spent("fault") > 1

Blocked == Left /\ (Spent("crash") > 0 \/ Spent("fault") > 1)

\* That is the only thing that keeps the retries of sync from delivering a
\* renewal: any other failed system call at any step and a crash anywhere else leave
\* links, directories and names from which a later Write gets through.
PublishedUnlessBlocked == Published \/ <>Blocked

\* "createUserVisibleFiles creates the relative symlinks for all the files
\* configured in the payload": a Write that returns nil, be it because no update
\* is required, leaves every file of its payload visible.
NilMeansVisible ==
  [][(Inspect \/ RemoveOld) /\ Return /\ UNCHANGED budget
       => \A f \in Has(w.payload) : View'[f] = w.payload[f]]_vars

=============================================================================
