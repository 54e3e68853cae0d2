------------------------- MODULE AtomicWriter_proofs -------------------------
(***************************************************************************)
(* Theorems about AtomicWriter, for every set of files, contents, payloads *)
(* and directory names and for any number of faults and crashes.           *)
(***************************************************************************)
EXTENDS AtomicWriter, FiniteSetTheorems, TLAPS

\* Between two Writes the locals of Write have their types.
LEMMA IdleType == Idle \in Writes /\ Idle.pc = "idle"
BY DEF Idle, Writes

\* A new timestamped directory has no files, which is not "no directory".
LEMMA EmptyType == Empty \in Contents /\ Empty # None
BY WriterAssumption DEF Empty, Contents

\* Spending an event keeps the budget a function to the naturals.
LEMMA SpendType ==
  ASSUME budget \in [Events -> Nat], NEW e \in Events, Spend(e)
  PROVE  budget' \in [Events -> Nat]
BY DEF Spend

\* What Goto does to the Write in progress, field by field.
LEMMA GotoFields ==
  ASSUME w \in Writes, NEW pc, NEW todo, Goto(pc, todo)
  PROVE  /\ w'.pc = pc /\ w'.todo = todo
         /\ w'.payload = w.payload /\ w'.ts = w.ts /\ w'.old = w.old
         /\ w'.remove = w.remove
BY DEF Goto, Writes

\* Going on to the next numbered step keeps the types of the locals.
LEMMA GotoType ==
  ASSUME w \in Writes, NEW pc \in {"write", "link", "tmp", "rename", "untmp", "rmnew",
                                     "unlink", "rmold"},
         NEW todo \in SUBSET Files, Goto(pc, todo)
  PROVE  w' \in Writes /\ w'.payload = w.payload
BY DEF Goto, Writes

\* A timestamped directory is named by the Write only while it exists.
TsOK == w.pc \in {"write", "link", "tmp", "rename", "untmp", "rmnew"}
          => w.ts \in Dirs /\ dirs[w.ts] # None

\* The directory before the first Write satisfies the types.
LEMMA InitTypes == Init => TypeOK /\ TsOK
BY IdleType, WriterAssumption DEF Init, TypeOK, TsOK

\* Every step keeps the types.
LEMMA NextTypes ==
  ASSUME TypeOK, TsOK, [Next]_vars
  PROVE  TypeOK' /\ TsOK'
<1> USE IdleType
<1>1. CASE Renew
  <2>1. budget' \in [Events -> Nat] /\ wanted' \in Payloads
    BY <1>1, SpendType DEF Renew, TypeOK, Events
  <2>2. QED
    BY <1>1, <2>1 DEF Renew, TypeOK, TsOK, fs
<1>2. CASE Crash
  <2>1. budget' \in [Events -> Nat]
    BY <1>2, SpendType DEF Crash, TypeOK, Events
  <2>2. QED
    BY <1>2, <2>1 DEF Crash, TypeOK, TsOK, fs
<1>3. CASE UNCHANGED vars
  BY <1>3 DEF vars, fs, TypeOK, TsOK
<1>4. CASE WriteCertsToDir
  <2>1. w' \in Writes /\ w'.pc = "prepare" /\ w'.payload = wanted
    BY <1>4 DEF WriteCertsToDir, Idle, Writes, TypeOK
  <2>2. QED
    BY <1>4, <2>1 DEF WriteCertsToDir, TypeOK, TsOK, fs
<1>5. ASSUME NEW f \in Files, prepareToWrite(f)
      PROVE  TypeOK' /\ TsOK'
  <2>1. budget' \in [Events -> Nat]
    BY <1>5, SpendType DEF prepareToWrite, TypeOK, Events
  <2>2. w' \in Writes /\ w'.pc = "prepare" /\ w'.payload = w.payload
    BY <1>5 DEF prepareToWrite, Writes, TypeOK
  <2>3. links' \subseteq Files /\ plain' \subseteq HandMade
    BY <1>5 DEF prepareToWrite, TypeOK
  <2>4. QED
    BY <1>5, <2>1, <2>2, <2>3 DEF prepareToWrite, TypeOK, TsOK
<1>6. CASE Inspect
  <2>1. pathsToRemove \subseteq Files
    BY DEF pathsToRemove, CurrentFiles, Has
  <2>2. w' \in Writes /\ w'.pc \in {"mkdir", "idle"}
          /\ (w'.pc # "idle" => w'.payload = w.payload)
    BY <1>6, <2>1 DEF Inspect, Fault, Return, Writes, TypeOK
  <2>3. budget' \in [Events -> Nat]
    BY <1>6, SpendType DEF Inspect, Fault, TypeOK, Events
  <2>4. QED
    BY <1>6, <2>2, <2>3 DEF Inspect, TypeOK, TsOK, fs
<1>7. CASE newTimestampDir
  <2>1. budget' \in [Events -> Nat]
    BY <1>7, SpendType DEF newTimestampDir, Fault, TypeOK, Events
  <2>2. dirs' \in [Dirs -> Contents \cup {None}]
    BY <1>7, EmptyType DEF newTimestampDir, TypeOK
  <2>3. \/ w' = Idle
        \/ /\ w' \in Writes /\ w'.pc = "write" /\ w'.payload = w.payload
           /\ w'.ts \in Dirs /\ dirs'[w'.ts] # None
    <3>1. Has(w.payload) \subseteq Files
      BY DEF Has
    <3>2. CASE w' # Idle
      <4>1. PICK d \in Dirs :
              /\ dirs' = [dirs EXCEPT ![d] = Empty]
              /\ w' = [w EXCEPT !.pc = "write", !.ts = d, !.todo = Has(w.payload)]
        BY <1>7, <3>2 DEF newTimestampDir, Fault, Return
      <4>2. QED
        BY <3>1, <4>1, EmptyType DEF TypeOK, Writes
    <3>3. QED
      BY <3>2
  <2>4. QED
    BY <1>7, <2>1, <2>2, <2>3 DEF newTimestampDir, TypeOK, TsOK
<1>8. ASSUME NEW f \in Files, writePayloadToDir(f)
      PROVE  TypeOK' /\ TsOK'
  <2>0. w.ts \in Dirs /\ dirs[w.ts] \in Contents /\ w.payload \in Contents
    BY <1>8, WriterAssumption DEF writePayloadToDir, TypeOK, TsOK
  <2>1. budget' \in [Events -> Nat]
    BY <1>8, SpendType DEF writePayloadToDir, Fault, TypeOK, Events
  <2>2. dirs' \in [Dirs -> Contents \cup {None}] /\ dirs'[w.ts] # None
    <3>1. [dirs[w.ts] EXCEPT ![f] = w.payload[f]] \in Contents
      BY <2>0 DEF Contents
    <3>2. \/ dirs' = [dirs EXCEPT ![w.ts] = [dirs[w.ts] EXCEPT ![f] = w.payload[f]]]
          \/ dirs' = dirs
      BY <1>8, <2>0 DEF writePayloadToDir, TypeOK
    <3>3. QED
      BY <1>8, <2>0, <3>1, <3>2, WriterAssumption DEF TypeOK, writePayloadToDir
  <2>3. \/ w' = Idle
        \/ w' \in Writes /\ w'.payload = w.payload /\ w'.ts = w.ts
    <3>1. Has(w.payload) \subseteq Files /\ w.todo \ {f} \subseteq Files
      BY DEF Has, TypeOK, Writes
    <3>2. QED
      BY <1>8, <3>1, GotoType, GotoFields DEF writePayloadToDir, Fault, Return, TypeOK
  <2>4. QED
    BY <1>8, <2>0, <2>1, <2>2, <2>3 DEF writePayloadToDir, TypeOK, TsOK
<1>9. ASSUME NEW f \in Files, createUserVisibleFiles(f)
      PROVE  TypeOK' /\ TsOK'
  <2>1. budget' \in [Events -> Nat]
    BY <1>9, SpendType DEF createUserVisibleFiles, Fault, TypeOK, Events
  <2>2. links' \subseteq Files
    BY <1>9 DEF createUserVisibleFiles, TypeOK
  <2>3. \/ w' = Idle
        \/ w' \in Writes /\ w'.payload = w.payload /\ w'.ts = w.ts
    <3>1. w.todo \ {f} \subseteq Files
      BY DEF TypeOK, Writes
    <3>2. QED
      BY <1>9, <3>1, GotoType, GotoFields DEF createUserVisibleFiles, Fault, Return, TypeOK
  <2>4. QED
    BY <1>9, <2>1, <2>2, <2>3 DEF createUserVisibleFiles, TypeOK, TsOK
<1>10. CASE SymlinkTmp \/ RenameTmp \/ RemoveTmp
  <2>1. budget' \in [Events -> Nat]
    BY <1>10, SpendType DEF SymlinkTmp, RenameTmp, RemoveTmp, TypeOK, Events
  <2>2. UNCHANGED dirs /\ w' \in Writes /\ w'.payload = w.payload /\ w'.ts = w.ts
    BY <1>10, GotoType, GotoFields DEF SymlinkTmp, RenameTmp, RemoveTmp, TypeOK
  <2>3. data' \in Dirs \cup {None} /\ tmp' \in Dirs \cup {None}
    BY <1>10 DEF SymlinkTmp, RenameTmp, RemoveTmp, TypeOK, TsOK
  <2>4. QED
    BY <1>10, <2>1, <2>2, <2>3 DEF SymlinkTmp, RenameTmp, RemoveTmp, TypeOK, TsOK
<1>11. CASE removeUserVisiblePaths \/ RemoveOld \/ RemoveNew
  <2>1. budget' \in [Events -> Nat]
    BY <1>11, SpendType DEF removeUserVisiblePaths, RemoveOld, RemoveNew, Fault, TypeOK, Events
  <2>2. /\ dirs' \in [Dirs -> Contents \cup {None}]
        /\ links' \subseteq Files /\ plain' \subseteq HandMade
    BY <1>11 DEF removeUserVisiblePaths, RemoveOld, RemoveNew, RemoveAll, TypeOK
  <2>3. \/ w' = Idle
        \/ w' \in Writes /\ w'.payload = w.payload /\ w'.pc = "rmold"
    BY <1>11, GotoType, GotoFields
       DEF removeUserVisiblePaths, RemoveOld, RemoveNew, Fault, Return, TypeOK
  <2>4. QED
    BY <1>11, <2>1, <2>2, <2>3
       DEF removeUserVisiblePaths, RemoveOld, RemoveNew, TypeOK, TsOK
<1>12. QED
  BY <1>1, <1>2, <1>3, <1>4, <1>5, <1>6, <1>7, <1>8, <1>9, <1>10, <1>11
     DEF Next, WriterStep

\* Type correctness of the directory and of the Write in progress.
THEOREM TypeCorrect == Spec => []TypeOK
<1>1. Init => TypeOK /\ TsOK
  BY InitTypes
<1>2. TypeOK /\ TsOK /\ [Next]_vars => (TypeOK /\ TsOK)'
  BY NextTypes
<1>3. QED
  BY <1>1, <1>2, PTL DEF Spec

-----------------------------------------------------------------------------
(***************************************************************************)
(* The inductive invariant: what each step of Write may rely on.  The new  *)
(* directory is never the current one before the switch and is complete    *)
(* when the links are made; the old one is never the current one after it. *)
(***************************************************************************)

\* Nothing stands in the way of the links: no plain files, and links that exist
\* can be read.
Orderly == HandMade = {} /\ Unreadable = {}

\* In an orderly directory the names in S are links.
Linked(S) == Orderly => S \subseteq links

WriterInv ==
  /\ DataComplete
  /\ data # None => Linked(Has(dirs[data]))
  /\ w.pc # "idle" => w.remove \cap Has(w.payload) = {}
  /\ w.pc \in {"mkdir", "write", "link", "tmp", "rename", "untmp", "rmnew"} => w.old = data
  /\ w.pc \in {"write", "link", "tmp", "rename", "untmp", "rmnew"} => w.ts # data
  /\ w.pc = "write" =>
       /\ w.todo \subseteq Has(w.payload)
       /\ dirs[w.ts] = [f \in Files |-> IF f \in w.todo THEN None ELSE w.payload[f]]
  /\ w.pc = "link" =>
       dirs[w.ts] = w.payload /\ Linked(Has(w.payload) \ w.todo)
  /\ w.pc \in {"tmp", "rename"} =>
       dirs[w.ts] = w.payload /\ Linked(Has(w.payload))
  /\ w.pc = "rename" => tmp = w.ts
  /\ w.pc \in {"mkdir", "write", "link", "tmp", "rename", "unlink"} => Linked(w.remove)
  /\ w.pc \in {"unlink", "rmold"} =>
       data = w.ts /\ data # None /\ dirs[data] = w.payload /\ w.old # data

\* The part of the invariant that is left when no Write is in progress.
LEMMA IdleInv ==
  ASSUME DataComplete, data # None => Linked(Has(dirs[data])), w.pc = "idle"
  PROVE  WriterInv
BY DEF WriterInv

\* A Write that ends without having touched ..data, the links or the current
\* directory leaves the invariant true.
LEMMA AbortInv ==
  ASSUME TypeOK, WriterInv, w' = Idle, data' = data, links \subseteq links',
         data # None => dirs'[data] = dirs[data]
  PROVE  WriterInv'
BY IdleType DEF WriterInv, DataComplete, Linked, Idle

\* WriterInv holds before the first Write.
LEMMA InitInv == Init => WriterInv
BY DEF Init, WriterInv, DataComplete, Idle

\* WriterInv is kept by every system call of Write, by a failure of any of
\* them and by a crash before any of them.
LEMMA NextInv ==
  ASSUME TypeOK, TsOK, WriterInv, [Next]_vars
  PROVE  WriterInv'
<1>1. CASE Renew \/ UNCHANGED vars
  BY <1>1 DEF Renew, vars, fs, WriterInv, DataComplete, Linked
<1>2. CASE Crash
  BY <1>2, AbortInv DEF Crash, fs
<1>3. CASE WriteCertsToDir
  <2>1. w'.pc = "prepare" /\ w'.remove = {} /\ UNCHANGED fs
    BY <1>3 DEF WriteCertsToDir, Idle
  <2>2. QED
    BY <2>1 DEF WriterInv, DataComplete, Linked, fs
<1>4. ASSUME NEW f \in Files, prepareToWrite(f)
      PROVE  WriterInv'
  <2>1. /\ w'.pc = "prepare" /\ w'.payload = w.payload /\ w'.remove = w.remove
        /\ w.pc = "prepare"
        /\ UNCHANGED <<dirs, data, tmp>>
        /\ Orderly => UNCHANGED links
    BY <1>4 DEF prepareToWrite, TypeOK, Writes, Orderly
  <2>2. QED
    BY <2>1 DEF WriterInv, DataComplete, Linked
<1>5. CASE Inspect
  <2>1. CASE w' = Idle
    BY <1>5, <2>1, AbortInv DEF Inspect, fs
  <2>2. CASE w' = [w EXCEPT !.pc = "mkdir", !.old = data, !.remove = pathsToRemove]
    <3>1. /\ w'.pc = "mkdir" /\ w'.old = data /\ w'.remove = pathsToRemove
          /\ w'.payload = w.payload /\ UNCHANGED fs
      BY <1>5, <2>2 DEF Inspect, TypeOK, Writes
    <3>2. pathsToRemove \cap Has(w.payload) = {} /\ Linked(pathsToRemove)
      BY DEF pathsToRemove, CurrentFiles, WriterInv, Linked
    <3>3. QED
      BY <3>1, <3>2 DEF WriterInv, DataComplete, Linked, fs
  <2>3. QED
    BY <1>5, <2>1, <2>2 DEF Inspect, Fault, Return
<1>6. CASE newTimestampDir
  <2>1. CASE w' = Idle
    <3>1. data # None => dirs'[data] = dirs[data]
      BY <1>6, WriterAssumption DEF newTimestampDir, WriterInv, DataComplete, TypeOK
    <3>2. QED
      BY <1>6, <2>1, <3>1, AbortInv DEF newTimestampDir
  <2>2. CASE w' # Idle
    <3>1. PICK d \in Dirs :
            /\ dirs[d] = None
            /\ dirs' = [dirs EXCEPT ![d] = Empty]
            /\ w' = [w EXCEPT !.pc = "write", !.ts = d, !.todo = Has(w.payload)]
      BY <1>6, <2>2 DEF newTimestampDir, Fault, Return
    <3>2. d # data
      BY <3>1, WriterAssumption DEF WriterInv, DataComplete
    <3>3. dirs'[d] = [f \in Files |-> IF f \in Has(w.payload) THEN None ELSE w.payload[f]]
      BY <3>1 DEF TypeOK, Empty, Has
    <3>4. /\ w'.pc = "write" /\ w'.ts = d /\ w'.todo = Has(w.payload)
          /\ w'.payload = w.payload /\ w'.old = w.old /\ w'.remove = w.remove
      BY <3>1 DEF TypeOK, Writes
    <3>5. data # None => dirs'[data] = dirs[data]
      BY <3>1, <3>2 DEF TypeOK
    <3>6. UNCHANGED <<data, links>> /\ w.pc = "mkdir"
      BY <1>6 DEF newTimestampDir
    <3>7. QED
      BY <3>2, <3>3, <3>4, <3>5, <3>6 DEF WriterInv, DataComplete, Linked
  <2>3. QED
    BY <2>1, <2>2
<1>7. ASSUME NEW f \in Files, writePayloadToDir(f)
      PROVE  WriterInv'
  <2>1. CASE w' = Idle /\ dirs' = dirs
    BY <1>7, <2>1, AbortInv DEF writePayloadToDir
  <2>2. CASE /\ dirs' = [dirs EXCEPT ![w.ts][f] = w.payload[f]]
             /\ IF w.todo = {f} THEN Goto("link", Has(w.payload))
                                ELSE Goto("write", w.todo \ {f})
    <3>1. /\ w.pc = "write" /\ w.ts \in Dirs /\ w.ts # data
          /\ UNCHANGED <<data, links>>
      BY <1>7 DEF writePayloadToDir, TsOK, WriterInv
    <3>2. data # None => dirs'[data] = dirs[data]
      BY <2>2, <3>1 DEF TypeOK
    <3>3. /\ w.payload \in Contents
          /\ w.todo \subseteq Has(w.payload)
          /\ dirs[w.ts] = [g \in Files |-> IF g \in w.todo THEN None ELSE w.payload[g]]
      BY <3>1, WriterAssumption DEF WriterInv, TypeOK
    <3>4. dirs'[w.ts] = [dirs[w.ts] EXCEPT ![f] = w.payload[f]]
      BY <2>2, <3>1 DEF TypeOK
    <3>5. dirs'[w.ts] = [g \in Files |-> IF g \in w.todo \ {f} THEN None ELSE w.payload[g]]
      BY <3>3, <3>4
    <3>6. /\ w'.payload = w.payload /\ w'.ts = w.ts /\ w'.old = w.old
          /\ w'.remove = w.remove
          /\ \/ w.todo = {f} /\ w'.pc = "link" /\ w'.todo = Has(w.payload)
             \/ w'.pc = "write" /\ w'.todo = w.todo \ {f}
      BY <2>2, GotoFields DEF TypeOK
    <3>7. w.todo = {f} => dirs'[w.ts] = w.payload
      BY <3>3, <3>5 DEF Contents
    <3>8. QED
      BY <3>1, <3>2, <3>3, <3>5, <3>6, <3>7 DEF WriterInv, DataComplete, Linked
  <2>3. QED
    BY <1>7, <2>1, <2>2 DEF writePayloadToDir, Fault, Return
<1>8. ASSUME NEW f \in Files, createUserVisibleFiles(f)
      PROVE  WriterInv'
  <2>1. CASE w' = Idle
    BY <1>8, <2>1, AbortInv DEF createUserVisibleFiles
  <2>2. CASE w' # Idle
    <3>1. /\ w.pc = "link" /\ UNCHANGED <<data, dirs>>
          /\ links \subseteq links'
          /\ Orderly => f \in links'
      BY <1>8, <2>2 DEF createUserVisibleFiles, Fault, Return, TypeOK, Orderly
    <3>2. /\ w'.payload = w.payload /\ w'.ts = w.ts /\ w'.old = w.old
          /\ w'.remove = w.remove
          /\ \/ w.todo = {f} /\ w'.pc = "tmp"
             \/ w'.pc = "link" /\ w'.todo = w.todo \ {f}
      BY <1>8, <2>2, GotoFields DEF createUserVisibleFiles, Fault, Return, TypeOK
    <3>3. QED
      BY <3>1, <3>2 DEF WriterInv, DataComplete, Linked
  <2>3. QED
    BY <2>1, <2>2
<1>9. CASE SymlinkTmp \/ RemoveTmp
  <2>1. /\ w.pc \in {"tmp", "untmp"} /\ UNCHANGED <<data, links, dirs>>
        /\ \/ w.pc = "tmp" /\ w'.pc = "rename" /\ tmp' = w.ts
           \/ w'.pc = "rmnew"
        /\ w'.payload = w.payload /\ w'.ts = w.ts
        /\ w'.old = w.old /\ w'.remove = w.remove
    BY <1>9, GotoFields DEF SymlinkTmp, RemoveTmp, TypeOK
  <2>2. QED
    BY <2>1 DEF WriterInv, DataComplete, Linked
<1>10. CASE RenameTmp
  <2>1. /\ w.pc = "rename" /\ w.ts \in Dirs /\ w.ts # data /\ tmp = w.ts
        /\ w.payload \in Payloads /\ UNCHANGED <<links, dirs>>
    BY <1>10 DEF RenameTmp, TsOK, WriterInv, TypeOK
  <2>2. /\ \/ w'.pc = "unlink" /\ data' = w.ts
           \/ w'.pc = "untmp" /\ data' = data
        /\ w'.payload = w.payload /\ w'.ts = w.ts
        /\ w'.old = w.old /\ w'.remove = w.remove
    BY <1>10, <2>1, GotoFields DEF RenameTmp, TypeOK
  <2>3. QED
    BY <2>1, <2>2, WriterAssumption DEF WriterInv, DataComplete, Linked
<1>11. CASE removeUserVisiblePaths
  <2>1. /\ w.pc = "unlink" /\ UNCHANGED <<data, dirs>>
        /\ links \ w.remove \subseteq links'
        /\ \/ w' = Idle
           \/ /\ w'.pc = "rmold" /\ w'.payload = w.payload /\ w'.ts = w.ts
              /\ w'.old = w.old /\ w'.remove = w.remove
    BY <1>11, GotoFields DEF removeUserVisiblePaths, Fault, Return, TypeOK
  <2>2. QED
    BY <2>1, IdleType DEF WriterInv, DataComplete, Linked
<1>12. CASE RemoveOld \/ RemoveNew
  <2>1. /\ w' = Idle /\ UNCHANGED <<data, links>>
        /\ data # None => dirs'[data] = dirs[data]
    BY <1>12 DEF RemoveOld, RemoveNew, RemoveAll, Fault, Return, WriterInv, TypeOK
  <2>2. QED
    BY <2>1, AbortInv
<1>13. QED
  BY <1>1, <1>2, <1>3, <1>4, <1>5, <1>6, <1>7, <1>8, <1>9, <1>10, <1>11, <1>12
     DEF Next, WriterStep

\* The current directory is never missing and never incomplete, whatever fails
\* and wherever the process dies.
THEOREM DataSafe == Spec => []DataComplete
<1>1. Init => TypeOK /\ TsOK /\ WriterInv
  BY InitTypes, InitInv
<1>2. TypeOK /\ TsOK /\ WriterInv /\ [Next]_vars => (TypeOK /\ TsOK /\ WriterInv)'
  BY NextTypes, NextInv
<1>3. WriterInv => DataComplete
  BY DEF WriterInv
<1>4. QED
  BY <1>1, <1>2, <1>3, PTL DEF Spec

-----------------------------------------------------------------------------
(***************************************************************************)
(* Readers see atomic updates.  In an orderly directory, what they see is  *)
(* exactly the current directory, so that it changes with the link ..data  *)
(* and with nothing else.                                                  *)
(***************************************************************************)
Current == IF data = None THEN Empty ELSE dirs[data]

\* In an orderly directory, what a reader finds is the content of the directory
\* ..data leads to: no name of it lacks its link.
LEMMA ViewIsCurrent ==
  ASSUME Orderly, TypeOK, WriterInv
  PROVE  View = Current
<1>1. CASE data = None
  BY <1>1 DEF View, Current, Empty
<1>2. CASE data # None
  <2>1. /\ dirs[data] \in Contents /\ dirs[data] # None
        /\ \A f \in Files : dirs[data][f] # None => f \in links
    BY <1>2, WriterAssumption DEF WriterInv, DataComplete, Linked, Has
  <2>2. \A f \in Files : View[f] = dirs[data][f]
    BY <1>2, <2>1 DEF View
  <2>3. View = [f \in Files |-> dirs[data][f]]
    BY <2>2 DEF View
  <2>4. QED
    BY <1>2, <2>1, <2>3 DEF Current, Contents
<1>3. QED
  BY <1>1, <1>2

\* Only the switch changes the current directory.
LEMMA CurrentStep ==
  ASSUME TypeOK, TsOK, WriterInv, [Next]_vars
  PROVE  \/ Current' = Current
         \/ w.pc = "rename" /\ w'.pc = "unlink" /\ Current' = w.payload
<1>1. CASE UNCHANGED <<dirs, data>>
  BY <1>1 DEF Current
<1>2. CASE newTimestampDir
  BY <1>2, WriterAssumption DEF newTimestampDir, Current, WriterInv, DataComplete, TypeOK
<1>3. ASSUME NEW f \in Files, writePayloadToDir(f)
      PROVE  Current' = Current
  BY <1>3 DEF writePayloadToDir, Current, WriterInv, TsOK, TypeOK
<1>4. CASE RenameTmp
  <2>1. /\ w.pc = "rename" /\ w.ts \in Dirs /\ w.ts # data /\ tmp = w.ts
        /\ dirs[w.ts] = w.payload /\ UNCHANGED dirs
    BY <1>4 DEF RenameTmp, WriterInv, TsOK
  <2>2. CASE data' = tmp /\ Goto("unlink", {})
    BY <2>1, <2>2, GotoFields, WriterAssumption DEF Current, TypeOK
  <2>3. CASE UNCHANGED data
    BY <1>1, <2>1, <2>3
  <2>4. QED
    BY <1>4, <2>2, <2>3 DEF RenameTmp
<1>5. CASE RemoveNew
  BY <1>5 DEF RemoveNew, RemoveAll, Current, WriterInv, TsOK, TypeOK
<1>6. CASE RemoveOld
  BY <1>6 DEF RemoveOld, RemoveAll, Current, WriterInv, TypeOK
<1>7. QED
  BY <1>1, <1>2, <1>3, <1>4, <1>5, <1>6
     DEF Next, WriterStep, Renew, Crash, WriteCertsToDir, prepareToWrite, Inspect,
         createUserVisibleFiles, SymlinkTmp, RemoveTmp, removeUserVisiblePaths, vars, fs

\* The Write in progress as the readers' specification sees it.
Asked == IF w.pc = "idle" THEN None ELSE w.payload

\* A step starts a Write, ends one, or leaves the payload asked for alone.
LEMMA AskedStep ==
  ASSUME TypeOK, [Next]_vars
  PROVE  \/ Asked' = Asked
         \/ Asked = None /\ Asked' \in Payloads /\ UNCHANGED fs
         \/ Asked # None /\ Asked' = None /\ w' = Idle
<1>0. w.pc # "idle" => Asked \in Payloads /\ Asked # None
  BY WriterAssumption DEF Asked, TypeOK
<1>1. CASE w.pc = "idle" /\ WriteCertsToDir
  BY <1>1 DEF WriteCertsToDir, Asked, Idle, TypeOK
<1>2. CASE w' = w
  BY <1>2 DEF Asked
<1>3. CASE w.pc # "idle" /\ w' = Idle
  BY <1>0, <1>3, IdleType DEF Asked
<1>4. CASE w.pc # "idle" /\ w'.pc # "idle" /\ w'.payload = w.payload
  BY <1>4 DEF Asked
<1>5. CASE Renew \/ UNCHANGED vars
  BY <1>2, <1>5 DEF Renew, vars
<1>6. CASE Crash
  BY <1>3, <1>6 DEF Crash
<1>7. ASSUME NEW f \in Files, prepareToWrite(f)
      PROVE  w.pc # "idle" /\ w'.pc # "idle" /\ w'.payload = w.payload
  BY <1>7 DEF prepareToWrite, TypeOK, Writes
<1>8. ASSUME NEW f \in Files, writePayloadToDir(f) \/ createUserVisibleFiles(f)
      PROVE  w.pc # "idle" /\ (w' = Idle \/ (w'.pc # "idle" /\ w'.payload = w.payload))
  BY <1>8, GotoFields
     DEF writePayloadToDir, createUserVisibleFiles, Fault, Return, TypeOK
<1>9. CASE Inspect \/ newTimestampDir
  <2>1. w.pc # "idle" /\ (w' = Idle \/ (w'.pc # "idle" /\ w'.payload = w.payload))
    BY <1>9 DEF Inspect, newTimestampDir, Fault, Return, TypeOK, Writes
  <2>2. QED
    BY <1>3, <1>4, <2>1
<1>10. CASE \/ SymlinkTmp \/ RenameTmp \/ RemoveTmp \/ RemoveNew
            \/ removeUserVisiblePaths \/ RemoveOld
  <2>1. w.pc # "idle" /\ (w' = Idle \/ (w'.pc # "idle" /\ w'.payload = w.payload))
    BY <1>10, GotoFields
       DEF SymlinkTmp, RenameTmp, RemoveTmp, RemoveNew, removeUserVisiblePaths, RemoveOld,
           Fault, Return, TypeOK
  <2>2. QED
    BY <1>3, <1>4, <2>1
<1>11. QED
  BY <1>1, <1>3, <1>4, <1>5, <1>6, <1>7, <1>8, <1>9, <1>10
     DEF Next, WriterStep, WriteCertsToDir

\* The writer implements AtomicDirectory: to a reader, all files of a payload
\* change at once, and a failed or interrupted Write never happened.
THEOREM Refinement == Orderly /\ Spec => AtomicUpdate
<1> SUFFICES ASSUME Orderly PROVE Spec => AtomicUpdate
  OBVIOUS
<1> DEFINE Inv == TypeOK /\ TsOK /\ WriterInv
<1>1. Init => Inv /\ Directory!Init
  BY InitTypes, InitInv, IdleType DEF Init, Directory!Init
<1>2. Inv /\ [Next]_vars => Inv'
  BY NextTypes, NextInv
<1>3. Inv /\ Inv' /\ [Next]_vars => [Directory!Next]_<<View, Asked>>
  <2> SUFFICES ASSUME Inv, Inv', [Next]_vars
               PROVE  [Directory!Next]_<<View, Asked>>
    OBVIOUS
  <2>1. View = Current /\ View' = Current'
    <3>1. View = Current
      BY ViewIsCurrent
    <3>2. (TypeOK /\ WriterInv => View = Current)'
      BY ViewIsCurrent, PTL
    <3>3. QED
      BY <3>1, <3>2
  <2>2. CASE Current' = Current
    <3>1. View' = View
      BY <2>1, <2>2
    <3>2. CASE Asked' = Asked
      BY <3>1, <3>2
    <3>3. CASE Asked = None /\ Asked' \in Payloads
      BY <3>1, <3>3 DEF Directory!Next, Directory!Request, Asked
    <3>4. CASE Asked # None /\ Asked' = None
      BY <3>1, <3>4 DEF Directory!Next, Directory!Finish, Asked
    <3>5. QED
      BY <3>2, <3>3, <3>4, AskedStep
  <2>3. CASE w.pc = "rename" /\ w'.pc = "unlink" /\ Current' = w.payload
    <3>1. Asked = w.payload /\ Asked # None /\ Asked' = w'.payload /\ w'.pc # "idle"
      BY <2>3, WriterAssumption DEF Asked, TypeOK
    <3>2. Asked' = Asked
      BY <3>1, AskedStep, IdleType, WriterAssumption DEF TypeOK, Asked
    <3>3. QED
      BY <2>1, <2>3, <3>1, <3>2 DEF Directory!Next, Directory!Publish, Asked
  <2>4. QED
    BY <2>2, <2>3, CurrentStep
<1>4. QED
  BY <1>1, <1>2, <1>3, PTL DEF Spec, AtomicUpdate, Directory!Spec, Asked

\* A Write that reports success, also because it found nothing to update, leaves
\* every file of its payload visible with its content.
THEOREM NilSafe == Orderly /\ Spec => NilMeansVisible
<1> SUFFICES ASSUME Orderly PROVE Spec => NilMeansVisible
  OBVIOUS
<1> DEFINE Inv == TypeOK /\ TsOK /\ WriterInv
<1>1. Init => Inv
  BY InitTypes, InitInv
<1>2. Inv /\ [Next]_vars => Inv'
  BY NextTypes, NextInv
<1>3. Inv /\ Inv' /\ [Next]_vars
        => [(Inspect \/ RemoveOld) /\ Return /\ UNCHANGED budget
              => \A f \in Has(w.payload) : View'[f] = w.payload[f]]_vars
  <2> SUFFICES ASSUME Inv, Inv', Inspect \/ RemoveOld, Return, UNCHANGED budget,
                      NEW f \in Has(w.payload)
               PROVE  View'[f] = w.payload[f]
    OBVIOUS
  <2>1. View' = Current'
    <3>1. (TypeOK /\ WriterInv => View = Current)'
      BY ViewIsCurrent, PTL
    <3>2. QED
      BY <3>1
  <2>2. CASE Inspect
    <3>0. ~Fault
      BY DEF Fault, Spend, TypeOK, Events
    <3>1. w.pc = "prepare" /\ ~shouldWritePayload /\ UNCHANGED fs
      BY <2>2, <3>0, IdleType DEF Inspect, Return, TypeOK, Writes
    <3>2. QED
      BY <2>1, <3>1 DEF shouldWritePayload, Current, fs
  <2>3. CASE RemoveOld
    <3>1. /\ data # None /\ dirs[data] = w.payload /\ data' = data
          /\ dirs'[data] = dirs[data]
      BY <2>3 DEF RemoveOld, RemoveAll, WriterInv, TypeOK
    <3>2. QED
      BY <2>1, <3>1 DEF Current
  <2>4. QED
    BY <2>2, <2>3
<1>4. QED
  BY <1>1, <1>2, <1>3, PTL DEF Spec, NilMeansVisible

-----------------------------------------------------------------------------
(***************************************************************************)
(* What failures leave behind.  Each step either leaves no directory more  *)
(* than there was, or is a failure and leaves one; and ..data_tmp outlives *)
(* its Write by a crash, or by a rename and a clean-up that both failed.   *)
(***************************************************************************)
Failures == Spent("fault") + Spent("crash")

\* A Write that has not made its directory yet has no claim on any.
Unclaimed ==
  /\ w.pc \in {"idle", "prepare", "mkdir"} => w.ts = None
  /\ w.pc \in {"idle", "prepare"} => w.old = None

LeftInv ==
  /\ Unclaimed
  /\ IsFiniteSet(Garbage) /\ GarbageBounded

\* What the events cost.
LEMMA SpentType ==
  ASSUME TypeOK
  PROVE  Spent("fault") \in Int /\ Spent("crash") \in Int
BY WriterAssumption DEF TypeOK, Spent, Events

\* No event, or a renewal, costs no failure.
LEMMA SpentSame ==
  ASSUME TypeOK, UNCHANGED budget \/ Spend("renew")
  PROVE  Spent("fault")' = Spent("fault") /\ Spent("crash")' = Spent("crash")
BY DEF TypeOK, Spent, Spend, Events

LEMMA SpentFault ==
  ASSUME TypeOK, Spend("fault")
  PROVE  Spent("fault")' = Spent("fault") + 1 /\ Spent("crash")' = Spent("crash")
BY WriterAssumption DEF TypeOK, Spent, Spend, Events

LEMMA SpentCrash ==
  ASSUME TypeOK, Spend("crash")
  PROVE  Spent("fault")' = Spent("fault") /\ Spent("crash")' = Spent("crash") + 1
BY WriterAssumption DEF TypeOK, Spent, Spend, Events

\* One directory more for one failure more keeps the bound.
LEMMA GarbageStep ==
  ASSUME TypeOK, TypeOK', IsFiniteSet(Garbage), GarbageBounded,
         NEW d,
         \/ Garbage' \subseteq Garbage /\ Failures' >= Failures
         \/ Garbage' \subseteq Garbage \cup {d} /\ Failures' = Failures + 1
  PROVE  IsFiniteSet(Garbage)' /\ GarbageBounded'
<1>1. Failures \in Int /\ Failures' \in Int /\ Cardinality(Garbage) <= Failures
  BY WriterAssumption DEF TypeOK, Failures, Spent, Events, GarbageBounded
<1>2. Cardinality(Garbage) \in Nat
  BY FS_CardinalityType
<1>3. CASE Garbage' \subseteq Garbage /\ Failures' >= Failures
  <2>1. /\ IsFiniteSet(Garbage') /\ Cardinality(Garbage') \in Nat
        /\ Cardinality(Garbage') <= Cardinality(Garbage)
    BY <1>3, FS_Subset, FS_CardinalityType
  <2>2. QED
    BY <1>1, <1>2, <1>3, <2>1 DEF GarbageBounded, Failures
<1>4. CASE Garbage' \subseteq Garbage \cup {d} /\ Failures' = Failures + 1
  <2>1. /\ IsFiniteSet(Garbage \cup {d})
        /\ Cardinality(Garbage \cup {d}) \in Nat
        /\ Cardinality(Garbage \cup {d}) <= Cardinality(Garbage) + 1
    <3>1. /\ IsFiniteSet(Garbage \cup {d})
          /\ Cardinality(Garbage \cup {d}) =
               IF d \in Garbage THEN Cardinality(Garbage) ELSE Cardinality(Garbage) + 1
      BY FS_AddElement
    <3>2. QED
      BY <1>2, <3>1
  <2>2. /\ IsFiniteSet(Garbage') /\ Cardinality(Garbage') \in Nat
        /\ Cardinality(Garbage') <= Cardinality(Garbage \cup {d})
    BY <1>4, <2>1, FS_Subset, FS_CardinalityType
  <2>3. QED
    BY <1>1, <1>2, <1>4, <2>1, <2>2 DEF GarbageBounded, Failures
<1>5. QED
  BY <1>3, <1>4

\* A Write that ends because of a failure leaves at most its own directory behind
\* before the switch, and at most the old one after it.
LEMMA EndGarbage ==
  ASSUME TypeOK, WriterInv, Unclaimed, w.pc # "idle", w' = Idle, UNCHANGED <<dirs, data>>
  PROVE  \E d : Garbage' \subseteq Garbage \cup {d}
<1>1. w'.ts = None /\ w'.old = None
  BY DEF Idle
<1>2. CASE w.pc \in {"prepare", "mkdir"}
  BY <1>1, <1>2 DEF Unclaimed, WriterInv, Garbage
<1>3. CASE w.pc \in {"write", "link", "tmp", "rename", "untmp", "rmnew"}
  <2>1. w.old = data
    BY <1>3 DEF WriterInv
  <2>2. Garbage' \subseteq Garbage \cup {w.ts}
    BY <1>1, <2>1 DEF Garbage
  <2>3. QED
    BY <2>2
<1>4. CASE w.pc \in {"unlink", "rmold"}
  <2>1. w.ts = data
    BY <1>4 DEF WriterInv
  <2>2. Garbage' \subseteq Garbage \cup {w.old}
    BY <1>1, <2>1 DEF Garbage
  <2>3. QED
    BY <2>2
<1>5. QED
  BY <1>2, <1>3, <1>4 DEF TypeOK, Writes

\* No step leaves a directory that it has not paid for with a failure.
LEMMA NextGarbage ==
  ASSUME Orderly, TypeOK, TsOK, WriterInv, Unclaimed, [Next]_vars
  PROVE  \E d : \/ Garbage' \subseteq Garbage /\ Failures' >= Failures
                \/ Garbage' \subseteq Garbage \cup {d} /\ Failures' = Failures + 1
<1>1. Failures \in Int
  BY SpentType DEF Failures
<1>2. SUFFICES \/ Garbage' \subseteq Garbage /\ UNCHANGED budget
               \/ Garbage' \subseteq Garbage /\ Spend("renew")
               \/ (\E d : Garbage' \subseteq Garbage \cup {d})
                    /\ (Spend("fault") \/ Spend("crash"))
  <2>1. UNCHANGED budget \/ Spend("renew") => Failures' = Failures
    BY SpentSame DEF Failures
  <2>2. Spend("fault") \/ Spend("crash") => Failures' = Failures + 1
    BY SpentType, SpentFault, SpentCrash DEF Failures
  <2>3. QED
    BY <1>1, <1>2, <2>1, <2>2
<1> DEFINE Goal == \/ Garbage' \subseteq Garbage /\ UNCHANGED budget
                   \/ Garbage' \subseteq Garbage /\ Spend("renew")
                   \/ (\E d : Garbage' \subseteq Garbage \cup {d})
                        /\ (Spend("fault") \/ Spend("crash"))
<1>3. CASE Renew \/ UNCHANGED vars
  BY <1>3 DEF Renew, vars, fs, Garbage
<1>4. CASE Crash
  BY <1>4, EndGarbage DEF Crash, fs
<1>5. CASE WriteCertsToDir
  <2>1. w'.ts = None /\ w'.old = None /\ w.ts = None /\ w.old = None
    BY <1>5 DEF WriteCertsToDir, Idle, Unclaimed
  <2>2. QED
    BY <1>5, <2>1 DEF WriteCertsToDir, fs, Garbage
<1>6. ASSUME NEW f \in Files, prepareToWrite(f)
      PROVE  Goal
  <2>1. w'.ts = w.ts /\ w'.old = w.old /\ UNCHANGED <<dirs, data>>
    BY <1>6 DEF prepareToWrite, TypeOK, Writes
  <2>2. Garbage' = Garbage
    BY <2>1 DEF Garbage
  <2>3. QED
    BY <1>6, <2>2 DEF prepareToWrite
<1>7. CASE Inspect
  <2>1. w.ts = None /\ w.old = None /\ UNCHANGED <<dirs, data>>
    BY <1>7 DEF Inspect, Unclaimed, fs
  <2>2. CASE Fault
    BY <1>7, <2>1, <2>2, EndGarbage DEF Inspect, Fault, Return
  <2>3. CASE Return /\ UNCHANGED budget
    BY <2>1, <2>3, WriterAssumption DEF Return, Idle, Garbage
  <2>4. CASE /\ w' = [w EXCEPT !.pc = "mkdir", !.old = data, !.remove = pathsToRemove]
             /\ UNCHANGED budget
    <3>1. w'.ts = w.ts /\ w'.old = data
      BY <2>4 DEF TypeOK, Writes
    <3>2. QED
      BY <2>1, <2>4, <3>1, WriterAssumption DEF Garbage
  <2>5. QED
    BY <1>7, <2>2, <2>3, <2>4 DEF Inspect
<1>8. CASE newTimestampDir
  <2>1. /\ w.ts = None /\ w.old = data /\ UNCHANGED data /\ w.pc = "mkdir"
    BY <1>8 DEF newTimestampDir, Unclaimed, WriterInv
  <2>2. CASE UNCHANGED dirs /\ Fault
    BY <2>1, <2>2, EndGarbage DEF Fault, Return
  <2>3. ASSUME NEW d \in Dirs, dirs' = [dirs EXCEPT ![d] = Empty],
               \/ /\ w' = [w EXCEPT !.pc = "write", !.ts = d, !.todo = Has(w.payload)]
                  /\ UNCHANGED budget
               \/ Fault
        PROVE  Goal
    <3>1. \A e \in Dirs : e # d => dirs'[e] = dirs[e]
      BY <2>3 DEF TypeOK
    <3>2. CASE Fault
      <4>1. w'.ts = None /\ w'.old = None
        BY <3>2 DEF Fault, Return, Idle
      <4>2. Garbage' \subseteq Garbage \cup {d}
        BY <2>1, <3>1, <4>1 DEF Garbage
      <4>3. QED
        BY <3>2, <4>2 DEF Fault
    <3>3. CASE ~Fault
      <4>1. w'.ts = d /\ w'.old = w.old
        BY <2>3, <3>3 DEF TypeOK, Writes
      <4>2. Garbage' \subseteq Garbage
        BY <2>1, <3>1, <4>1, WriterAssumption DEF Garbage
      <4>3. QED
        BY <2>3, <3>3, <4>2
    <3>4. QED
      BY <3>2, <3>3
  <2>4. QED
    BY <1>8, <2>2, <2>3 DEF newTimestampDir
<1>9. ASSUME NEW f \in Files, writePayloadToDir(f)
      PROVE  Goal
  <2>1. CASE UNCHANGED dirs /\ Fault
    BY <1>9, <2>1, EndGarbage DEF writePayloadToDir, Fault, Return
  <2>2. CASE ~(UNCHANGED dirs /\ Fault)
    <3>1. /\ w'.ts = w.ts /\ w'.old = w.old /\ UNCHANGED <<data, budget>>
          /\ w.ts \in Dirs /\ dirs' = [dirs EXCEPT ![w.ts][f] = w.payload[f]]
      BY <1>9, <2>2, GotoFields DEF writePayloadToDir, TypeOK, TsOK
    <3>2. \A e \in Dirs : e # w.ts => dirs'[e] = dirs[e]
      BY <3>1 DEF TypeOK
    <3>3. Garbage' \subseteq Garbage
      BY <3>1, <3>2 DEF Garbage
    <3>4. QED
      BY <3>1, <3>3
  <2>3. QED
    BY <2>1, <2>2
<1>10. ASSUME NEW f \in Files, createUserVisibleFiles(f)
       PROVE  Goal
  <2>1. CASE Fault
    BY <1>10, <2>1, EndGarbage DEF createUserVisibleFiles, Fault, Return
  <2>2. CASE ~Fault
    <3>1. w'.ts = w.ts /\ w'.old = w.old /\ UNCHANGED <<dirs, data, budget>>
      BY <1>10, <2>2, GotoFields DEF createUserVisibleFiles, TypeOK, Orderly
    <3>2. QED
      BY <3>1 DEF Garbage
  <2>3. QED
    BY <2>1, <2>2
<1>11. CASE SymlinkTmp \/ RemoveTmp
  <2>1. w'.ts = w.ts /\ w'.old = w.old /\ UNCHANGED <<dirs, data>>
    BY <1>11, GotoFields DEF SymlinkTmp, RemoveTmp, TypeOK
  <2>2. Garbage' = Garbage
    BY <2>1 DEF Garbage
  <2>3. UNCHANGED budget \/ Spend("fault")
    BY <1>11 DEF SymlinkTmp, RemoveTmp
  <2>4. QED
    BY <2>2, <2>3
<1>12. CASE RenameTmp
  <2>1. w.ts \in Dirs /\ w.old = data /\ tmp = w.ts /\ UNCHANGED dirs
    BY <1>12 DEF RenameTmp, TsOK, WriterInv
  <2>2. /\ w'.ts = w.ts /\ w'.old = w.old /\ data' \in {data, w.ts}
        /\ UNCHANGED budget \/ Spend("fault")
    BY <1>12, <2>1, GotoFields DEF RenameTmp, TypeOK
  <2>3. Garbage' \subseteq Garbage
    BY <2>1, <2>2 DEF Garbage
  <2>4. QED
    BY <2>2, <2>3
<1>13. CASE RemoveNew
  <2>1. w.ts \in Dirs /\ w.old = data /\ UNCHANGED data /\ w.pc = "rmnew"
    BY <1>13 DEF RemoveNew, TsOK, WriterInv
  <2>2. CASE Spend("fault") /\ UNCHANGED dirs
    BY <1>13, <2>1, <2>2, EndGarbage DEF RemoveNew, Return
  <2>3. CASE RemoveAll(w.ts) /\ UNCHANGED budget
    <3>1. w'.ts = None /\ w'.old = None
      BY <1>13 DEF RemoveNew, Return, Idle
    <3>2. /\ dirs'[w.ts] = None
          /\ \A e \in Dirs : e # w.ts => dirs'[e] = dirs[e]
      BY <2>1, <2>3 DEF RemoveAll, TypeOK
    <3>3. Garbage' \subseteq Garbage
      BY <2>1, <3>1, <3>2 DEF Garbage
    <3>4. QED
      BY <2>3, <3>3
  <2>4. QED
    BY <1>13, <2>2, <2>3 DEF RemoveNew
<1>14. CASE removeUserVisiblePaths
  <2>1. CASE Fault
    BY <1>14, <2>1, EndGarbage DEF removeUserVisiblePaths, Fault, Return
  <2>2. CASE ~Fault
    <3>0. w.remove \subseteq links
      BY <1>14 DEF removeUserVisiblePaths, WriterInv, Linked
    <3>1. w'.ts = w.ts /\ w'.old = w.old /\ UNCHANGED <<dirs, data, budget>>
      BY <1>14, <2>2, <3>0, GotoFields DEF removeUserVisiblePaths, TypeOK
    <3>2. QED
      BY <3>1 DEF Garbage
  <2>3. QED
    BY <2>1, <2>2
<1>15. CASE RemoveOld
  <2>1. w.ts = data /\ UNCHANGED data
    BY <1>15 DEF RemoveOld, WriterInv
  <2>2. CASE Fault /\ UNCHANGED dirs
    BY <1>15, <2>2, EndGarbage DEF RemoveOld, Fault, Return
  <2>3. CASE ~(Fault /\ UNCHANGED dirs)
    <3>1. /\ w'.ts = None /\ w'.old = None /\ UNCHANGED budget
          /\ IF w.old = None THEN UNCHANGED dirs ELSE RemoveAll(w.old)
      BY <1>15, <2>3 DEF RemoveOld, Return, Idle
    <3>2. \A e \in Dirs : /\ e # w.old => dirs'[e] = dirs[e]
                          /\ e = w.old => dirs'[e] = None
      BY <3>1, WriterAssumption DEF RemoveAll, TypeOK
    <3>3. Garbage' \subseteq Garbage
      BY <2>1, <3>1, <3>2 DEF Garbage
    <3>4. QED
      BY <3>1, <3>3
  <2>4. QED
    BY <2>2, <2>3
<1>16. QED
  BY <1>3, <1>4, <1>5, <1>6, <1>7, <1>8, <1>9, <1>10, <1>11, <1>12, <1>14, <1>15, <1>13
     DEF Next, WriterStep

\* A Write claims a directory from step 5 on, and the old one from step 4 on.
LEMMA NextUnclaimed ==
  ASSUME TypeOK, Unclaimed, [Next]_vars
  PROVE  Unclaimed'
<1> DEFINE Claiming == {"write", "link", "tmp", "rename", "untmp", "rmnew", "unlink", "rmold"}
<1>1. CASE w' = Idle
  BY <1>1 DEF Unclaimed, Idle
<1>2. CASE UNCHANGED w
  BY <1>2 DEF Unclaimed
<1>3. CASE WriteCertsToDir
  BY <1>3 DEF WriteCertsToDir, Idle, Unclaimed
<1>4. ASSUME NEW f \in Files, prepareToWrite(f)
      PROVE  Unclaimed'
  BY <1>4 DEF prepareToWrite, TypeOK, Writes, Unclaimed
<1>5. CASE w' = [w EXCEPT !.pc = "mkdir", !.old = data, !.remove = pathsToRemove]
             /\ w.pc = "prepare"
  BY <1>5 DEF TypeOK, Writes, Unclaimed
<1>6. CASE w'.pc \in Claiming
  BY <1>6 DEF Unclaimed
<1>7. ASSUME NEW pc, NEW todo, Goto(pc, todo),
             pc \in Claiming
      PROVE  Unclaimed'
  BY <1>6, <1>7, GotoFields DEF TypeOK
<1>8. CASE newTimestampDir
  <2>1. ASSUME NEW d, w' = [w EXCEPT !.pc = "write", !.ts = d, !.todo = Has(w.payload)]
        PROVE  w'.pc = "write"
    BY <2>1 DEF TypeOK, Writes
  <2>2. QED
    BY <1>1, <1>6, <1>8, <2>1 DEF newTimestampDir, Fault, Return
<1>9. CASE Inspect
  BY <1>1, <1>5, <1>9 DEF Inspect, Fault, Return
<1>10. ASSUME NEW f \in Files, writePayloadToDir(f) \/ createUserVisibleFiles(f)
       PROVE  Unclaimed'
  BY <1>1, <1>7, <1>10 DEF writePayloadToDir, createUserVisibleFiles, Fault, Return
<1>11. CASE \/ SymlinkTmp \/ RenameTmp \/ RemoveTmp \/ RemoveNew
            \/ removeUserVisiblePaths \/ RemoveOld
  BY <1>1, <1>7, <1>11 DEF SymlinkTmp, RenameTmp, RemoveTmp, RemoveNew,
                           removeUserVisiblePaths, RemoveOld, Fault, Return
<1>12. QED
  BY <1>1, <1>2, <1>3, <1>4, <1>8, <1>9, <1>10, <1>11
     DEF Next, WriterStep, Renew, Crash, vars

\* What is left behind, in every state of an orderly directory.
LEMMA LeftInvariant == Orderly /\ Spec => []LeftInv
<1> SUFFICES ASSUME Orderly PROVE Spec => []LeftInv
  OBVIOUS
<1>1. Init => TypeOK /\ TsOK /\ WriterInv
  BY InitTypes, InitInv
<1>2. Init => LeftInv
  <2> SUFFICES ASSUME Init PROVE LeftInv
    OBVIOUS
  <2>1. Garbage = {}
    BY DEF Init, Garbage
  <2>2. IsFiniteSet(Garbage) /\ Cardinality(Garbage) = 0
    BY <2>1, FS_EmptySet
  <2>3. Spent("fault") = 0 /\ Spent("crash") = 0
    BY WriterAssumption DEF Init, Spent, Events
  <2>4. Unclaimed
    BY DEF Init, Idle, Unclaimed
  <2>5. QED
    BY <2>2, <2>3, <2>4 DEF LeftInv, GarbageBounded
<1>3. ASSUME TypeOK, TsOK, WriterInv, LeftInv, [Next]_vars
      PROVE  (TypeOK /\ TsOK /\ WriterInv)' /\ LeftInv'
  <2>1. TypeOK' /\ TsOK' /\ WriterInv'
    BY <1>3, NextTypes, NextInv
  <2>2. Unclaimed'
    BY <1>3, NextUnclaimed DEF LeftInv
  <2>3. IsFiniteSet(Garbage)' /\ GarbageBounded'
    BY <1>3, <2>1, NextGarbage, GarbageStep DEF LeftInv
  <2>4. QED
    BY <2>2, <2>1, <2>3 DEF LeftInv
<1>4. QED
  BY <1>1, <1>2, <1>3, PTL DEF Spec

\* Failed Writes and crashes leave directories behind, at most one each; Writes
\* that run to their end leave none, however many renewals there are.
THEOREM GarbageSafe == Orderly /\ Spec => []GarbageBounded
<1>1. LeftInv => GarbageBounded
  BY DEF LeftInv
<1>2. QED
  BY <1>1, LeftInvariant, PTL

\* The inductive form of OneFailureNeverBlocks: a Write that is removing ..data_tmp
\* has already seen the rename fail.
BlockInv ==
  /\ OneFailureNeverBlocks
  /\ w.pc = "untmp" => Spent("fault") > 0
  /\ Spent("fault") \in Nat /\ Spent("crash") \in Nat

\* ..data_tmp comes with step 8 and goes with step 9 or with the clean-up of a
\* failed step 9; what keeps it is a crash in between or a second failure.
LEMMA NextBlocks ==
  ASSUME TypeOK, BlockInv, [Next]_vars
  PROVE  BlockInv'
<1> USE DEF BlockInv
<1>1. CASE Crash
  <2>1. Spent("crash")' = Spent("crash") + 1 /\ Spent("fault")' = Spent("fault")
    BY <1>1, SpentCrash DEF Crash
  <2>2. w'.pc = "idle"
    BY <1>1, IdleType DEF Crash
  <2>3. QED
    BY <2>1, <2>2 DEF OneFailureNeverBlocks
<1>2. CASE ~Crash
  <2>1. UNCHANGED budget \/ Spend("renew") \/ Spend("fault")
    BY <1>2 DEF Next, WriterStep, WriteCertsToDir, prepareToWrite, Inspect,
                newTimestampDir, writePayloadToDir, createUserVisibleFiles, SymlinkTmp,
                RenameTmp, RemoveTmp, RemoveNew, removeUserVisiblePaths, RemoveOld, Renew,
                Fault, vars
  <2>2. /\ Spent("crash")' = Spent("crash")
        /\ Spent("fault")' \in Nat /\ Spent("fault")' >= Spent("fault")
    BY <2>1, SpentSame, SpentFault
  <2>3. CASE SymlinkTmp
    <3>1. w.pc = "tmp" /\ (w'.pc = "rename" \/ (w'.pc = "rmnew" /\ UNCHANGED tmp))
      BY <2>3, GotoFields DEF SymlinkTmp, TypeOK
    <3>2. QED
      BY <2>2, <3>1 DEF OneFailureNeverBlocks, Left
  <2>4. CASE RenameTmp
    <3>1. CASE tmp' = None /\ Goto("unlink", {})
      BY <2>2, <3>1, GotoFields DEF OneFailureNeverBlocks, Left, TypeOK
    <3>2. CASE Spend("fault") /\ Goto("untmp", {})
      <4>1. w'.pc = "untmp" /\ Spent("fault")' = Spent("fault") + 1
        BY <3>2, GotoFields, SpentFault DEF TypeOK
      <4>2. QED
        BY <2>2, <4>1 DEF OneFailureNeverBlocks, Left
    <3>3. QED
      BY <2>4, <3>1, <3>2 DEF RenameTmp
  <2>5. CASE RemoveTmp
    <3>1. w.pc = "untmp" /\ w'.pc = "rmnew"
      BY <2>5, GotoFields DEF RemoveTmp, TypeOK
    <3>2. CASE tmp' = None
      BY <2>2, <3>1, <3>2 DEF OneFailureNeverBlocks, Left
    <3>3. CASE Spend("fault")
      <4>1. Spent("fault")' = Spent("fault") + 1
        BY <3>3, SpentFault
      <4>2. QED
        BY <2>2, <3>1, <4>1 DEF OneFailureNeverBlocks
    <3>4. QED
      BY <2>5, <3>2, <3>3 DEF RemoveTmp
  <2>6. CASE ~SymlinkTmp /\ ~RenameTmp /\ ~RemoveTmp
    <3>1. /\ UNCHANGED tmp
          /\ UNCHANGED w \/ (w.pc \notin {"rename", "untmp"} /\ w'.pc # "untmp")
      <4>1. ASSUME NEW f \in Files, prepareToWrite(f)
            PROVE  UNCHANGED tmp /\ w.pc = "prepare" /\ w'.pc = "prepare"
        BY <4>1 DEF prepareToWrite, TypeOK, Writes
      <4>2. CASE WriteCertsToDir \/ Inspect \/ newTimestampDir
        BY <4>2, IdleType DEF WriteCertsToDir, Inspect, newTimestampDir, Fault, Return,
                              TypeOK, Writes, Idle, fs
      <4>3. ASSUME NEW f \in Files, writePayloadToDir(f) \/ createUserVisibleFiles(f)
            PROVE  UNCHANGED tmp /\ w.pc \notin {"rename", "untmp"} /\ w'.pc # "untmp"
        BY <4>3, GotoFields, IdleType DEF writePayloadToDir, createUserVisibleFiles,
                                          Fault, Return, TypeOK
      <4>4. CASE RemoveNew \/ removeUserVisiblePaths \/ RemoveOld
        BY <4>4, GotoFields, IdleType DEF RemoveNew, removeUserVisiblePaths, RemoveOld,
                                          Fault, Return, TypeOK
      <4>5. CASE Renew \/ UNCHANGED vars
        BY <4>5 DEF Renew, vars, fs
      <4>6. QED
        BY <1>2, <2>6, <4>1, <4>2, <4>3, <4>4, <4>5 DEF Next, WriterStep
    <3>2. QED
      BY <2>2, <3>1 DEF OneFailureNeverBlocks, Left
  <2>7. QED
    BY <2>3, <2>4, <2>5, <2>6
<1>3. QED
  BY <1>1, <1>2

\* ..data_tmp is in the way of later Writes only after a crash or after two failed
\* system calls: one failed call, the rename included, blocks nothing.
THEOREM NotBlockedByOne == Spec => []OneFailureNeverBlocks
<1>1. Init => TypeOK /\ TsOK /\ BlockInv
  <2> SUFFICES ASSUME Init PROVE BlockInv
    BY InitTypes
  <2>1. Spent("fault") = 0 /\ Spent("crash") = 0
    BY WriterAssumption DEF Init, Spent, Events
  <2>2. QED
    BY <2>1, IdleType DEF Init, BlockInv, OneFailureNeverBlocks, Left
<1>2. TypeOK /\ TsOK /\ BlockInv /\ [Next]_vars => (TypeOK /\ TsOK /\ BlockInv)'
  BY NextTypes, NextBlocks
<1>3. BlockInv => OneFailureNeverBlocks
  BY DEF BlockInv
<1>4. QED
  BY <1>1, <1>2, <1>3, PTL DEF Spec

=============================================================================
