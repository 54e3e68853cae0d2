--------------------------- MODULE CertController ---------------------------
(***************************************************************************)
(* The certificate controller (internal/webhook/util/controller) of every  *)
(* replica of the manager.  sync ensures a certificate in the shared       *)
(* secret (or, with the fs store, in the replica's own directory), writes  *)
(* it to the replica's directory and puts its CA into the two webhook      *)
(* configurations.  One step is one API call; replicas, users and the      *)
(* calendar interleave.  A write with an outdated resourceVersion is       *)
(* refused.                                                                *)
(***************************************************************************)
EXTENDS Naturals, FiniteSets

CONSTANTS
  Replicas,
  Stores,     \* the stores to choose from: {"secret", "fs"} or a part of it
  MaxCAs,     \* names for CAs, more than can be in use at the same time
  None,
  Names,      \* values of dnsName
  Paths,      \* webhook paths
  Manifest,   \* kind of configuration -> paths the manifest registers
  Handlers,   \* paths that have a handler
  MaxEvents   \* TLC bound: failed calls, restarts and the other events around
              \* the controllers, in any mix

CAs == 1..MaxCAs

\* A serving certificate with its CA: what validity depends on.
Certs == [ca : CAs, name : Names]

Kinds == {"mutating", "validating"}

\* The objects with a resourceVersion.
Objects == Kinds \cup {"secret"}

ASSUME CertAssumption ==
  /\ Stores \subseteq {"secret", "fs"}
  /\ IsFiniteSet(Replicas)
  /\ MaxCAs \in Nat /\ MaxCAs > 2 * Cardinality(Replicas) + 3
  /\ \A x \in CAs : x # None
  /\ \A c \in Certs : c # None
  /\ \A n \in Names : n # None
  /\ \A S \in SUBSET Paths : S # None
  /\ Manifest \in [Kinds -> SUBSET Paths]
  /\ Handlers \subseteq Paths
  /\ MaxEvents \in Nat

VARIABLES
  store,      \* the store GetCertWriter and GetHost select
  secret,     \* [exists, cert]; the manifest's secret has no cert
  caAge,      \* CA -> "fresh": good for a year, "aging": for six months, "old"
  conf,       \* kind -> [template, hooks, ca, host] of the webhook configuration
  dir,        \* replica -> the certificate in its directory
  stuck,      \* replicas with a ..data_tmp in their directory that no Write removes
  dnsName,    \* replica -> the name its environment asks for
  w,          \* replica -> its sync in progress
  moved,      \* <<r, o>>: object o was written since replica r read it
  issued,     \* history: certificates that were in a store, of CAs still in use
  events

objects == <<secret, conf, moved, issued>>
vars    == <<store, caAge, objects, dir, stuck, dnsName, w, events>>

\* The locals of sync: the certs EnsureCert has read or made, and the
\* configurations that Ensure found in need of an update.
Syncs == [pc   : {"idle", "create", "reread", "overwrite", "dir", "update"} \cup Kinds,
          cert : Certs \cup {None},
          todo : SUBSET Kinds]

Idle == [pc |-> "idle", cert |-> None, todo |-> {}]

Configurations == [template : (SUBSET Paths) \cup {None},
                   hooks    : SUBSET Paths,
                   ca       : CAs \cup {None},
                   host     : Names \cup {None}]

\* As applied: no template, placeholders for CA and address.
Applied(kind) ==
  [template |-> None, hooks |-> Manifest[kind], ca |-> None, host |-> None]

Event == events < MaxEvents /\ events' = events + 1

Init ==
  /\ store \in Stores
  /\ secret \in [exists : BOOLEAN, cert : {None}]
  /\ caAge = [ca \in CAs |-> "fresh"]
  /\ conf = [kind \in Kinds |-> Applied(kind)]
  /\ dir = [r \in Replicas |-> None]
  /\ stuck = {}
  /\ dnsName \in {[r \in Replicas |-> n] : n \in Names}
  /\ w = [r \in Replicas |-> Idle]
  /\ moved = {}
  /\ issued = {}
  /\ events = 0

-----------------------------------------------------------------------------
\* sync ends: with nil it is run again after defaultResyncPeriod, with an error
\* after a back-off, and whenever one of the objects changes.
Return(r) == w' = [w EXCEPT ![r] = Idle]

Fault(r) == Event /\ Return(r)

Goto(r, pc, cert) == w' = [w EXCEPT ![r] = [pc |-> pc, cert |-> cert, todo |-> {}]]

\* Replica r has just read, or written, object o.
Seen(r, o) == moved' = moved \ {<<r, o>>}

Written(r, o) == moved' = (moved \cup (Replicas \X {o})) \ {<<r, o>>}

\* validCert: for this name, and still good in six months.  The serving
\* certificate outlives its CA, so the CA's age decides.
validCert(r, cert) ==
  /\ cert # None
  /\ cert.name = dnsName[r]
  /\ caAge[cert.ca] # "old"

\* CAs somebody still has, or trusts.
InUse ==
  {c.ca : c \in ({secret.cert} \cup {dir[r] : r \in Replicas}
                \cup {w[r].cert : r \in Replicas}) \ {None}}
    \cup {conf[kind].ca : kind \in Kinds}

\* A name for a new CA: secret, directories, syncs and configurations use fewer.
NewCA == CHOOSE ca \in CAs : ca \notin InUse

\* Mutant of Generate: the name is lost on the way.
GenerateUnnamed(r, cert) ==
  LET keep == cert # None /\ caAge[cert.ca] = "fresh"
  IN  [ca |-> IF keep THEN cert.ca ELSE NewCA, name |-> None]

\* Generate: a certificate signed by the CA of the certificate given to SetCA if
\* that is good for another year, by a new CA otherwise.
Generate(r, cert) ==
  LET keep == cert # None /\ caAge[cert.ca] = "fresh"
  IN  [ca |-> IF keep THEN cert.ca ELSE NewCA, name |-> dnsName[r]]

\* A generated certificate reaches a store.  CAs that are not in use are new.
Issue(cert) ==
  /\ caAge' = [ca \in CAs |-> IF ca \in InUse THEN caAge[ca] ELSE "fresh"]
  /\ issued' = {c \in issued : c.ca \in InUse} \cup {cert}

-----------------------------------------------------------------------------
(***************************************************************************)
(* EnsureCert with the secret store.                                       *)
(***************************************************************************)

\* read, and the validity check of handleCommon.
read(r) ==
  /\ store = "secret"
  /\ w[r].pc \in {"idle", "reread"}
  /\ \/ /\ secret.exists
        /\ Goto(r, IF validCert(r, secret.cert) THEN "dir" ELSE "overwrite", secret.cert)
        /\ Seen(r, "secret")
        /\ UNCHANGED events
     \/ /\ ~secret.exists
        /\ IF w[r].pc = "idle" THEN Goto(r, "create", None) ELSE Return(r)
        /\ UNCHANGED <<moved, events>>
     \/ Fault(r) /\ UNCHANGED moved
  /\ UNCHANGED <<store, caAge, secret, conf, issued, dir, stuck, dnsName>>

StoreCert(r, cert) ==
  /\ Issue(cert)
  /\ secret' = [exists |-> TRUE, cert |-> cert]
  /\ Written(r, "secret")

\* The call is refused, or fails: what was generated is dropped.
KeepSecret == UNCHANGED <<caAge, secret, moved, issued>>

\* Mutant of write: AlreadyExists is taken for success.
writeOwn(r) ==
  LET new == Generate(r, None)
  IN  /\ w[r].pc = "create"
      /\ \/ ~secret.exists /\ StoreCert(r, new)
         \/ secret.exists /\ KeepSecret
      /\ Goto(r, "dir", new)
      /\ UNCHANGED <<store, conf, dir, stuck, dnsName, events>>

\* write: Create.  AlreadyExists makes createIfNotExists read again.
write(r) ==
  LET new == Generate(r, None)
  IN  /\ w[r].pc = "create"
      /\ \/ ~secret.exists /\ StoreCert(r, new) /\ Goto(r, "dir", new) /\ UNCHANGED events
         \/ secret.exists /\ KeepSecret /\ Goto(r, "reread", None) /\ UNCHANGED events
         \/ Fault(r) /\ ~secret.exists /\ StoreCert(r, new)
         \/ Fault(r) /\ KeepSecret
      /\ UNCHANGED <<store, conf, dir, stuck, dnsName>>

\* Mutant of overwrite: Update without a resourceVersion.
overwriteAny(r) ==
  LET new == Generate(r, w[r].cert)
  IN  /\ w[r].pc = "overwrite"
      /\ \/ secret.exists /\ StoreCert(r, new) /\ Goto(r, "dir", new)
         \/ ~secret.exists /\ KeepSecret /\ Return(r)
      /\ UNCHANGED <<store, conf, dir, stuck, dnsName, events>>

\* overwrite: Update with the resourceVersion that was read; the CA that was
\* read was given to SetCA.
overwrite(r) ==
  LET new == Generate(r, w[r].cert)
      current == secret.exists /\ <<r, "secret">> \notin moved
  IN  /\ w[r].pc = "overwrite"
      /\ \/ current /\ StoreCert(r, new) /\ Goto(r, "dir", new) /\ UNCHANGED events
         \/ ~current /\ KeepSecret /\ Return(r) /\ UNCHANGED events
         \/ Fault(r) /\ current /\ StoreCert(r, new)
         \/ Fault(r) /\ KeepSecret
      /\ UNCHANGED <<store, conf, dir, stuck, dnsName>>

-----------------------------------------------------------------------------
\* A Write by replica r that is cut short, by failed calls or by the end of the
\* process, may leave ..data_tmp behind if there was something to write.
CutShort(r, needed) == stuck' \in {stuck, stuck \cup {s \in {r} : needed}}

\* EnsureCert with the fs store: the directory is both store and target, and
\* the CA is never given to SetCA.  A Write that fails may have switched ..data.
EnsureCertInDir(r) ==
  LET new  == Generate(r, None)
      good == validCert(r, dir[r])
      Keep == UNCHANGED <<caAge, issued, dir>>
      Put  == /\ ~good /\ r \notin stuck
              /\ Issue(new)
              /\ dir' = [dir EXCEPT ![r] = new]
              /\ UNCHANGED stuck
  IN  /\ store = "fs"
      /\ w[r].pc = "idle"
      /\ \/ good /\ Keep /\ Goto(r, "dir", dir[r]) /\ UNCHANGED <<stuck, events>>
         \/ Put /\ Goto(r, "dir", new) /\ UNCHANGED events
         \/ ~good /\ r \in stuck /\ Keep /\ Return(r) /\ UNCHANGED <<stuck, events>>
         \/ Fault(r) /\ (Put \/ (Keep /\ CutShort(r, ~good)))
      /\ UNCHANGED <<store, secret, conf, moved, dnsName>>

\* Mutant of WriteCertsToDir: only an empty directory is written.
WriteCertsOnce(r) ==
  /\ w[r].pc = "dir"
  /\ dir' = [dir EXCEPT ![r] = IF @ = None /\ r \notin stuck THEN w[r].cert ELSE @]
  /\ Goto(r, "mutating", w[r].cert)
  /\ UNCHANGED <<store, caAge, objects, stuck, dnsName, events>>

\* WriteCertsToDir; AtomicWriter shows that it is one step to its readers, and
\* that with a leftover ..data_tmp it gets through only if nothing has changed.
WriteCertsToDir(r) ==
  LET needed == dir[r] # w[r].cert
      Put    == /\ needed => r \notin stuck
                /\ dir' = [dir EXCEPT ![r] = w[r].cert]
                /\ UNCHANGED stuck
  IN  /\ w[r].pc = "dir"
      /\ \/ Put /\ Goto(r, "mutating", w[r].cert) /\ UNCHANGED events
         \/ needed /\ r \in stuck /\ Return(r) /\ UNCHANGED <<dir, stuck, events>>
         \/ Fault(r) /\ (Put \/ (UNCHANGED dir /\ CutShort(r, needed)))
      /\ UNCHANGED <<store, caAge, objects, dnsName>>

-----------------------------------------------------------------------------
(***************************************************************************)
(* configuration.Ensure.                                                   *)
(***************************************************************************)

\* Mutant of Template: the saved template is not looked at.
TemplateAnew(kind) == conf[kind].hooks

\* parseMutatingTemplate / parseValidatingTemplate: the first time, the
\* webhooks themselves become the template.
Template(kind) ==
  IF conf[kind].template = None THEN conf[kind].hooks ELSE conf[kind].template

\* Mutant of Ensured: the template is not saved.
EnsuredUnsaved(r, kind) ==
  LET hooks == Template(kind) \cap Handlers
  IN  [template |-> conf[kind].template, hooks |-> hooks,
       ca   |-> IF hooks = {} THEN None ELSE w[r].cert.ca,
       host |-> IF hooks = {} THEN None ELSE dnsName[r]]

\* The webhooks of the template that have a handler, with the CA of this sync
\* and the address (service or URL) from this replica's environment.
Ensured(r, kind) ==
  LET hooks == Template(kind) \cap Handlers
  IN  [template |-> Template(kind), hooks |-> hooks,
       ca   |-> IF hooks = {} THEN None ELSE w[r].cert.ca,
       host |-> IF hooks = {} THEN None ELSE dnsName[r]]

\* First both configurations are read, and compared with what they should be.
\* The pc names the one to read.
Ensure(r) ==
  LET kind == w[r].pc
      todo == w[r].todo \cup {k \in {kind} : conf[k] # Ensured(r, k)}
  IN  /\ kind \in Kinds
      /\ \/ /\ w' = [w EXCEPT ![r] =
                   IF kind = "mutating" THEN [@ EXCEPT !.pc = "validating", !.todo = todo]
                   ELSE IF todo # {}    THEN [@ EXCEPT !.pc = "update", !.todo = todo]
                   ELSE Idle]
            /\ Seen(r, kind)
            /\ UNCHANGED events
         \/ Fault(r) /\ UNCHANGED moved
      /\ UNCHANGED <<store, caAge, secret, conf, issued, dir, stuck, dnsName>>

\* Then those that differ are updated, the mutating one first.
UpdateConfiguration(r) ==
  LET kind == IF "mutating" \in w[r].todo THEN "mutating" ELSE "validating"
      Put  == conf' = [conf EXCEPT ![kind] = Ensured(r, kind)] /\ Written(r, kind)
      current == <<r, kind>> \notin moved
  IN  /\ w[r].pc = "update"
      /\ \/ /\ current
            /\ Put
            /\ IF w[r].todo = {kind} THEN Return(r)
                                     ELSE w' = [w EXCEPT ![r].todo = @ \ {kind}]
            /\ UNCHANGED events
         \/ ~current /\ Return(r) /\ UNCHANGED <<conf, moved, events>>
         \/ Fault(r) /\ current /\ Put
         \/ Fault(r) /\ UNCHANGED <<conf, moved>>
      /\ UNCHANGED <<store, caAge, secret, issued, dir, stuck, dnsName>>

-----------------------------------------------------------------------------
(***************************************************************************)
(* What happens around the controllers.                                    *)
(***************************************************************************)

\* A CA gets closer to its end.
Age(ca) ==
  /\ ca \in InUse
  /\ caAge[ca] # "old"
  /\ Event
  /\ caAge' = [caAge EXCEPT ![ca] = IF @ = "fresh" THEN "aging" ELSE "old"]
  /\ UNCHANGED <<store, objects, dir, stuck, dnsName, w>>

\* The replica may be in the middle of a Write that changes something.
Writing(r) ==
  \/ w[r].pc = "dir" /\ dir[r] # w[r].cert
  \/ store = "fs" /\ w[r].pc = "idle" /\ ~validCert(r, dir[r])

\* A replica is replaced, possibly with another name in its environment; its
\* directory survives if it is on a volume, with what a Write left in it.
Restart(r) ==
  /\ Event
  /\ w' = [w EXCEPT ![r] = Idle]
  /\ \/ dir' = [dir EXCEPT ![r] = None] /\ stuck' = stuck \ {r}
     \/ UNCHANGED dir /\ CutShort(r, Writing(r))
  /\ \E n \in Names : dnsName' = [dnsName EXCEPT ![r] = n]
  /\ UNCHANGED <<store, caAge, objects>>

DeleteSecret ==
  /\ secret.exists
  /\ Event
  /\ secret' = [exists |-> FALSE, cert |-> None]
  /\ moved' = moved \cup (Replicas \X {"secret"})
  /\ UNCHANGED <<store, caAge, conf, issued, dir, stuck, dnsName, w>>

\* The manifest is applied again: a configuration loses template and CA.
Reapply(kind) ==
  /\ Event
  /\ conf' = [conf EXCEPT ![kind] = Applied(kind)]
  /\ moved' = moved \cup (Replicas \X {kind})
  /\ UNCHANGED <<store, caAge, secret, issued, dir, stuck, dnsName, w>>

SyncStep(r) ==
  \/ read(r) \/ write(r) \/ overwrite(r) \/ EnsureCertInDir(r)
  \/ WriteCertsToDir(r) \/ Ensure(r) \/ UpdateConfiguration(r)

Next ==
  \/ \E r \in Replicas : SyncStep(r) \/ Restart(r)
  \/ \E ca \in CAs : Age(ca)
  \/ \E kind \in Kinds : Reapply(kind)
  \/ DeleteSecret

Spec == Init /\ [][Next]_vars

\* Every replica's workqueue runs sync again for ever.
FairSpec == Spec /\ \A r \in Replicas : WF_vars(SyncStep(r))

-----------------------------------------------------------------------------
TypeOK ==
  /\ store \in Stores
  /\ secret \in [exists : BOOLEAN, cert : Certs \cup {None}]
  /\ caAge \in [CAs -> {"fresh", "aging", "old"}]
  /\ conf \in [Kinds -> Configurations]
  /\ dir \in [Replicas -> Certs \cup {None}]
  /\ stuck \subseteq Replicas
  /\ dnsName \in [Replicas -> Names]
  /\ w \in [Replicas -> Syncs]
  /\ moved \subseteq Replicas \X Objects
  /\ issued \subseteq Certs
  /\ events \in 0..MaxEvents

\* Two replicas that create or renew at the same time never serve, or publish
\* the CA of, a certificate that lost the race: what a directory holds, and the
\* CA of a configuration, comes from a certificate that was stored.
OnlyStoredCerts ==
  /\ \A r \in Replicas : dir[r] \in issued \cup {None}
  /\ \A kind \in Kinds : conf[kind].ca \in {c.ca : c \in issued} \cup {None}

\* Replicas that disagree about the name, or act on what they read before
\* another one's write, may replace the certificate in the secret, but never a
\* CA that is good for another year: what it signed stays trusted.
KeepCAStep ==
  (/\ secret.cert # None
   /\ caAge[secret.cert.ca] = "fresh"
   /\ secret'.cert \notin {secret.cert, None})
    => secret'.cert.ca = secret.cert.ca

KeepCA == [][KeepCAStep]_vars

\* Ensure drops the webhooks that have no handler, but no order of updates by
\* several replicas, failures and re-applied manifests loses what the manifest
\* registered: it is in the template, or still in the webhooks themselves.
TemplateWhole ==
  \A kind \in Kinds :
    \/ conf[kind].template = Manifest[kind]
    \/ conf[kind].template = None /\ conf[kind].hooks = Manifest[kind]

\* Both configurations are as the manifest wants them, with one of these CAs.
Configured(cas) ==
  \A kind \in Kinds :
    LET hooks == Manifest[kind] \cap Handlers
    IN  /\ conf[kind].template = Manifest[kind]
        /\ conf[kind].hooks = hooks
        /\ hooks # {} => /\ conf[kind].ca \in cas
                         /\ \A r \in Replicas : conf[kind].host = dnsName[r]

\* What sync works towards, in the replicas that can write their directory.  With
\* the secret store all of them serve the certificate that the configurations
\* trust.  With the fs store every replica has a CA of its own, the configurations
\* go back and forth between them, and trust one of the replicas at a time.
Agreed ==
  LET writable == Replicas \ stuck
      serving  == {r \in Replicas : validCert(r, dir[r])}
  IN  /\ writable \subseteq serving
      /\ store = "secret" => \A r \in writable : dir[r] = secret.cert
      /\ writable # {} => Configured(IF store = "secret" THEN {secret.cert.ca}
                                     ELSE {dir[r].ca : r \in serving})

\* All replicas agree on the certificate of the secret, the syncs in progress
\* too; the directories that can be written hold it.
Settled ==
  /\ store = "secret"
  /\ \A r \in Replicas : /\ validCert(r, secret.cert)
                         /\ w[r].cert \in {None, secret.cert}
                         /\ r \in stuck \/ dir[r] = secret.cert
  /\ Configured({secret.cert.ca})

\* Once settled, no sync of any replica changes the secret, a directory or a
\* configuration any more, be it one that began earlier and decided on what it
\* read then, or one that fails: replicas do not wake each other for ever.
AgreedStays ==
  [][Settled /\ (\E r \in Replicas : SyncStep(r))
       => Settled' /\ UNCHANGED <<secret, conf, dir>>]_vars

SameName == \A r, s \in Replicas : dnsName[r] = dnsName[s]

\* However creations, renewals, restarts, deletions of the secret, re-applied
\* manifests and failed calls are mixed, once they stop and the replicas use
\* one name, every replica serves a valid certificate but those whose directory a
\* leftover ..data_tmp has closed.  With the secret store it is the one in the
\* secret, and the webhook configurations trust it; with the fs store they trust
\* one of the replicas.  A closed directory holds up nobody but its own replica.
Agree == <>[]SameName => <>[]Agreed

=============================================================================
