------------------------ MODULE CertController_proofs ------------------------
(***************************************************************************)
(* Theorems about CertController, for every finite set of replicas, for    *)
(* all names, paths, manifests and handlers, for both stores, and for any  *)
(* number of faults, restarts and other events.                            *)
(***************************************************************************)
EXTENDS CertController, TLAPS, FiniteSetTheorems

-----------------------------------------------------------------------------
(***************************************************************************)
(* Names for new CAs.                                                      *)
(***************************************************************************)

\* A function on the replicas takes at most as many values as there are replicas.
LEMMA ImageSize ==
  ASSUME NEW f, NEW T, T = {f[r] : r \in Replicas}, f = [r \in Replicas |-> f[r]]
  PROVE  IsFiniteSet(T) /\ Cardinality(T) <= Cardinality(Replicas)
<1>1. f \in Surjection(Replicas, T)
  BY DEF Surjection
<1>2. QED
  BY <1>1, FS_Surjection, CertAssumption

\* The CAs in use are those of the secret, of the directories, of the syncs in
\* progress and of the configurations.
LEMMA InUseParts ==
  InUse \subseteq {secret.cert.ca} \cup {dir[r].ca : r \in Replicas}
                    \cup {w[r].cert.ca : r \in Replicas}
                    \cup {conf["mutating"].ca, conf["validating"].ca}
BY DEF InUse, Kinds

\* There is always a name for a new CA.
LEMMA FreshCA == NewCA \in CAs /\ NewCA \notin InUse
<1> DEFINE D == [r \in Replicas |-> dir[r].ca]
           W == [r \in Replicas |-> w[r].cert.ca]
           A == {secret.cert.ca}
           B == {D[r] : r \in Replicas}
           C == {W[r] : r \in Replicas}
           M == {conf["mutating"].ca}
           V == {conf["validating"].ca}
           n == Cardinality(Replicas)
<1>1. n \in Nat
  BY FS_CardinalityType, CertAssumption
<1>2. IsFiniteSet(B) /\ Cardinality(B) <= n
  <2> HIDE DEF n
  <2>1. D = [r \in Replicas |-> D[r]]
    OBVIOUS
  <2> HIDE DEF D
  <2>2. QED
    BY <2>1, ImageSize DEF n
<1>3. IsFiniteSet(C) /\ Cardinality(C) <= n
  <2> HIDE DEF n
  <2>1. W = [r \in Replicas |-> W[r]]
    OBVIOUS
  <2> HIDE DEF W
  <2>2. QED
    BY <2>1, ImageSize DEF n
<1>4. /\ IsFiniteSet(A) /\ Cardinality(A) = 1
      /\ IsFiniteSet(M) /\ Cardinality(M) = 1
      /\ IsFiniteSet(V) /\ Cardinality(V) = 1
  BY FS_Singleton
<1> HIDE DEF A, B, C, M, V, n
<1>5. ASSUME NEW S, NEW T, IsFiniteSet(S), IsFiniteSet(T)
      PROVE  /\ IsFiniteSet(S \cup T)
             /\ Cardinality(S \cup T) \in Nat /\ Cardinality(S) \in Nat
             /\ Cardinality(T) \in Nat
             /\ Cardinality(S \cup T) <= Cardinality(S) + Cardinality(T)
  <2>1. IsFiniteSet(S \cup T) /\ IsFiniteSet(S \cap T)
    BY <1>5, FS_Union, FS_Intersection
  <2>2. Cardinality(S \cap T) \in Nat /\ Cardinality(S \cup T) \in Nat
          /\ Cardinality(S) \in Nat /\ Cardinality(T) \in Nat
    BY <1>5, <2>1, FS_CardinalityType
  <2>3. Cardinality(S \cup T) = Cardinality(S) + Cardinality(T) - Cardinality(S \cap T)
    BY <1>5, FS_Union
  <2>4. QED
    BY <2>1, <2>2, <2>3
<1>6. IsFiniteSet(B \cup C) /\ Cardinality(B \cup C) <= 2 * n
  BY <1>1, <1>2, <1>3, <1>5
<1>7. IsFiniteSet(A \cup M) /\ Cardinality(A \cup M) <= 2
  BY <1>4, <1>5
<1>8. IsFiniteSet((A \cup M) \cup V) /\ Cardinality((A \cup M) \cup V) <= 3
  BY <1>4, <1>5, <1>7
<1> DEFINE U == (B \cup C) \cup ((A \cup M) \cup V)
<1>9. IsFiniteSet(U) /\ Cardinality(U) <= 2 * n + 3 /\ Cardinality(U) \in Nat
  BY <1>1, <1>5, <1>6, <1>8
<1>10. InUse \subseteq U
  BY InUseParts DEF A, B, C, M, V
<1>11. IsFiniteSet(CAs) /\ Cardinality(CAs) = MaxCAs
  BY FS_Interval, CertAssumption DEF CAs
<1> HIDE DEF U
<1>12. ~(CAs \subseteq U)
  <2>1. ASSUME CAs \subseteq U PROVE FALSE
    <3>1. Cardinality(CAs) <= Cardinality(U)
      BY <1>9, <2>1, FS_Subset
    <3>2. QED
      BY <1>1, <1>9, <1>11, <3>1, CertAssumption DEF n
  <2>2. QED
    BY <2>1
<1>13. \E ca \in CAs : ca \notin InUse
  BY <1>10, <1>12
<1>14. QED
  BY <1>13 DEF NewCA

\* Whatever a certificate in use was signed by is a CA in use.
LEMMA UsedCAs ==
  /\ secret.cert # None => secret.cert.ca \in InUse
  /\ \A r \in Replicas : dir[r] # None => dir[r].ca \in InUse
  /\ \A r \in Replicas : w[r].cert # None => w[r].cert.ca \in InUse
  /\ \A kind \in Kinds : conf[kind].ca \in InUse
BY DEF InUse

-----------------------------------------------------------------------------
(***************************************************************************)
(* Types.                                                                  *)
(***************************************************************************)

\* A generated certificate is one, for the replica's name.
LEMMA GenerateType ==
  ASSUME TypeOK, NEW r \in Replicas, NEW cert \in Certs \cup {None}
  PROVE  Generate(r, cert) \in Certs /\ Generate(r, cert).name = dnsName[r]
BY FreshCA DEF Generate, TypeOK, Certs

\* The locals of an idle sync, and what their parts are.
LEMMA IdleType ==
  Idle \in Syncs /\ Idle.pc = "idle" /\ Idle.cert = None /\ Idle.todo = {}
BY DEF Idle, Syncs

\* The points of sync.
PCs == {"idle", "create", "reread", "overwrite", "dir", "update"} \cup Kinds

\* A sync ends: nobody else's locals change.
LEMMA ReturnStep ==
  ASSUME TypeOK, NEW r \in Replicas, Return(r)
  PROVE  /\ w' \in [Replicas -> Syncs]
         /\ w'[r] = Idle
         /\ \A s \in Replicas : s # r => w'[s] = w[s]
         /\ \A s \in Replicas : w'[s].cert \in {w[s].cert, None}
BY IdleType DEF TypeOK, Return

\* A sync goes on: nobody else's locals change.
LEMMA GotoStep ==
  ASSUME TypeOK, NEW r \in Replicas, NEW pc \in PCs, NEW cert \in Certs \cup {None},
         Goto(r, pc, cert)
  PROVE  /\ w' \in [Replicas -> Syncs]
         /\ w'[r].pc = pc /\ w'[r].cert = cert
         /\ \A s \in Replicas : s # r => w'[s] = w[s]
         /\ \A s \in Replicas : w'[s].cert \in {w[s].cert, cert}
<1>1. [pc |-> pc, cert |-> cert, todo |-> {}] \in Syncs
  BY DEF Syncs, PCs
<1>2. w' \in [Replicas -> Syncs] /\ \A s \in Replicas : s # r => w'[s] = w[s]
  BY <1>1 DEF Goto, TypeOK
<1>3. w'[r] = [pc |-> pc, cert |-> cert, todo |-> {}]
  BY DEF Goto, TypeOK
<1>4. QED
  BY <1>2, <1>3

\* Reading and writing an object keeps the set of outdated readers typed.
LEMMA MovedType ==
  ASSUME TypeOK, NEW r \in Replicas, NEW o \in Objects
  PROVE  /\ Seen(r, o) => moved' \subseteq Replicas \X Objects
         /\ Written(r, o) => moved' \subseteq Replicas \X Objects
BY DEF Seen, Written, TypeOK

\* A failed call is counted.
LEMMA EventType ==
  ASSUME TypeOK, Event
  PROVE  events' \in 0 .. MaxEvents
BY CertAssumption DEF TypeOK, Event

\* A new certificate in the secret.
LEMMA StoreTypes ==
  ASSUME TypeOK, NEW r \in Replicas, NEW cert \in Certs
  PROVE  /\ Issue(cert) => /\ caAge' \in [CAs -> {"fresh", "aging", "old"}]
                           /\ issued' \subseteq Certs
         /\ StoreCert(r, cert) =>
              /\ secret' \in [exists : BOOLEAN, cert : Certs \cup {None}]
              /\ moved' \subseteq Replicas \X Objects
<1>1. Issue(cert) => /\ caAge' \in [CAs -> {"fresh", "aging", "old"}]
                     /\ issued' \subseteq Certs
  BY DEF Issue, TypeOK
<1>2. StoreCert(r, cert) => moved' \subseteq Replicas \X Objects
  BY MovedType DEF StoreCert, Objects
<1>3. StoreCert(r, cert) => secret' \in [exists : BOOLEAN, cert : Certs \cup {None}]
  BY DEF StoreCert
<1>4. QED
  BY <1>1, <1>2, <1>3

\* The part of the types that a step of EnsureCert may touch.
CertTypes ==
  /\ secret \in [exists : BOOLEAN, cert : Certs \cup {None}]
  /\ caAge \in [CAs -> {"fresh", "aging", "old"}]
  /\ issued \subseteq Certs
  /\ moved \subseteq Replicas \X Objects

\* Steps on the secret.
LEMMA SecretTypes ==
  ASSUME TypeOK, NEW r \in Replicas, read(r) \/ write(r) \/ overwrite(r)
  PROVE  TypeOK'
<1>1. secret.cert \in Certs \cup {None} /\ w[r].cert \in Certs \cup {None}
  BY DEF TypeOK, Syncs
<1>2. /\ Generate(r, None) \in Certs
      /\ Generate(r, w[r].cert) \in Certs
  BY <1>1, GenerateType
<1>3. events' \in 0 .. MaxEvents
  BY EventType DEF read, write, overwrite, Fault, TypeOK
<1>4. w' \in [Replicas -> Syncs]
  <2>1. CASE read(r)
    BY <1>1, <2>1, ReturnStep, GotoStep DEF read, Fault, PCs
  <2>2. CASE write(r)
    BY <1>2, <2>2, ReturnStep, GotoStep DEF write, Fault, PCs
  <2>3. CASE overwrite(r)
    BY <1>2, <2>3, ReturnStep, GotoStep DEF overwrite, Fault, PCs
  <2>4. QED
    BY <2>1, <2>2, <2>3
<1>5. CertTypes'
  <2>1. CASE read(r)
    <3>1. moved' \subseteq Replicas \X Objects
      BY <2>1, MovedType DEF read, Objects, TypeOK
    <3>2. QED
      BY <2>1, <3>1 DEF read, CertTypes, TypeOK
  <2>2. ASSUME NEW cert \in Certs, StoreCert(r, cert)
        PROVE  CertTypes'
    BY <2>2, StoreTypes DEF CertTypes, StoreCert
  <2>3. CASE KeepSecret
    BY <2>3 DEF KeepSecret, CertTypes, TypeOK
  <2>4. CASE write(r) \/ overwrite(r)
    BY <1>2, <2>2, <2>3, <2>4 DEF write, overwrite
  <2>5. QED
    BY <2>1, <2>4
<1>6. UNCHANGED <<store, conf, dir, stuck, dnsName>>
  BY DEF read, write, overwrite
<1>7. QED
  BY <1>3, <1>4, <1>5, <1>6 DEF TypeOK, CertTypes

\* Steps on the replica's directory.
LEMMA DirTypes ==
  ASSUME TypeOK, NEW r \in Replicas, EnsureCertInDir(r) \/ WriteCertsToDir(r)
  PROVE  TypeOK'
<1>1. dir[r] \in Certs \cup {None} /\ w[r].cert \in Certs \cup {None}
  BY DEF TypeOK, Syncs
<1>2. Generate(r, None) \in Certs
  BY GenerateType
<1>3. events' \in 0 .. MaxEvents
  BY EventType DEF EnsureCertInDir, WriteCertsToDir, Fault, TypeOK
<1>4. w' \in [Replicas -> Syncs]
  <2>1. CASE EnsureCertInDir(r)
    BY <1>1, <1>2, <2>1, ReturnStep, GotoStep DEF EnsureCertInDir, Fault, PCs
  <2>2. CASE WriteCertsToDir(r)
    BY <1>1, <2>2, ReturnStep, GotoStep DEF WriteCertsToDir, Fault, PCs, Kinds
  <2>3. QED
    BY <2>1, <2>2
<1>5. dir' \in [Replicas -> Certs \cup {None}]
  BY <1>1, <1>2 DEF EnsureCertInDir, WriteCertsToDir, TypeOK
<1>6. caAge' \in [CAs -> {"fresh", "aging", "old"}] /\ issued' \subseteq Certs
  BY <1>2, StoreTypes DEF EnsureCertInDir, WriteCertsToDir, objects, TypeOK
<1>7. UNCHANGED <<store, secret, conf, moved, dnsName>>
  BY DEF EnsureCertInDir, WriteCertsToDir, objects
<1>8. stuck' \subseteq Replicas
  BY DEF EnsureCertInDir, WriteCertsToDir, CutShort, TypeOK
<1>9. QED
  BY <1>3, <1>4, <1>5, <1>6, <1>7, <1>8 DEF TypeOK

\* What Ensure makes of a configuration is one.
LEMMA EnsuredType ==
  ASSUME TypeOK, NEW r \in Replicas, NEW kind \in Kinds, w[r].cert # None
  PROVE  Ensured(r, kind) \in Configurations
<1>1. w[r].cert.ca \in CAs /\ dnsName[r] \in Names
  BY DEF TypeOK, Syncs, Certs
<1>2. Template(kind) \in SUBSET Paths
  BY DEF Template, TypeOK, Configurations
<1> DEFINE hooks == Template(kind) \cap Handlers
<1>3. hooks \in SUBSET Paths
  BY <1>2
<1>4. QED
  BY <1>1, <1>2, <1>3 DEF Ensured, Configurations

\* Reading the configurations: the certificate stays, or the sync ends.
LEMMA EnsureStep ==
  ASSUME TypeOK, NEW r \in Replicas, Ensure(r)
  PROVE  /\ w' \in [Replicas -> Syncs]
         /\ \A s \in Replicas : s # r => w'[s] = w[s]
         /\ \/ w'[r] = Idle
            \/ w'[r].pc \in {"validating", "update"} /\ w'[r].cert = w[r].cert
<1> DEFINE todo == w[r].todo \cup {k \in {w[r].pc} : conf[k] # Ensured(r, k)}
<1>1. w \in [Replicas -> Syncs] /\ w[r] \in Syncs /\ w[r].pc \in Kinds
  BY DEF Ensure, TypeOK
<1>2. todo \in SUBSET Kinds
  BY <1>1 DEF Syncs
<1> HIDE DEF todo
<1>3. CASE Fault(r)
  BY <1>3, ReturnStep, GotoStep DEF Fault
<1>4. ASSUME NEW pc \in {"validating", "update"},
             w' = [w EXCEPT ![r] = [@ EXCEPT !.pc = pc, !.todo = todo]]
      PROVE  /\ w' \in [Replicas -> Syncs]
             /\ \A s \in Replicas : s # r => w'[s] = w[s]
             /\ w'[r].pc = pc /\ w'[r].cert = w[r].cert
  <2>1. w' = [w EXCEPT ![r] = [w[r] EXCEPT !.pc = pc, !.todo = todo]]
    BY <1>4
  <2>2. [w[r] EXCEPT !.pc = pc, !.todo = todo] \in Syncs
    BY <1>1, <1>2 DEF Syncs, Kinds
  <2>3. w'[r] = [w[r] EXCEPT !.pc = pc, !.todo = todo]
    BY <1>1, <2>1
  <2>4. QED
    BY <1>1, <2>1, <2>2, <2>3 DEF Syncs
<1>5. CASE w' = [w EXCEPT ![r] = Idle]
  BY <1>1, <1>5, IdleType
<1>6. \/ Fault(r)
      \/ w' = [w EXCEPT ![r] = [@ EXCEPT !.pc = "validating", !.todo = todo]]
      \/ w' = [w EXCEPT ![r] = [@ EXCEPT !.pc = "update", !.todo = todo]]
      \/ w' = [w EXCEPT ![r] = Idle]
  BY DEF Ensure, todo
<1>7. QED
  BY <1>3, <1>4, <1>5, <1>6

\* Updating a configuration: the sync goes on to the other one, or ends.
LEMMA UpdateStep ==
  ASSUME TypeOK, NEW r \in Replicas, UpdateConfiguration(r)
  PROVE  /\ w' \in [Replicas -> Syncs]
         /\ \A s \in Replicas : s # r => w'[s] = w[s]
         /\ \/ w'[r] = Idle
            \/ w'[r].pc = "update" /\ w'[r].cert = w[r].cert
<1>1. w \in [Replicas -> Syncs] /\ w[r] \in Syncs /\ w[r].pc = "update"
  BY DEF UpdateConfiguration, TypeOK
<1>2. CASE Return(r)
  BY <1>2, ReturnStep, GotoStep
<1>3. ASSUME NEW kind \in Kinds, w' = [w EXCEPT ![r].todo = @ \ {kind}]
      PROVE  /\ w' \in [Replicas -> Syncs]
             /\ \A s \in Replicas : s # r => w'[s] = w[s]
             /\ w'[r].pc = "update" /\ w'[r].cert = w[r].cert
  <2>1. [w[r] EXCEPT !.todo = @ \ {kind}] \in Syncs
    BY <1>1 DEF Syncs
  <2>2. w' = [w EXCEPT ![r] = [w[r] EXCEPT !.todo = @ \ {kind}]]
    BY <1>1, <1>3
  <2>3. QED
    BY <1>1, <2>1, <2>2 DEF Syncs
<1>4. QED
  BY <1>2, <1>3 DEF UpdateConfiguration, Fault, Kinds

\* What an update stores: nothing, or what Ensure makes of one configuration.
LEMMA UpdateStores ==
  ASSUME NEW r \in Replicas, UpdateConfiguration(r)
  PROVE  \/ UNCHANGED conf /\ UNCHANGED moved
         \/ \E kind \in Kinds :
              conf' = [conf EXCEPT ![kind] = Ensured(r, kind)] /\ Written(r, kind)
BY DEF UpdateConfiguration, Kinds

\* A sync that has come to the directory has a certificate.
HasCert ==
  \A r \in Replicas :
    w[r].pc \in {"dir", "mutating", "validating", "update"} => w[r].cert # None

\* Steps on the configurations.
LEMMA ConfTypes ==
  ASSUME TypeOK, HasCert, NEW r \in Replicas, Ensure(r) \/ UpdateConfiguration(r)
  PROVE  TypeOK'
<1>1. w' \in [Replicas -> Syncs]
  BY EnsureStep, UpdateStep
<1>2. events' \in 0 .. MaxEvents
  BY EventType DEF Ensure, UpdateConfiguration, Fault, TypeOK
<1>3. conf' \in [Kinds -> Configurations] /\ moved' \subseteq Replicas \X Objects
  <2>1. CASE Ensure(r)
    <3>1. w[r].pc \in Objects /\ UNCHANGED conf
      BY <2>1 DEF Ensure, Objects
    <3>2. Seen(r, w[r].pc) \/ UNCHANGED moved
      BY <2>1 DEF Ensure
    <3>3. QED
      BY <3>1, <3>2, MovedType DEF TypeOK
  <2>2. CASE UpdateConfiguration(r)
    <3>1. w[r].cert # None
      BY <2>2 DEF UpdateConfiguration, HasCert
    <3>2. ASSUME NEW kind \in Kinds,
                 conf' = [conf EXCEPT ![kind] = Ensured(r, kind)], Written(r, kind)
          PROVE  conf' \in [Kinds -> Configurations] /\ moved' \subseteq Replicas \X Objects
      BY <3>1, <3>2, EnsuredType, MovedType DEF TypeOK, Objects
    <3>3. QED
      BY <2>2, <3>2, UpdateStores DEF TypeOK
  <2>3. QED
    BY <2>1, <2>2
<1>4. UNCHANGED <<store, caAge, secret, issued, dir, stuck, dnsName>>
  BY DEF Ensure, UpdateConfiguration
<1>5. QED
  BY <1>1, <1>2, <1>3, <1>4 DEF TypeOK

\* What happens around the controllers.
LEMMA AroundTypes ==
  ASSUME TypeOK,
         \/ \E r \in Replicas : Restart(r)
         \/ \E ca \in CAs : Age(ca)
         \/ \E kind \in Kinds : Reapply(kind)
         \/ DeleteSecret
  PROVE  TypeOK'
<1>1. ASSUME NEW r \in Replicas, Restart(r)
      PROVE  TypeOK'
  <2>1. w' \in [Replicas -> Syncs]
    BY <1>1, IdleType DEF Restart, TypeOK
  <2>2. /\ dir' \in [Replicas -> Certs \cup {None}] /\ dnsName' \in [Replicas -> Names]
        /\ stuck' \subseteq Replicas
    BY <1>1 DEF Restart, CutShort, TypeOK
  <2>3. QED
    BY <1>1, <2>1, <2>2, EventType DEF Restart, TypeOK, objects
<1>2. ASSUME NEW ca \in CAs, Age(ca)
      PROVE  TypeOK'
  BY <1>2, EventType DEF Age, TypeOK, objects
<1>3. ASSUME NEW kind \in Kinds, Reapply(kind)
      PROVE  TypeOK'
  <2>1. Applied(kind) \in Configurations
    BY CertAssumption DEF Applied, Configurations
  <2>2. conf' \in [Kinds -> Configurations] /\ moved' \subseteq Replicas \X Objects
    BY <1>3, <2>1 DEF Reapply, TypeOK, Objects
  <2>3. QED
    BY <1>3, <2>2, EventType DEF Reapply, TypeOK
<1>4. CASE DeleteSecret
  <2>1. moved' \subseteq Replicas \X Objects
    BY <1>4 DEF DeleteSecret, TypeOK, Objects
  <2>2. secret' \in [exists : BOOLEAN, cert : Certs \cup {None}]
    BY <1>4 DEF DeleteSecret
  <2>3. QED
    BY <1>4, <2>1, <2>2, EventType DEF DeleteSecret, TypeOK
<1>5. QED
  BY <1>1, <1>2, <1>3, <1>4

-----------------------------------------------------------------------------
(***************************************************************************)
(* A sync that writes has a certificate.                                   *)
(***************************************************************************)

\* The steps that get or make the certificate.
LEMMA EnsureCertHasCert ==
  ASSUME TypeOK, HasCert, NEW r \in Replicas,
         read(r) \/ write(r) \/ overwrite(r) \/ EnsureCertInDir(r)
  PROVE  HasCert'
<1>1. /\ secret.cert \in Certs \cup {None} /\ dir[r] \in Certs \cup {None}
      /\ w[r].cert \in Certs \cup {None}
  BY DEF TypeOK, Syncs
<1>2. /\ Generate(r, None) \in Certs /\ Generate(r, None) # None
      /\ Generate(r, w[r].cert) \in Certs /\ Generate(r, w[r].cert) # None
  BY <1>1, GenerateType, CertAssumption
<1>3. CASE Return(r)
  BY <1>3, ReturnStep, GotoStep, IdleType DEF HasCert
<1>4. ASSUME NEW cert \in Certs, Goto(r, "dir", cert), cert # None
      PROVE  HasCert'
  BY <1>4, ReturnStep, GotoStep DEF HasCert, PCs
<1>5. ASSUME NEW pc \in {"create", "reread", "overwrite"}, NEW cert \in Certs \cup {None},
             Goto(r, pc, cert)
      PROVE  HasCert'
  BY <1>5, ReturnStep, GotoStep DEF HasCert, PCs
<1>6. CASE read(r)
  <2>1. CASE secret.exists /\ validCert(r, secret.cert) /\ Goto(r, "dir", secret.cert)
    BY <1>1, <1>4, <2>1 DEF validCert
  <2>2. CASE Goto(r, "overwrite", secret.cert)
    BY <1>1, <1>5, <2>2
  <2>3. CASE Goto(r, "create", None)
    BY <1>5, <2>3
  <2>4. QED
    BY <1>3, <1>6, <2>1, <2>2, <2>3 DEF read, Fault
<1>7. CASE write(r)
  <2>1. CASE Goto(r, "reread", None)
    BY <1>5, <2>1
  <2>2. QED
    BY <1>2, <1>3, <1>4, <1>7, <2>1 DEF write, Fault
<1>8. CASE overwrite(r)
  BY <1>2, <1>3, <1>4, <1>8 DEF overwrite, Fault
<1>9. CASE EnsureCertInDir(r)
  BY <1>1, <1>2, <1>3, <1>4, <1>9 DEF EnsureCertInDir, Fault, validCert
<1>10. QED
  BY <1>6, <1>7, <1>8, <1>9

\* The steps that use it.
LEMMA UseHasCert ==
  ASSUME TypeOK, HasCert, NEW r \in Replicas,
         WriteCertsToDir(r) \/ Ensure(r) \/ UpdateConfiguration(r)
  PROVE  HasCert'
<1>1. w[r].cert # None /\ w[r].cert \in Certs \cup {None}
  BY DEF HasCert, WriteCertsToDir, Ensure, UpdateConfiguration, Kinds, TypeOK, Syncs
<1>2. CASE WriteCertsToDir(r)
  <2>1. CASE Return(r)
    BY <2>1, ReturnStep, GotoStep, IdleType DEF HasCert
  <2>2. CASE Goto(r, "mutating", w[r].cert)
    BY <1>1, <2>2, ReturnStep, GotoStep DEF HasCert, PCs, Kinds
  <2>3. QED
    BY <1>2, <2>1, <2>2 DEF WriteCertsToDir, Fault
<1>3. CASE Ensure(r)
  BY <1>1, <1>3, EnsureStep, IdleType DEF HasCert
<1>4. CASE UpdateConfiguration(r)
  BY <1>1, <1>4, UpdateStep, IdleType DEF HasCert
<1>5. QED
  BY <1>2, <1>3, <1>4

\* A restart gives up the sync in progress.
LEMMA RestartStep ==
  ASSUME TypeOK, NEW r \in Replicas, Restart(r)
  PROVE  w'[r] = Idle /\ \A s \in Replicas : s # r => w'[s] = w[s]
BY DEF Restart, TypeOK

\* Types and HasCert together are inductive.
LEMMA NextTypes ==
  ASSUME TypeOK, HasCert, [Next]_vars
  PROVE  TypeOK' /\ HasCert'
<1>1. ASSUME NEW r \in Replicas, SyncStep(r)
      PROVE  TypeOK' /\ HasCert'
  BY <1>1, SecretTypes, DirTypes, ConfTypes, EnsureCertHasCert, UseHasCert DEF SyncStep
<1>2. ASSUME NEW r \in Replicas, Restart(r)
      PROVE  TypeOK' /\ HasCert'
  <2>1. HasCert'
    BY <1>2, RestartStep, IdleType DEF HasCert
  <2>2. QED
    BY <1>2, <2>1, AroundTypes
<1>3. CASE \/ \E ca \in CAs : Age(ca)
           \/ \E kind \in Kinds : Reapply(kind)
           \/ DeleteSecret
  <2>1. UNCHANGED w
    BY <1>3 DEF Age, Reapply, DeleteSecret
  <2>2. QED
    BY <1>3, <2>1, AroundTypes DEF HasCert
<1>4. CASE UNCHANGED vars
  BY <1>4 DEF vars, objects, TypeOK, HasCert
<1>5. QED
  BY <1>1, <1>2, <1>3, <1>4 DEF Next

\* The initial states are typed.
LEMMA InitTypes ==
  ASSUME Init
  PROVE  TypeOK /\ HasCert
<1>1. w \in [Replicas -> Syncs] /\ HasCert
  BY IdleType DEF Init, HasCert
<1>2. conf \in [Kinds -> Configurations]
  <2>1. \A kind \in Kinds : Applied(kind) \in Configurations
    BY CertAssumption DEF Applied, Configurations
  <2>2. QED
    BY <2>1 DEF Init
<1>3. secret \in [exists : BOOLEAN, cert : Certs \cup {None}]
  BY DEF Init
<1>4. dnsName \in [Replicas -> Names] /\ dir \in [Replicas -> Certs \cup {None}]
  BY DEF Init
<1>5. events \in 0 .. MaxEvents
  BY CertAssumption DEF Init
<1>6. QED
  BY <1>1, <1>2, <1>3, <1>4, <1>5 DEF Init, TypeOK

\* Types hold in every state; in particular a sync that stores, writes or
\* publishes a certificate has one.
LEMMA TypeInvariant == Spec => [](TypeOK /\ HasCert)
<1>1. Init => TypeOK /\ HasCert
  BY InitTypes
<1>2. TypeOK /\ HasCert /\ [Next]_vars => (TypeOK /\ HasCert)'
  BY NextTypes
<1>3. QED
  BY <1>1, <1>2, PTL DEF Spec

\* Type correctness: secret, directories, configurations and the locals of every
\* replica's sync keep their types; new CAs never run out of names.
THEOREM TypeCorrect == Spec => []TypeOK
BY TypeInvariant, PTL

-----------------------------------------------------------------------------
(***************************************************************************)
(* Only certificates that were stored are served or published.             *)
(***************************************************************************)

\* OnlyStoredCerts is about directories and configurations; they get what a sync
\* holds, which comes from the secret.
StoredInv ==
  /\ secret.cert \in issued \cup {None}
  /\ \A r \in Replicas : w[r].cert \in issued \cup {None}
  /\ OnlyStoredCerts

\* A step that stores `cert': what is in use stays issued.
LEMMA IssueKeeps ==
  ASSUME TypeOK, StoredInv, NEW cert \in Certs, Issue(cert),
         secret'.cert \in {secret.cert, cert},
         \A r \in Replicas : dir'[r] \in {dir[r], cert},
         \A r \in Replicas : w'[r].cert \in {w[r].cert, None, cert},
         UNCHANGED conf
  PROVE  StoredInv'
<1>1. /\ cert \in issued'
      /\ \A c \in issued : c.ca \in InUse => c \in issued'
  BY DEF Issue
<1>2. secret'.cert \in issued' \cup {None}
  BY <1>1, UsedCAs DEF StoredInv
<1>3. \A r \in Replicas : w'[r].cert \in issued' \cup {None}
  BY <1>1, UsedCAs DEF StoredInv
<1>4. \A r \in Replicas : dir'[r] \in issued' \cup {None}
  BY <1>1, UsedCAs DEF StoredInv, OnlyStoredCerts
<1>5. \A kind \in Kinds : conf'[kind].ca \in {c.ca : c \in issued'} \cup {None}
  <2> TAKE kind \in Kinds
  <2>1. CASE conf[kind].ca = None
    BY <2>1
  <2>2. CASE conf[kind].ca # None
    <3>1. PICK c \in issued : c.ca = conf[kind].ca
      BY <2>2 DEF StoredInv, OnlyStoredCerts
    <3>2. c \in issued'
      BY <1>1, <3>1, UsedCAs
    <3>3. QED
      BY <3>1, <3>2
  <2>3. QED
    BY <2>1, <2>2
<1>6. QED
  BY <1>2, <1>3, <1>4, <1>5 DEF StoredInv, OnlyStoredCerts

\* A step that stores nothing hands certificates on.
LEMMA HandOn ==
  ASSUME TypeOK, StoredInv, UNCHANGED issued,
         secret'.cert \in {secret.cert, None},
         \A r \in Replicas : dir'[r] \in {dir[r], w[r].cert, None},
         \A r \in Replicas : w'[r].cert \in {w[r].cert, None, secret.cert, dir[r]},
         \A kind \in Kinds :
           \/ conf'[kind].ca \in {conf[kind].ca, None}
           \/ \E r \in Replicas : w[r].cert # None /\ conf'[kind].ca = w[r].cert.ca
  PROVE  StoredInv'
BY DEF StoredInv, OnlyStoredCerts

\* EnsureCert keeps StoredInv: the loser of a race drops what it generated.
LEMMA EnsureCertStored ==
  ASSUME TypeOK, StoredInv, NEW r \in Replicas,
         read(r) \/ write(r) \/ overwrite(r) \/ EnsureCertInDir(r)
  PROVE  StoredInv'
<1>1. /\ secret.cert \in Certs \cup {None} /\ dir[r] \in Certs \cup {None}
      /\ w[r].cert \in Certs \cup {None}
  BY DEF TypeOK, Syncs
<1>2. Generate(r, None) \in Certs /\ Generate(r, w[r].cert) \in Certs
  BY <1>1, GenerateType
<1>3. /\ Return(r) => \A s \in Replicas : w'[s].cert \in {w[s].cert, None}
      /\ \A pc \in PCs, cert \in Certs \cup {None} :
           Goto(r, pc, cert) => \A s \in Replicas : w'[s].cert \in {w[s].cert, cert}
  BY ReturnStep, GotoStep, IdleType
<1>4. CASE read(r)
  <2>1. \A s \in Replicas : w'[s].cert \in {w[s].cert, None, secret.cert}
    BY <1>1, <1>3, <1>4 DEF read, Fault, PCs
  <2>2. UNCHANGED <<secret, conf, issued, dir>>
    BY <1>4 DEF read
  <2>3. QED
    BY <2>1, <2>2, HandOn
<1>5. ASSUME NEW cert \in Certs, StoreCert(r, cert), UNCHANGED <<conf, dir>>,
             Goto(r, "dir", cert) \/ Return(r)
      PROVE  StoredInv'
  <2>1. \A s \in Replicas : w'[s].cert \in {w[s].cert, None, cert}
    BY <1>3, <1>5 DEF PCs
  <2>2. secret'.cert = cert /\ Issue(cert)
    BY <1>5 DEF StoreCert
  <2>3. QED
    BY <1>5, <2>1, <2>2, IssueKeeps
<1>6. ASSUME KeepSecret, UNCHANGED <<conf, dir>>,
             Goto(r, "reread", None) \/ Return(r)
      PROVE  StoredInv'
  <2>1. \A s \in Replicas : w'[s].cert \in {w[s].cert, None}
    BY <1>3, <1>6 DEF PCs
  <2>2. QED
    BY <1>6, <2>1, HandOn DEF KeepSecret
<1>7. CASE write(r) \/ overwrite(r)
  BY <1>2, <1>5, <1>6, <1>7 DEF write, overwrite, Fault
<1>8. CASE EnsureCertInDir(r)
  <2> DEFINE new == Generate(r, None)
  <2>1. UNCHANGED <<secret, conf>>
    BY <1>8 DEF EnsureCertInDir
  <2>2. CASE /\ Issue(new) /\ dir' = [dir EXCEPT ![r] = new]
             /\ Goto(r, "dir", new) \/ Return(r)
    <3>1. \A s \in Replicas : w'[s].cert \in {w[s].cert, None, new}
      BY <1>2, <1>3, <2>2 DEF PCs
    <3>2. \A s \in Replicas : dir'[s] \in {dir[s], new}
      BY <2>2 DEF TypeOK
    <3>3. QED
      BY <1>2, <2>1, <2>2, <3>1, <3>2, IssueKeeps
  <2>3. CASE UNCHANGED <<issued, dir>> /\ (Goto(r, "dir", dir[r]) \/ Return(r))
    <3>1. \A s \in Replicas : w'[s].cert \in {w[s].cert, None, dir[s]}
      BY <1>1, <2>3, ReturnStep, GotoStep, IdleType DEF PCs
    <3>2. QED
      BY <2>1, <2>3, <3>1, HandOn
  <2>4. QED
    BY <1>8, <2>2, <2>3 DEF EnsureCertInDir, Fault
<1>9. QED
  BY <1>4, <1>7, <1>8

\* The directory and the configurations get the sync's certificate.
LEMMA UseStored ==
  ASSUME TypeOK, HasCert, StoredInv, NEW r \in Replicas,
         WriteCertsToDir(r) \/ Ensure(r) \/ UpdateConfiguration(r)
  PROVE  StoredInv'
<1>1. w[r].cert # None /\ w[r].cert \in Certs \cup {None}
  BY DEF HasCert, WriteCertsToDir, Ensure, UpdateConfiguration, Kinds, TypeOK, Syncs
<1>2. CASE WriteCertsToDir(r)
  <2>1. \A s \in Replicas : w'[s].cert \in {w[s].cert, None}
    BY <1>1, <1>2, ReturnStep, GotoStep, IdleType DEF WriteCertsToDir, Fault, PCs, Kinds
  <2>2. \A s \in Replicas : dir'[s] \in {dir[s], w[s].cert}
    BY <1>2 DEF WriteCertsToDir, TypeOK
  <2>3. UNCHANGED <<secret, conf, issued>>
    BY <1>2 DEF WriteCertsToDir, objects
  <2>4. QED
    BY <2>1, <2>2, <2>3, HandOn
<1>3. CASE Ensure(r)
  <2>1. \A s \in Replicas : w'[s].cert \in {w[s].cert, None}
    BY <1>3, EnsureStep, IdleType
  <2>2. UNCHANGED <<secret, conf, issued, dir>>
    BY <1>3 DEF Ensure
  <2>3. QED
    BY <2>1, <2>2, HandOn
<1>4. CASE UpdateConfiguration(r)
  <2>1. \A s \in Replicas : w'[s].cert \in {w[s].cert, None}
    BY <1>4, UpdateStep, IdleType
  <2>2. UNCHANGED <<secret, issued, dir>>
    BY <1>4 DEF UpdateConfiguration
  <2>3. \A kind \in Kinds :
           conf'[kind].ca \in {conf[kind].ca, None, w[r].cert.ca}
    BY <1>4, UpdateStores DEF TypeOK, Ensured
  <2>4. QED
    BY <1>1, <2>1, <2>2, <2>3, HandOn
<1>5. QED
  BY <1>2, <1>3, <1>4

\* Nothing around the controllers brings in a certificate.
LEMMA AroundStored ==
  ASSUME TypeOK, StoredInv,
         \/ \E r \in Replicas : Restart(r)
         \/ \E ca \in CAs : Age(ca)
         \/ \E kind \in Kinds : Reapply(kind)
         \/ DeleteSecret
  PROVE  StoredInv'
<1>1. ASSUME NEW r \in Replicas, Restart(r)
      PROVE  StoredInv'
  <2>1. \A s \in Replicas : w'[s].cert \in {w[s].cert, None}
    BY <1>1, RestartStep, IdleType
  <2>2. \A s \in Replicas : dir'[s] \in {dir[s], None}
    BY <1>1 DEF Restart, TypeOK
  <2>3. QED
    BY <1>1, <2>1, <2>2, HandOn DEF Restart, objects
<1>2. ASSUME NEW ca \in CAs, Age(ca)
      PROVE  StoredInv'
  BY <1>2, HandOn DEF Age, objects
<1>3. ASSUME NEW kind \in Kinds, Reapply(kind)
      PROVE  StoredInv'
  <2>1. \A k \in Kinds : conf'[k].ca \in {conf[k].ca, None}
    BY <1>3 DEF Reapply, Applied, TypeOK
  <2>2. QED
    BY <1>3, <2>1, HandOn DEF Reapply
<1>4. CASE DeleteSecret
  BY <1>4, HandOn DEF DeleteSecret
<1>5. QED
  BY <1>1, <1>2, <1>3, <1>4

\* The certificates held anywhere were stored.
LEMMA StoredInvariant == Spec => [](TypeOK /\ HasCert /\ StoredInv)
<1>1. Init => StoredInv
  BY IdleType DEF Init, StoredInv, OnlyStoredCerts, Applied
<1>2. ASSUME TypeOK, HasCert, StoredInv, [Next]_vars
      PROVE  StoredInv'
  <2>1. CASE UNCHANGED vars
    BY <1>2, <2>1 DEF vars, objects, StoredInv, OnlyStoredCerts
  <2>2. QED
    BY <1>2, <2>1, EnsureCertStored, UseStored, AroundStored DEF Next, SyncStep
<1>3. QED
  BY <1>1, <1>2, TypeInvariant, PTL DEF Spec

\* Losers of a race serve and publish the winner's certificate: what a directory
\* holds, and the CA in a webhook configuration, is of a certificate that was in
\* a store, whatever calls failed and replicas restarted.
THEOREM StoredSafe == Spec => []OnlyStoredCerts
<1>1. StoredInv => OnlyStoredCerts
  BY DEF StoredInv
<1>2. QED
  BY <1>1, StoredInvariant, PTL

-----------------------------------------------------------------------------
(***************************************************************************)
(* A good CA stays.                                                        *)
(***************************************************************************)

\* A replica about to overwrite either holds what the secret holds, or will be
\* refused; and what it holds was, and is, not valid for it.
ReadOK(r) ==
  w[r].pc = "overwrite" =>
    /\ <<r, "secret">> \notin moved => w[r].cert = secret.cert
    /\ ~validCert(r, w[r].cert)

ReadInv ==
  /\ secret.cert # None => secret.exists
  /\ \A r \in Replicas : ReadOK(r)

\* CAs in use get no younger.
AgesOn == \A ca \in InUse : ca \in CAs /\ caAge[ca] = "old" => caAge'[ca] = "old"

\* No step makes a CA in use younger.
LEMMA CAsAge ==
  ASSUME TypeOK, Next
  PROVE  AgesOn
<1>1. CASE UNCHANGED caAge
  BY <1>1 DEF AgesOn
<1>2. ASSUME NEW cert, Issue(cert)
      PROVE  AgesOn
  BY <1>2 DEF Issue, AgesOn, TypeOK
<1>3. ASSUME NEW ca \in CAs, Age(ca)
      PROVE  AgesOn
  BY <1>3 DEF Age, AgesOn, TypeOK
<1>4. ASSUME NEW r \in Replicas, SyncStep(r) \/ Restart(r)
      PROVE  AgesOn
  BY <1>1, <1>2, <1>4
     DEF SyncStep, read, write, overwrite, EnsureCertInDir, WriteCertsToDir, Ensure,
         UpdateConfiguration, Restart, StoreCert, KeepSecret
<1>5. QED
  BY <1>1, <1>3, <1>4 DEF Next, Reapply, DeleteSecret

\* A replica that takes no step stays as it is: another one's write of the secret
\* only makes it outdated.
LEMMA BystanderOK ==
  ASSUME TypeOK, AgesOn, NEW r \in Replicas, ReadOK(r),
         w'[r] = w[r], dnsName'[r] = dnsName[r],
         <<r, "secret">> \notin moved'
           => <<r, "secret">> \notin moved /\ secret'.cert = secret.cert
  PROVE  ReadOK(r)'
<1> SUFFICES ASSUME w[r].pc = "overwrite"
             PROVE  /\ <<r, "secret">> \notin moved' => w[r].cert = secret'.cert
                    /\ ~validCert(r, w[r].cert)'
  BY DEF ReadOK
<1>1. <<r, "secret">> \notin moved' => w[r].cert = secret'.cert
  BY DEF ReadOK
<1>2. ~validCert(r, w[r].cert)
  BY DEF ReadOK
<1>3. w[r].cert # None => w[r].cert.ca \in InUse /\ w[r].cert.ca \in CAs
  BY UsedCAs DEF TypeOK, Syncs, Certs
<1>4. ~validCert(r, w[r].cert)'
  BY <1>2, <1>3 DEF validCert, AgesOn, TypeOK
<1>5. QED
  BY <1>1, <1>4

\* A write of an object tells every other replica that it is out of date.
LEMMA WrittenMoves ==
  ASSUME NEW r \in Replicas, NEW o, Written(r, o)
  PROVE  \A s \in Replicas : s # r => <<s, o>> \in moved'
BY DEF Written

\* Steps on the secret.
LEMMA SecretReads ==
  ASSUME TypeOK, ReadInv, AgesOn, NEW r \in Replicas,
         read(r) \/ write(r) \/ overwrite(r)
  PROVE  ReadInv'
<1>1. secret.cert \in Certs \cup {None} /\ w[r].cert \in Certs \cup {None}
  BY DEF TypeOK, Syncs
<1>2. /\ Generate(r, None) \in Certs
      /\ Generate(r, w[r].cert) \in Certs
  BY <1>1, GenerateType
<1>3. UNCHANGED dnsName
  BY DEF read, write, overwrite
<1>4. \A s \in Replicas : s # r => w'[s] = w[s]
  <2>1. CASE read(r)
    BY <1>1, <2>1, ReturnStep, GotoStep DEF read, Fault, PCs
  <2>2. CASE write(r) \/ overwrite(r)
    BY <1>2, <2>2, ReturnStep, GotoStep DEF write, overwrite, Fault, PCs
  <2>3. QED
    BY <2>1, <2>2
<1>5. ASSUME NEW cert \in Certs, StoreCert(r, cert), w'[r].pc # "overwrite"
      PROVE  ReadInv'
  <2>1. secret'.exists
    BY <1>5 DEF StoreCert
  <2>2. \A s \in Replicas : s # r => <<s, "secret">> \in moved'
    BY <1>5, WrittenMoves DEF StoreCert
  <2>3. \A s \in Replicas : ReadOK(s)'
    <3> TAKE s \in Replicas
    <3>1. CASE s = r
      BY <1>5, <3>1 DEF ReadOK
    <3>2. CASE s # r
      BY <1>3, <1>4, <2>2, <3>2, BystanderOK DEF ReadInv
    <3>3. QED
      BY <3>1, <3>2
  <2>4. QED
    BY <2>1, <2>3 DEF ReadInv
<1>6. ASSUME UNCHANGED secret, ReadOK(r)',
             \A s \in Replicas : s # r => (<<s, "secret">> \in moved' <=> <<s, "secret">> \in moved)
      PROVE  ReadInv'
  <2>1. \A s \in Replicas : s # r => ReadOK(s)'
    BY <1>3, <1>4, <1>6, BystanderOK DEF ReadInv
  <2>2. QED
    BY <1>6, <2>1 DEF ReadInv
<1>7. CASE read(r)
  <2>1. UNCHANGED secret
    BY <1>7 DEF read
  <2>2. \A s \in Replicas : s # r => (<<s, "secret">> \in moved' <=> <<s, "secret">> \in moved)
    BY <1>7 DEF read, Seen
  <2>3. ReadOK(r)'
    <3>1. CASE Return(r) \/ Goto(r, "create", None) \/ Goto(r, "dir", secret.cert)
      BY <1>1, <3>1, ReturnStep, GotoStep, IdleType DEF ReadOK, PCs
    <3>2. CASE ~validCert(r, secret.cert) /\ Goto(r, "overwrite", secret.cert)
      <4>1. w'[r].cert = secret.cert
        BY <1>1, <3>2, GotoStep DEF PCs
      <4>2. UNCHANGED <<caAge, dnsName>>
        BY <1>7 DEF read
      <4>3. QED
        BY <2>1, <3>2, <4>1, <4>2 DEF ReadOK, validCert
    <3>3. QED
      BY <1>7, <3>1, <3>2 DEF read, Fault
  <2>4. QED
    BY <1>6, <2>1, <2>2, <2>3
<1>8. CASE write(r) \/ overwrite(r)
  <2>1. w'[r].pc # "overwrite"
    BY <1>2, <1>8, ReturnStep, GotoStep, IdleType DEF write, overwrite, Fault, PCs
  <2>2. CASE KeepSecret
    BY <1>6, <2>1, <2>2 DEF KeepSecret, ReadOK
  <2>3. QED
    BY <1>2, <1>5, <1>8, <2>1, <2>2 DEF write, overwrite
<1>9. QED
  BY <1>7, <1>8

\* The other steps of sync do not touch the secret.
LEMMA OtherReads ==
  ASSUME TypeOK, ReadInv, AgesOn, NEW r \in Replicas,
         EnsureCertInDir(r) \/ WriteCertsToDir(r) \/ Ensure(r) \/ UpdateConfiguration(r)
  PROVE  ReadInv'
<1>1. dir[r] \in Certs \cup {None} /\ w[r].cert \in Certs \cup {None}
  BY DEF TypeOK, Syncs
<1>2. Generate(r, None) \in Certs
  BY GenerateType
<1>3. UNCHANGED <<secret, dnsName>>
  BY DEF EnsureCertInDir, WriteCertsToDir, Ensure, UpdateConfiguration, objects
<1>4. w'[r].pc # "overwrite" /\ \A s \in Replicas : s # r => w'[s] = w[s]
  <2>1. CASE EnsureCertInDir(r)
    BY <1>1, <1>2, <2>1, ReturnStep, GotoStep, IdleType DEF EnsureCertInDir, Fault, PCs
  <2>2. CASE WriteCertsToDir(r)
    BY <1>1, <2>2, ReturnStep, GotoStep, IdleType DEF WriteCertsToDir, Fault, PCs, Kinds
  <2>3. CASE Ensure(r) \/ UpdateConfiguration(r)
    BY <2>3, EnsureStep, UpdateStep, IdleType
  <2>4. QED
    BY <2>1, <2>2, <2>3
<1>5. \A s \in Replicas : <<s, "secret">> \in moved' <=> <<s, "secret">> \in moved
  <2>1. CASE UNCHANGED moved
    BY <2>1
  <2>2. ASSUME NEW kind \in Kinds, Seen(r, kind) \/ Written(r, kind)
        PROVE  \A s \in Replicas : <<s, "secret">> \in moved' <=> <<s, "secret">> \in moved
    BY <2>2 DEF Seen, Written, Kinds
  <2>3. QED
    BY <2>1, <2>2, UpdateStores
       DEF EnsureCertInDir, WriteCertsToDir, Ensure, objects
<1>6. \A s \in Replicas : ReadOK(s)'
  <2> TAKE s \in Replicas
  <2>1. CASE s = r
    BY <1>4, <2>1 DEF ReadOK
  <2>2. CASE s # r
    BY <1>3, <1>4, <1>5, <2>2, BystanderOK DEF ReadInv
  <2>3. QED
    BY <2>1, <2>2
<1>7. QED
  BY <1>3, <1>6 DEF ReadInv

\* What happens around the controllers.
LEMMA AroundReads ==
  ASSUME TypeOK, ReadInv, AgesOn,
         \/ \E r \in Replicas : Restart(r)
         \/ \E ca \in CAs : Age(ca)
         \/ \E kind \in Kinds : Reapply(kind)
         \/ DeleteSecret
  PROVE  ReadInv'
<1>1. ASSUME NEW r \in Replicas, Restart(r)
      PROVE  ReadInv'
  <2>1. UNCHANGED <<secret, moved>>
    BY <1>1 DEF Restart, objects
  <2>2. \A s \in Replicas : s # r => dnsName'[s] = dnsName[s]
    BY <1>1 DEF Restart, TypeOK
  <2>3. \A s \in Replicas : ReadOK(s)'
    <3> TAKE s \in Replicas
    <3>1. CASE s = r
      BY <1>1, <3>1, RestartStep, IdleType DEF ReadOK
    <3>2. CASE s # r
      BY <1>1, <2>1, <2>2, <3>2, RestartStep, BystanderOK DEF ReadInv
    <3>3. QED
      BY <3>1, <3>2
  <2>4. QED
    BY <2>1, <2>3 DEF ReadInv
<1>2. CASE (\E ca \in CAs : Age(ca)) \/ (\E kind \in Kinds : Reapply(kind))
  <2>1. UNCHANGED <<secret, w, dnsName>>
    BY <1>2 DEF Age, Reapply, objects
  <2>2. \A s \in Replicas : <<s, "secret">> \in moved => <<s, "secret">> \in moved'
    BY <1>2 DEF Age, Reapply, objects
  <2>3. QED
    BY <2>1, <2>2, BystanderOK DEF ReadInv
<1>3. CASE DeleteSecret
  <2>1. UNCHANGED <<w, dnsName>> /\ secret'.cert = None
    BY <1>3 DEF DeleteSecret
  <2>2. \A s \in Replicas : <<s, "secret">> \in moved'
    BY <1>3 DEF DeleteSecret
  <2>3. QED
    BY <2>1, <2>2, BystanderOK DEF ReadInv
<1>4. QED
  BY <1>1, <1>2, <1>3

\* What is known of a replica about to overwrite holds in every state.
LEMMA ReadInvariant == Spec => [](TypeOK /\ HasCert /\ ReadInv)
<1>1. Init => ReadInv
  BY IdleType DEF Init, ReadInv, ReadOK
<1>2. ASSUME TypeOK, ReadInv, [Next]_vars
      PROVE  ReadInv'
  <2>1. CASE UNCHANGED vars
    BY <1>2, <2>1 DEF vars, objects, ReadInv, ReadOK, validCert
  <2>2. CASE Next
    BY <1>2, <2>2, CAsAge, SecretReads, OtherReads, AroundReads DEF Next, SyncStep
  <2>3. QED
    BY <1>2, <2>1, <2>2
<1>3. QED
  BY <1>1, <1>2, TypeInvariant, PTL DEF Spec

\* A certificate in the secret is replaced only by one that its holder read.
LEMMA SecretWrites ==
  ASSUME TypeOK, Next
  PROVE  \/ UNCHANGED secret
         \/ secret'.cert = None
         \/ ~secret.exists
         \/ \E r \in Replicas :
              /\ w[r].pc = "overwrite" /\ <<r, "secret">> \notin moved
              /\ secret'.cert = Generate(r, w[r].cert)
<1>1. ASSUME NEW r \in Replicas, write(r)
      PROVE  UNCHANGED secret \/ ~secret.exists
  BY <1>1 DEF write, KeepSecret
<1>2. ASSUME NEW r \in Replicas, overwrite(r)
      PROVE  \/ UNCHANGED secret
             \/ /\ w[r].pc = "overwrite" /\ <<r, "secret">> \notin moved
                /\ secret'.cert = Generate(r, w[r].cert)
  BY <1>2 DEF overwrite, KeepSecret, StoreCert
<1>3. ASSUME NEW r \in Replicas,
             \/ read(r) \/ EnsureCertInDir(r) \/ WriteCertsToDir(r) \/ Ensure(r)
             \/ UpdateConfiguration(r) \/ Restart(r)
      PROVE  UNCHANGED secret
  BY <1>3 DEF read, EnsureCertInDir, WriteCertsToDir, Ensure, UpdateConfiguration,
              Restart, objects
<1>4. CASE (\E ca \in CAs : Age(ca)) \/ (\E kind \in Kinds : Reapply(kind))
  BY <1>4 DEF Age, Reapply, objects
<1>5. CASE DeleteSecret
  BY <1>5 DEF DeleteSecret
<1>6. QED
  BY <1>1, <1>2, <1>3, <1>4, <1>5 DEF Next, SyncStep

\* A CA that is good for another year is never replaced in the secret, whichever
\* replicas race, disagree about the name or act on an old read: overwrite signs
\* with the CA that it read, and is refused if the secret has moved on.
THEOREM KeepCASafe == Spec => KeepCA
<1>1. ASSUME TypeOK, ReadInv, [Next]_vars
      PROVE  [KeepCAStep]_vars
  <2>1. CASE UNCHANGED vars
    BY <2>1
  <2>2. CASE Next
    <3>1. CASE UNCHANGED secret \/ secret'.cert = None \/ ~secret.exists
      BY <1>1, <3>1 DEF KeepCAStep, ReadInv
    <3>2. ASSUME NEW r \in Replicas, w[r].pc = "overwrite", <<r, "secret">> \notin moved,
                 secret'.cert = Generate(r, w[r].cert)
          PROVE  KeepCAStep
      <4>1. w[r].cert = secret.cert
        BY <1>1, <3>2 DEF ReadInv, ReadOK
      <4>2. QED
        BY <3>2, <4>1 DEF KeepCAStep, Generate
    <3>3. QED
      BY <1>1, <2>2, <3>1, <3>2, SecretWrites
  <2>3. QED
    BY <1>1, <2>1, <2>2
<1>2. QED
  BY <1>1, ReadInvariant, PTL DEF Spec, KeepCA

-----------------------------------------------------------------------------
(***************************************************************************)
(* The webhooks of the manifest.                                           *)
(***************************************************************************)

\* A configuration with a template has exactly the webhooks of the template that
\* have a handler, and no CA and address if there are none.
EnsuredForm ==
  \A kind \in Kinds : conf[kind].template # None =>
    /\ conf[kind].hooks = conf[kind].template \cap Handlers
    /\ conf[kind].hooks = {} => conf[kind].ca = None /\ conf[kind].host = None

\* Ensure saves what the manifest registered.
LEMMA EnsuredWhole ==
  ASSUME TypeOK, TemplateWhole, NEW r \in Replicas, NEW kind \in Kinds
  PROVE  /\ Ensured(r, kind).template = Manifest[kind]
         /\ Ensured(r, kind).hooks = Manifest[kind] \cap Handlers
         /\ Ensured(r, kind).hooks = {} =>
              Ensured(r, kind).ca = None /\ Ensured(r, kind).host = None
<1>1. Manifest[kind] # None
  BY CertAssumption
<1>2. Template(kind) = Manifest[kind]
  BY <1>1 DEF Template, TemplateWhole
<1>3. QED
  BY <1>2 DEF Ensured

\* Only an update and a re-applied manifest change a configuration.
LEMMA ConfWrites ==
  ASSUME Next
  PROVE  \/ UNCHANGED conf
         \/ \E kind \in Kinds : conf' = [conf EXCEPT ![kind] = Applied(kind)]
         \/ \E r \in Replicas, kind \in Kinds :
              conf' = [conf EXCEPT ![kind] = Ensured(r, kind)]
<1>1. ASSUME NEW r \in Replicas,
             \/ read(r) \/ write(r) \/ overwrite(r) \/ EnsureCertInDir(r)
             \/ WriteCertsToDir(r) \/ Ensure(r) \/ Restart(r)
      PROVE  UNCHANGED conf
  BY <1>1 DEF read, write, overwrite, EnsureCertInDir, WriteCertsToDir, Ensure, Restart,
              objects
<1>2. CASE (\E ca \in CAs : Age(ca)) \/ DeleteSecret
  BY <1>2 DEF Age, DeleteSecret, objects
<1>3. ASSUME NEW kind \in Kinds, Reapply(kind)
      PROVE  conf' = [conf EXCEPT ![kind] = Applied(kind)]
  BY <1>3 DEF Reapply
<1>4. QED
  BY <1>1, <1>2, <1>3, UpdateStores DEF Next, SyncStep

\* TemplateWhole is inductive, and with it the form of the configurations.
LEMMA TemplateSteps ==
  ASSUME TypeOK, TemplateWhole, EnsuredForm, [Next]_vars
  PROVE  TemplateWhole' /\ EnsuredForm'
<1>1. conf \in [Kinds -> Configurations]
  BY DEF TypeOK
<1>2. CASE UNCHANGED conf
  BY <1>2 DEF TemplateWhole, EnsuredForm
<1>3. ASSUME NEW kind \in Kinds, conf' = [conf EXCEPT ![kind] = Applied(kind)]
      PROVE  TemplateWhole' /\ EnsuredForm'
  BY <1>1, <1>3 DEF TemplateWhole, EnsuredForm, Applied
<1>4. ASSUME NEW r \in Replicas, NEW kind \in Kinds,
             conf' = [conf EXCEPT ![kind] = Ensured(r, kind)]
      PROVE  TemplateWhole' /\ EnsuredForm'
  <2>1. /\ conf'[kind] = Ensured(r, kind)
        /\ \A k \in Kinds : k # kind => conf'[k] = conf[k]
    BY <1>1, <1>4
  <2>2. QED
    BY <2>1, EnsuredWhole DEF TemplateWhole, EnsuredForm
<1>5. QED
  BY <1>2, <1>3, <1>4, ConfWrites DEF vars, objects

\* The form of the configurations holds in every state.
LEMMA TemplateInvariant == Spec => [](TypeOK /\ TemplateWhole /\ EnsuredForm)
<1>1. Init => TemplateWhole /\ EnsuredForm
  BY DEF Init, TemplateWhole, EnsuredForm, Applied
<1>2. TypeOK /\ TemplateWhole /\ EnsuredForm /\ [Next]_vars
        => TemplateWhole' /\ EnsuredForm'
  BY TemplateSteps
<1>3. QED
  BY <1>1, <1>2, TypeInvariant, PTL DEF Spec

\* No webhook of the manifest is lost: it is in the saved template, or still in
\* the configuration, whatever updates of several replicas, failures between the
\* two Updates and re-applied manifests interleave.
THEOREM TemplateSafe == Spec => []TemplateWhole
BY TemplateInvariant, PTL

-----------------------------------------------------------------------------
(***************************************************************************)
(* Agreement is stable.                                                    *)
(***************************************************************************)

\* What a settled replica holds and sees.
LEMMA SettledFacts ==
  ASSUME TypeOK, HasCert, ReadInv, Settled, NEW r \in Replicas
  PROVE  /\ r \in stuck \/ dir[r] = secret.cert
         /\ secret.cert # None /\ secret.exists
         /\ secret.cert \in Certs
         /\ validCert(r, secret.cert)
         /\ w[r].pc \in {"dir", "mutating", "validating", "update"}
              => w[r].cert = secret.cert
         /\ w[r].pc = "overwrite" => <<r, "secret">> \in moved
<1>1. (r \in stuck \/ dir[r] = secret.cert) /\ validCert(r, secret.cert)
  BY DEF Settled
<1>2. secret.cert # None /\ secret.exists
  BY <1>1 DEF validCert, ReadInv
<1>3. secret.cert \in Certs
  BY <1>2 DEF TypeOK
<1>4. w[r].pc \in {"dir", "mutating", "validating", "update"} => w[r].cert = secret.cert
  BY DEF HasCert, Settled
<1>5. w[r].pc = "overwrite" => <<r, "secret">> \in moved
  BY <1>1 DEF ReadInv, ReadOK
<1>6. QED
  BY <1>1, <1>2, <1>3, <1>4, <1>5

\* What Ensure would store is there already.
LEMMA SettledConf ==
  ASSUME TypeOK, HasCert, ReadInv, TemplateWhole, EnsuredForm, Settled,
         NEW r \in Replicas, w[r].cert = secret.cert, NEW kind \in Kinds
  PROVE  conf[kind] = Ensured(r, kind)
<1> DEFINE hooks == Manifest[kind] \cap Handlers
<1>1. Manifest[kind] # None
  BY CertAssumption
<1>2. conf[kind].template = Manifest[kind] /\ conf[kind].hooks = hooks
  BY DEF Settled, Configured
<1>3. Ensured(r, kind) = [template |-> Manifest[kind], hooks |-> hooks,
                          ca   |-> IF hooks = {} THEN None ELSE secret.cert.ca,
                          host |-> IF hooks = {} THEN None ELSE dnsName[r]]
  BY <1>1, <1>2 DEF Ensured, Template
<1>4. hooks = {} => conf[kind].ca = None /\ conf[kind].host = None
  BY <1>1, <1>2 DEF EnsuredForm
<1>5. hooks # {} => conf[kind].ca = secret.cert.ca /\ conf[kind].host = dnsName[r]
  BY DEF Settled, Configured
<1>6. conf[kind] \in Configurations
  BY DEF TypeOK
<1>7. conf[kind] = [template |-> conf[kind].template, hooks |-> conf[kind].hooks,
                    ca |-> conf[kind].ca, host |-> conf[kind].host]
  BY <1>6 DEF Configurations
<1>8. QED
  BY <1>2, <1>3, <1>4, <1>5, <1>7

\* Steps that leave the objects alone and hand on the agreed certificate.
LEMMA StaysSettled ==
  ASSUME Settled, UNCHANGED <<store, secret, conf, dir, stuck, caAge, dnsName>>,
         \A r \in Replicas : w'[r].cert \in {w[r].cert, None, secret.cert}
  PROVE  Settled'
BY DEF Settled, Configured, validCert

\* Once all replicas agree on the certificate of the secret, the syncs in progress
\* too, no sync of any replica changes secret, directories or configurations, not
\* even one that fails or acts on what it read before.
THEOREM AgreedStable == Spec => AgreedStays
<1> DEFINE Kept == Settled /\ (\E r \in Replicas : SyncStep(r))
                     => Settled' /\ UNCHANGED <<secret, conf, dir>>
<1>1. ASSUME TypeOK, HasCert, ReadInv, TemplateWhole, EnsuredForm
      PROVE  Kept
  <2> SUFFICES ASSUME Settled, NEW r \in Replicas, SyncStep(r)
               PROVE  Settled' /\ UNCHANGED <<secret, conf, dir>>
    OBVIOUS
  <2>1. /\ r \in stuck \/ dir[r] = secret.cert
        /\ secret.cert # None /\ secret.exists
        /\ secret.cert \in Certs
        /\ validCert(r, secret.cert) /\ store = "secret"
        /\ w[r].pc \in {"dir", "mutating", "validating", "update"}
              => w[r].cert = secret.cert
        /\ w[r].pc = "overwrite" => <<r, "secret">> \in moved
    BY <1>1, SettledFacts DEF Settled
  <2>2. CASE read(r)
    <3>1. Goto(r, "dir", secret.cert) \/ Return(r)
      BY <2>1, <2>2 DEF read, Fault
    <3>2. \A s \in Replicas : w'[s].cert \in {w[s].cert, None, secret.cert}
      BY <1>1, <2>1, <3>1, ReturnStep, GotoStep DEF PCs
    <3>3. QED
      BY <2>2, <3>2, StaysSettled DEF read
  <2>3. CASE write(r)
    <3>1. KeepSecret /\ (Goto(r, "reread", None) \/ Return(r))
      BY <2>1, <2>3 DEF write, Fault
    <3>2. \A s \in Replicas : w'[s].cert \in {w[s].cert, None}
      BY <1>1, <3>1, ReturnStep, GotoStep DEF PCs
    <3>3. QED
      BY <2>3, <3>1, <3>2, StaysSettled DEF write, KeepSecret
  <2>4. CASE overwrite(r)
    <3>1. KeepSecret /\ Return(r)
      BY <2>1, <2>4 DEF overwrite, Fault
    <3>2. \A s \in Replicas : w'[s].cert \in {w[s].cert, None}
      BY <1>1, <3>1, ReturnStep
    <3>3. QED
      BY <2>4, <3>1, <3>2, StaysSettled DEF overwrite, KeepSecret
  <2>5. CASE WriteCertsToDir(r)
    <3>1. w[r].cert = secret.cert
      BY <2>1, <2>5 DEF WriteCertsToDir
    <3>2. Goto(r, "mutating", secret.cert) \/ Return(r)
      BY <2>5, <3>1 DEF WriteCertsToDir, Fault
    <3>3. \A s \in Replicas : w'[s].cert \in {w[s].cert, None, secret.cert}
      BY <1>1, <2>1, <3>2, ReturnStep, GotoStep DEF PCs, Kinds
    <3>4. UNCHANGED <<dir, stuck>>
      <4>1. CASE dir[r] = secret.cert
        <5>1. [dir EXCEPT ![r] = w[r].cert] = dir
          BY <1>1, <3>1, <4>1 DEF TypeOK
        <5>2. CutShort(r, FALSE) => UNCHANGED stuck
          BY DEF CutShort
        <5>3. QED
          BY <2>5, <3>1, <4>1, <5>1, <5>2 DEF WriteCertsToDir
      <4>2. CASE dir[r] # secret.cert
        <5>1. r \in stuck
          BY <2>1, <4>2
        <5>2. ASSUME NEW needed, CutShort(r, needed)
              PROVE  UNCHANGED stuck
          BY <5>1, <5>2 DEF CutShort
        <5>3. QED
          BY <2>5, <3>1, <4>2, <5>1, <5>2 DEF WriteCertsToDir
      <4>3. QED
        BY <4>1, <4>2
    <3>5. QED
      BY <2>5, <3>3, <3>4, StaysSettled DEF WriteCertsToDir, objects
  <2>6. CASE Ensure(r)
    <3>1. \A s \in Replicas : w'[s].cert \in {w[s].cert, None}
      BY <1>1, <2>6, EnsureStep, IdleType
    <3>2. QED
      BY <2>6, <3>1, StaysSettled DEF Ensure
  <2>7. CASE UpdateConfiguration(r)
    <3>1. \A s \in Replicas : w'[s].cert \in {w[s].cert, None}
      BY <1>1, <2>7, UpdateStep, IdleType
    <3>2. w[r].cert = secret.cert
      BY <2>1, <2>7 DEF UpdateConfiguration
    <3>3. ASSUME NEW kind \in Kinds, conf' = [conf EXCEPT ![kind] = Ensured(r, kind)]
          PROVE  UNCHANGED conf
      <4>1. Ensured(r, kind) = conf[kind]
        BY <1>1, <3>2, SettledConf
      <4>2. QED
        BY <1>1, <3>3, <4>1 DEF TypeOK
    <3>4. UNCHANGED conf
      BY <2>7, <3>3, UpdateStores
    <3>5. QED
      BY <2>7, <3>1, <3>4, StaysSettled DEF UpdateConfiguration
  <2>8. ~EnsureCertInDir(r)
    BY <2>1 DEF EnsureCertInDir
  <2>9. QED
    BY <2>2, <2>3, <2>4, <2>5, <2>6, <2>7, <2>8 DEF SyncStep
<1>2. QED
  BY <1>1, ReadInvariant, TemplateInvariant, PTL DEF Spec, AgreedStays

=============================================================================
