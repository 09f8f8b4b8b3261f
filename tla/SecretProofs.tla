------------------------------ MODULE SecretProofs ------------------------------
(***************************************************************************)
(* A published Secret stays: neither the cleanup of a previous Secret nor  *)
(* the garbage collector takes it away.  For one operator, when every      *)
(* Secret is the one resolved by default; with explicit names it does not  *)
(* hold (run explicit_secret).                                             *)
(***************************************************************************)
EXTENDS LifecycleProofs

\* No AuthRegistration names a Secret.
DefaultSecrets == \A n \in Names : \A x \in UserSpecs[n] : x.secretRef = None

-------------------------------------------------------------------------------
(***************************************************************************)
(* The invariant                                                           *)
(***************************************************************************)

\* The owner, if there is one, is the AuthRegistration of that uid.
OwnedBy(secret, uid) == secret # None /\ secret.owner # None => secret.owner.uid = uid

\* The owner is n, in its present life or in an earlier one.
OwnerBound(secret, n, born) ==
    secret # None /\ secret.owner # None =>
        secret.owner.name = n /\ secret.owner.uid <= born

\* The owner in the cache is not younger than the owner in the API server.
OwnerBehind(cached, live) ==
    (cached # None /\ cached.owner # None /\ live # None /\ live.owner # None)
        => cached.owner.uid <= live.owner.uid

ReportsPublished(status) ==
    status.conds.published # None /\ status.conds.published.reason = "SecretReconciled"

\* A copy of n, live, cached or in the worker's hands, tells the truth about the
\* Secret: status.resolvedSecretRef is the default name, and credentials that
\* are reported as published are owned by the object that reports it.
CopyKeeps(a, n, secret, born) ==
    a # None =>
        /\ a.status.ref \in {None, DefaultSecret[n]}
        /\ a.uid = born /\ ReportsPublished(a.status) => OwnedBy(secret, born)

JobKeeps(label, j, secret, born) ==
    /\ CopyKeeps(j.obj, j.name, secret, born)
    /\ label \in {"cleanup", "published"} => OwnedBy(secret, born)
    /\ label \in Resolved =>
        /\ j.managed
        /\ j.secretName = DefaultSecret[j.name]
        /\ j.prev \in {None, DefaultSecret[j.name]}

OwnersInv ==
    \A n \in Names :
        LET secret == secrets[DefaultSecret[n]]
        IN  /\ OwnerBound(secret, n, births[n])
            /\ \A o \in Operators :
                /\ OwnerBound(secCache[o][DefaultSecret[n]], n, births[n])
                /\ OwnerBehind(secCache[o][DefaultSecret[n]], secret)

ObjectsKeep ==
    \A n \in Names : CopyKeeps(ars[n], n, secrets[DefaultSecret[n]], births[n])

CachesKeep ==
    \A o \in Operators, n \in Names :
        CopyKeeps(arCache[o][n], n, secrets[DefaultSecret[n]], births[n])

WorkersKeep ==
    \A o \in Operators : pc[o] # "idle" =>
        LET n == job[o].name
        IN  JobKeeps(pc[o], job[o], secrets[DefaultSecret[n]], births[n])

KeepInv == OwnersInv /\ ObjectsKeep /\ CachesKeep /\ WorkersKeep

LEMMA KeepInvInit == Init => KeepInv
  <1> SUFFICES ASSUME Init PROVE KeepInv
    OBVIOUS
  <1>1. \A n \in Names : DefaultSecret[n] \in SecretNames
    BY DefaultSecretAssumption
  <1>2. /\ \A n \in Names : ars[n] = None /\ secrets[DefaultSecret[n]] = None
        /\ \A o \in Operators, n \in Names :
                arCache[o][n] = None /\ secCache[o][DefaultSecret[n]] = None
        /\ \A o \in Operators : pc[o] = "idle"
    BY <1>1 DEF Init
  <1> QED BY <1>2 DEF KeepInv, OwnersInv, ObjectsKeep, CachesKeep, WorkersKeep, OwnerBound,
             OwnerBehind, CopyKeeps

-------------------------------------------------------------------------------
(***************************************************************************)
(* Copies                                                                  *)
(***************************************************************************)

LEMMA CopyStays ==
  ASSUME NEW a, NEW n, NEW x, NEW y, NEW born, CopyKeeps(a, n, x, born),
         OwnedBy(x, born) => OwnedBy(y, born)
  PROVE  CopyKeeps(a, n, y, born)
  BY DEF CopyKeeps

\* A copy of an earlier life has nothing to vouch for.
LEMMA CopyOutlived ==
  ASSUME NEW born \in Nat, NEW a, NEW n, NEW x, CopyKeeps(a, n, x, born),
         a # None => a.uid \in Nat /\ a.uid <= born
  PROVE  CopyKeeps(a, n, x, born + 1)
  BY DEF CopyKeeps

LEMMA CopyEdited ==
  ASSUME NEW a, NEW b, NEW n, NEW x, NEW born, CopyKeeps(a, n, x, born), a # None,
         b.uid = a.uid, b.status = a.status
  PROVE  CopyKeeps(b, n, x, born)
  BY DEF CopyKeeps

\* A status the worker writes: what it reports as published it knew to be so.
Truthful(after, before, n, secret, born) ==
    /\ after.ref \in {None, DefaultSecret[n]}
    /\ ReportsPublished(after) => ReportsPublished(before) \/ OwnedBy(secret, born)

\* A merge patch mixes two truthful copies of one object.
LEMMA CopyPatched ==
  ASSUME NEW live \in AuthRegistrationObjects, NEW obj \in AuthRegistrationObjects,
         NEW after \in Statuses, NEW n, NEW x, NEW born,
         CopyKeeps(live, n, x, born), CopyKeeps(obj, n, x, born), live.uid = obj.uid,
         Truthful(after, obj.status, n, x, born)
  PROVE  CopyKeeps(MergePatch(live, obj.status, after), n, x, born)
  <1> DEFINE m == MergePatch(live, obj.status, after)
  <1>1. live # None /\ obj # None
    BY OperatorAssumption
  <1>2. obj.status \in Statuses
    BY DEF AuthRegistrationObjects
  <1>3. m.uid = live.uid
    BY <1>2, MergePatchKeeps
  <1>4. /\ m.status.ref \in {live.status.ref, after.ref}
        /\ m.status.conds \in {live.status.conds, after.conds}
    BY DEF MergePatch, AuthRegistrationObjects
  <1>5. ReportsPublished(m.status) => ReportsPublished(live.status) \/ ReportsPublished(after)
    BY <1>4 DEF ReportsPublished
  <1> HIDE DEF m
  <1>6. CopyKeeps(m, n, x, born)
    BY <1>1, <1>3, <1>4, <1>5 DEF CopyKeeps, Truthful
  <1> QED BY <1>6 DEF m

-------------------------------------------------------------------------------
(***************************************************************************)
(* Owners                                                                  *)
(***************************************************************************)

LEMMA KeepTypes ==
  ASSUME OperatorInv
  PROVE  /\ births \in [Names -> Nat]
         /\ secrets \in [SecretNames -> Secrets \union {None}]
         /\ secCache \in [Operators -> [SecretNames -> Secrets \union {None}]]
         /\ \A n \in Names : DefaultSecret[n] \in SecretNames
         /\ \A x \in Secrets : x.owner # None => x.owner.uid \in Nat /\ x.owner \in Owners
  BY DefaultSecretAssumption DEF OperatorInv, K8sTypeOK, LocalTypeOK, Secrets, Owners

LEMMA Births ==
  ASSUME OperatorInv, [Next]_vars
  PROVE  \/ births' = births
         \/ \E n \in Names : \E spec \in UserSpecs[n] : UserCreates(n, spec)
  <1>1. ASSUME NEW o \in Operators, WorkerStep(o)
        PROVE  births' = births
    <2>1. CASE Patches(o)
      <3>1. \E after, next : PatchStatus(o, after, next)
        BY <2>1, PatchesKind
      <3> QED BY <3>1 DEF PatchStatus
    <2> QED BY <1>1, <2>1 DEF WorkerStep, Patches, Finalize, ReadRegistrationData, BackendStep,
               Upserted, ReconcileSecret, CleanupObsoleteGeneratedSecret, Deleted, Unfinalize,
               k8sVars
  <1>2. ASSUME NEW o \in Operators, OperatorStep(o)
        PROVE  births' = births
    BY <1>1, <1>2 DEF OperatorStep, Begin, SyncAuthRegistration, SyncSecret, ResyncSecret,
                      Crash, k8sVars
  <1>3. CASE UserStep
    BY <1>3 DEF UserStep, UserEdits, UserDeletes, UserWritesSecret, UserDeletesSecret,
                AdminSetsFqdn, k8sVars
  <1>4. CASE (\E s \in SecretNames : GarbageCollect(s)) \/ LateWriteArrives \/ UNCHANGED vars
    BY <1>4 DEF GarbageCollect, LateWriteArrives, vars, k8sVars
  <1> QED BY <1>2, <1>3, <1>4 DEF Next

\* Only the reconcile of n makes anyone the owner of its Secret, and it makes
\* the living n the owner.
LEMMA OwnersStay ==
  ASSUME OperatorInv, HoldInv, SeenInv, KeepInv, [Next]_vars, NEW n \in Names
  PROVE  LET s == DefaultSecret[n]
         IN  /\ OwnedBy(secrets[s], births[n]) => OwnedBy(secrets'[s], births[n])
             /\ OwnerBound(secrets'[s], n, births[n])
             /\ \A o \in Operators : OwnerBehind(secCache[o][s], secrets'[s])
  <1> DEFINE s == DefaultSecret[n]
  <1>1. /\ s \in SecretNames /\ secrets[s] \in Secrets \union {None} /\ births[n] \in Nat
        /\ OwnerBound(secrets[s], n, births[n])
        /\ \A o \in Operators :
            /\ secCache[o][s] \in Secrets \union {None}
            /\ OwnerBound(secCache[o][s], n, births[n])
            /\ OwnerBehind(secCache[o][s], secrets[s])
    BY KeepTypes DEF KeepInv, OwnersInv
  <1>2. CASE secrets'[s] = secrets[s] \/ secrets'[s] = None
    BY <1>1, <1>2 DEF OwnedBy, OwnerBound, OwnerBehind
  <1>3. CASE secrets'[s] # None /\ secrets'[s].owner = None
    BY <1>3 DEF OwnedBy, OwnerBound, OwnerBehind
  <1>4. CASE secrets'[s] # None /\ secrets[s] # None /\ secrets'[s].owner = secrets[s].owner
    BY <1>1, <1>4 DEF OwnedBy, OwnerBound, OwnerBehind
  <1>5. CASE secrets'[s] # None /\ secrets'[s].owner = [name |-> n, uid |-> births[n]]
    BY <1>1, <1>5 DEF OwnedBy, OwnerBound, OwnerBehind
  <1>6. ASSUME secrets'[s] # secrets[s], NEW o \in Operators, ReconcileSecret(o)
        PROVE  secrets'[s].owner = [name |-> n, uid |-> births[n]]
    <2> DEFINE j == job[o]
    <2>1. /\ pc[o] = "secret" /\ s = j.secretName
          /\ secrets'[s] \in {NewSecret(j), MergedSecret(j, secrets[s])}
      BY <1>1, <1>6, ReconcileWrites
    <2>2. j.name \in Names /\ j.managed /\ j.secretName = DefaultSecret[j.name]
      BY <2>1, HoldTypes DEF KeepInv, WorkersKeep, JobKeeps, Resolved
    <2>3. j.name = n
      BY <2>1, <2>2, DefaultSecretAssumption
    <2>4. j.obj.uid = births[n]
      BY <2>1, <2>3 DEF HoldInv, WorkerHolds, JobHolds, Reconciling, Resolved, Same, LiveOK
    <2>5. secrets'[s].owner = OwnerReference(j)
      BY <2>1, <2>2 DEF NewSecret, MergedSecret
    <2> QED BY <2>3, <2>4, <2>5 DEF OwnerReference
  <1>7. ASSUME NEW data \in UserData, secrets'[s] = [secrets[s] EXCEPT !.data = data],
               secrets[s] # None
        PROVE  secrets'[s].owner = secrets[s].owner
    BY <1>1, <1>7 DEF Secrets
  <1>8. ASSUME secrets'[s] # secrets[s], secrets'[s] # None
        PROVE  \/ secrets'[s].owner = [name |-> n, uid |-> births[n]]
               \/ secrets'[s].owner = None
               \/ secrets[s] # None /\ secrets'[s].owner = secrets[s].owner
    BY <1>1, <1>6, <1>7, <1>8, SecretWriters
  <1> QED BY <1>2, <1>3, <1>4, <1>5, <1>8

LEMMA OwnersInvStep ==
  ASSUME OperatorInv, OperatorInv', HoldInv, SeenInv, KeepInv, [Next]_vars
  PROVE  OwnersInv'
  <1> SUFFICES ASSUME NEW n \in Names
               PROVE  LET s == DefaultSecret[n]
                      IN  /\ OwnerBound(secrets'[s], n, births'[n])
                          /\ \A o \in Operators :
                                /\ OwnerBound(secCache'[o][s], n, births'[n])
                                /\ OwnerBehind(secCache'[o][s], secrets'[s])
    BY DEF OwnersInv
  <1> DEFINE s == DefaultSecret[n]
  <1>1. s \in SecretNames /\ births[n] \in Nat /\ births'[n] \in Nat
        /\ secrets'[s] \in Secrets \union {None}
        /\ \A o \in Operators : secCache'[o][s] \in Secrets \union {None}
    BY KeepTypes DEF OperatorInv, K8sTypeOK, LocalTypeOK
  <1>2. births[n] <= births'[n]
    BY <1>1, Births, KeepTypes DEF UserCreates
  <1>3. /\ OwnerBound(secrets'[s], n, births[n])
        /\ \A o \in Operators : OwnerBehind(secCache[o][s], secrets'[s])
    BY OwnersStay
  <1>4. ASSUME NEW x \in Secrets \union {None}, OwnerBound(x, n, births[n])
        PROVE  OwnerBound(x, n, births'[n]) /\ OwnerBehind(x, x)
    <2>1. x # None /\ x.owner # None => x.owner.uid \in Nat
      BY DEF Secrets, Owners
    <2> QED BY <1>1, <1>2, <1>4, <2>1 DEF OwnerBound, OwnerBehind
  <1>5. ASSUME NEW o \in Operators
        PROVE  secCache'[o][s] \in {secCache[o][s], secrets'[s]}
    <2>1. CASE secCache' = secCache
      BY <2>1
    <2>2. ASSUME NEW p \in Operators, NEW t \in SecretNames, SyncSecret(p, t)
          PROVE  secCache'[o][s] \in {secCache[o][s], secrets'[s]}
      BY <1>1, <2>2, KeepTypes DEF SyncSecret
    <2>3. ASSUME NEW p \in Operators, Crash(p)
          PROVE  secCache'[o][s] \in {secCache[o][s], secrets'[s]}
      BY <1>1, <2>3, KeepTypes DEF Crash
    <2> QED BY <2>1, <2>2, <2>3, SecretSteps
  <1>6. \A o \in Operators : OwnerBound(secCache[o][s], n, births[n])
    BY DEF KeepInv, OwnersInv
  <1> HIDE DEF s
  <1>7. ASSUME NEW o \in Operators
        PROVE  OwnerBound(secCache'[o][s], n, births'[n]) /\ OwnerBehind(secCache'[o][s], secrets'[s])
    BY <1>1, <1>3, <1>4, <1>5, <1>6
  <1> QED BY <1>1, <1>3, <1>4, <1>7 DEF s

-------------------------------------------------------------------------------
(***************************************************************************)
(* What the steps do to the copies                                         *)
(***************************************************************************)

\* What the copies say stays true as long as no object is created.
StillKept ==
    /\ \A n \in Names : CopyKeeps(ars[n], n, secrets'[DefaultSecret[n]], births[n])
    /\ \A o \in Operators, n \in Names :
            CopyKeeps(arCache[o][n], n, secrets'[DefaultSecret[n]], births[n])
    /\ \A o \in Operators : pc[o] # "idle" =>
            JobKeeps(pc[o], job[o], secrets'[DefaultSecret[job[o].name]], births[job[o].name])

LEMMA CopiesStay ==
  ASSUME OperatorInv, HoldInv, SeenInv, KeepInv, [Next]_vars
  PROVE  StillKept
  <1>1. ASSUME NEW n \in Names
        PROVE  OwnedBy(secrets[DefaultSecret[n]], births[n])
                    => OwnedBy(secrets'[DefaultSecret[n]], births[n])
    BY OwnersStay
  <1>2. \A n \in Names : CopyKeeps(ars[n], n, secrets'[DefaultSecret[n]], births[n])
    BY <1>1, CopyStays DEF KeepInv, ObjectsKeep
  <1>3. \A o \in Operators, n \in Names :
            CopyKeeps(arCache[o][n], n, secrets'[DefaultSecret[n]], births[n])
    BY <1>1, CopyStays DEF KeepInv, CachesKeep
  <1>4. ASSUME NEW o \in Operators, pc[o] # "idle"
        PROVE  JobKeeps(pc[o], job[o], secrets'[DefaultSecret[job[o].name]],
                        births[job[o].name])
    <2>1. job[o].name \in Names
      BY <1>4, HoldTypes
    <2>2. JobKeeps(pc[o], job[o], secrets[DefaultSecret[job[o].name]], births[job[o].name])
      BY <1>4 DEF KeepInv, WorkersKeep
    <2> QED BY <1>1, <2>1, <2>2, CopyStays DEF JobKeeps
  <1> QED BY <1>2, <1>3, <1>4 DEF StillKept

\* The statuses the worker writes.
LEMMA PatchesTruthful ==
  ASSUME OperatorInv, KeepInv, NEW o \in Operators, Patches(o)
  PROVE  LET n == job[o].name
         IN  \E after \in Statuses, next \in AfterPatch \union {"done", "retry"} :
                /\ PatchStatus(o, after, next)
                /\ Truthful(after, job[o].obj.status, n, secrets[DefaultSecret[n]], births[n])
                /\ next \in Resolved => pc[o] \in Resolved
  <1> DEFINE n   == job[o].name
             obj == job[o].obj
             x   == secrets[DefaultSecret[n]]
             Goal == \E after \in Statuses, next \in AfterPatch \union {"done", "retry"} :
                        /\ PatchStatus(o, after, next)
                        /\ Truthful(after, obj.status, n, x, births[n])
                        /\ next \in Resolved => pc[o] \in Resolved
  <1> SUFFICES Goal
    OBVIOUS
  <1>1. pc[o] # "idle"
    BY PatchesKind DEF Reconciling, Resolved
  <1>2. /\ n \in Names /\ obj \in AuthRegistrationObjects /\ obj # None
        /\ JobKeeps(pc[o], job[o], x, births[n])
    BY <1>1, HoldTypes, OperatorAssumption DEF KeepInv, WorkersKeep
  <1>3. obj.status \in Statuses /\ obj.status.ref \in {None, DefaultSecret[n]}
    BY <1>2 DEF JobKeeps, CopyKeeps, AuthRegistrationObjects
  <1>4. ASSUME NEW ref \in {None, DefaultSecret[n]}
        PROVE  WithRef(obj, ref) \in Statuses /\ Truthful(WithRef(obj, ref), obj.status, n, x, births[n])
    <2>1. ref \in SecretNames \union {None}
      BY <1>2, DefaultSecretAssumption
    <2> HIDE DEF obj, n, x
    <2> QED BY <1>2, <1>3, <2>1, StatusType DEF WithRef, Truthful, ReportsPublished, Statuses
  <1>5. ASSUME NEW reason \in PublishedReasons,
               reason = "SecretReconciled" => pc[o] = "published"
        PROVE  /\ WithPublished(obj, reason) \in Statuses
               /\ Truthful(WithPublished(obj, reason), obj.status, n, x, births[n])
    <2>1. reason = "SecretReconciled" => OwnedBy(x, births[n])
      BY <1>2, <1>5 DEF JobKeeps
    <2>2. WithPublished(obj, reason) \in Statuses
      BY <1>2, StatusType
    <2>3. /\ WithPublished(obj, reason).ref = obj.status.ref
          /\ WithPublished(obj, reason).conds.published.reason = reason
      <3> HIDE DEF obj
      <3> QED BY <1>3 DEF WithPublished, Statuses, Condition
    <2> HIDE DEF obj, n, x
    <2> QED BY <1>3, <2>1, <2>2, <2>3 DEF Truthful, ReportsPublished
  <1>6. ASSUME NEW reason \in CompletedReasons
        PROVE  /\ WithCompleted(obj, reason) \in Statuses
               /\ Truthful(WithCompleted(obj, reason), obj.status, n, x, births[n])
    <2>1. WithCompleted(obj, reason) \in Statuses
      BY <1>2, StatusType
    <2>2. /\ WithCompleted(obj, reason).ref = obj.status.ref
          /\ WithCompleted(obj, reason).conds.published = obj.status.conds.published
      <3> HIDE DEF obj
      <3> QED BY <1>3 DEF WithCompleted, Statuses
    <2> HIDE DEF obj, n, x
    <2> QED BY <1>3, <2>1, <2>2 DEF Truthful, ReportsPublished
  <1>7. CASE PatchInvalidSpec(o)
    <2>1. "InvalidSpec" \in PublishedReasons /\ "InvalidSpec" \in CompletedReasons
      BY DEF PublishedReasons, CompletedReasons
    <2> HIDE DEF obj, n, x
    <2> QED BY <1>4, <1>5, <1>6, <1>7, <2>1 DEF PatchInvalidSpec, AfterPatch, Resolved, obj
  <1>8. CASE PatchRegistrationFailed(o)
    <2>1. "RegistrationFailed" \in CompletedReasons
      BY DEF CompletedReasons
    <2> HIDE DEF obj, n, x
    <2> QED BY <1>6, <1>8, <2>1 DEF PatchRegistrationFailed, Resolved, obj
  <1>9. CASE PatchResolvedSecretRef(o)
    <2>1. pc[o] = "patchRef" /\ job[o].secretName = DefaultSecret[n]
      BY <1>2, <1>9 DEF PatchResolvedSecretRef, JobKeeps, Resolved
    <2> HIDE DEF obj, n, x
    <2> QED BY <1>4, <1>9, <2>1 DEF PatchResolvedSecretRef, AfterPatch, Resolved, obj
  <1>10. CASE PatchSecretReconcileFailed(o)
    <2>1. "SecretReconcileFailed" \in PublishedReasons /\ "Blocked" \in CompletedReasons
      BY DEF PublishedReasons, CompletedReasons
    <2> HIDE DEF obj, n, x
    <2> QED BY <1>5, <1>6, <1>10, <2>1 DEF PatchSecretReconcileFailed, AfterPatch, Resolved, obj
  <1>11. CASE PatchCredentialsPublished(o)
    <2>1. "SecretReconciled" \in PublishedReasons
      BY DEF PublishedReasons
    <2> HIDE DEF obj, n, x
    <2> QED BY <1>5, <1>11, <2>1 DEF PatchCredentialsPublished, AfterPatch, Resolved, obj
  <1>12. CASE PatchRegistrationSucceeded(o)
    <2>1. "RegistrationSucceeded" \in CompletedReasons
      BY DEF CompletedReasons
    <2> HIDE DEF obj, n, x
    <2> QED BY <1>6, <1>12, <2>1 DEF PatchRegistrationSucceeded, Resolved, obj
  <1> HIDE DEF Goal
  <1> QED BY <1>7, <1>8, <1>9, <1>10, <1>11, <1>12 DEF Patches

\* A status patch: what it leaves in the API server and in the worker's hands.
LEMMA PatchKeeps ==
  ASSUME OperatorInv, HoldInv, KeepInv, NEW o \in Operators, Patches(o)
  PROVE  LET n == job[o].name
         IN  /\ UNCHANGED <<secrets, births, arCache>>
             /\ n \in Names
             /\ \/ ars' = ars
                \/ \E m : /\ ars' = [ars EXCEPT ![n] = m]
                          /\ CopyKeeps(m, n, secrets[DefaultSecret[n]], births[n])
             /\ \/ Left(o)
                \/ \E label \in AfterPatch : \E j :
                    /\ Goto(o, label, j) /\ j.name = n
                    /\ JobKeeps(label, j, secrets[DefaultSecret[n]], births[n])
  <1> DEFINE n   == job[o].name
             obj == job[o].obj
             x   == secrets[DefaultSecret[n]]
  <1>1. PICK after \in Statuses, next \in AfterPatch \union {"done", "retry"} :
            /\ PatchStatus(o, after, next)
            /\ Truthful(after, obj.status, n, x, births[n])
            /\ next \in Resolved => pc[o] \in Resolved
    BY PatchesTruthful
  <1>2. pc[o] \in Reconciling
    BY PatchesKind
  <1>3. /\ n \in Names /\ obj \in AuthRegistrationObjects /\ job[o] \in Jobs
        /\ ars \in [Names -> AuthRegistrationObjects \union {None}]
        /\ JobKeeps(pc[o], job[o], x, births[n]) /\ CopyKeeps(ars[n], n, x, births[n])
    BY <1>2, HoldTypes DEF KeepInv, WorkersKeep, ObjectsKeep, Reconciling, Resolved
  <1>4. ars[n] # None => ars[n].uid = obj.uid
    BY <1>2 DEF HoldInv, WorkerHolds, JobHolds, Same, Reconciling, Resolved
  <1> DEFINE m == MergePatch(ars[n], obj.status, after)
             k == [job[o] EXCEPT !.obj = m]
             patched == [ars EXCEPT ![n] = m]
  <1>5. ars[n] # None => CopyKeeps(m, n, x, births[n])
    <2>1. CopyKeeps(obj, n, x, births[n])
      BY <1>3 DEF JobKeeps
    <2> HIDE DEF n, obj, x
    <2> QED BY <1>1, <1>3, <1>4, <2>1, CopyPatched
  <1>6. /\ UNCHANGED <<secrets, births, arCache>>
        /\ ars' = ars \/ (ars[n] # None /\ ars' = patched)
        /\ \/ Retry(o) \/ Proceed(o, next, job[o])
           \/ ars[n] # None /\ Proceed(o, next, [job[o] EXCEPT !.obj = patched[n]])
    BY <1>1 DEF PatchStatus
  <1>7. patched[n] = m
    BY <1>3
  <1>8. /\ k.name = n /\ k.managed = job[o].managed /\ k.secretName = job[o].secretName
        /\ k.prev = job[o].prev /\ k.obj = m
    BY <1>3 DEF Jobs
  <1> HIDE DEF m, k, n, obj, x
  <1>9. next \in AfterPatch => next \notin {"cleanup", "published", "done", "retry"}
    BY DEF AfterPatch
  <1>10. next \in AfterPatch => JobKeeps(next, job[o], x, births[n])
    BY <1>1, <1>3, <1>9 DEF JobKeeps
  <1>11. next \in AfterPatch /\ ars[n] # None => JobKeeps(next, k, x, births[n])
    BY <1>1, <1>3, <1>5, <1>8, <1>9 DEF JobKeeps, n
  <1>12. \/ Left(o)
         \/ next \in AfterPatch /\ Goto(o, next, job[o])
         \/ next \in AfterPatch /\ ars[n] # None /\ Goto(o, next, k)
    BY <1>6, <1>7, <1>9 DEF Retry, Proceed, Done, Left, k
  <1>13. \/ Left(o)
         \/ \E label \in AfterPatch : \E j :
                Goto(o, label, j) /\ j.name = n /\ JobKeeps(label, j, x, births[n])
    BY <1>8, <1>10, <1>11, <1>12 DEF n
  <1> QED BY <1>3, <1>5, <1>6, <1>13 DEF n, x

LEMMA ObjectsKeepStep ==
  ASSUME OperatorInv, HoldInv, KeepInv, StillKept, births' = births, [Next]_vars
  PROVE  ObjectsKeep'
  <1> DEFINE x(n) == secrets'[DefaultSecret[n]]
             Goal == \A n \in Names : CopyKeeps(ars'[n], n, x(n), births[n])
  <1> SUFFICES Goal
    BY DEF ObjectsKeep
  <1>1. /\ ars \in [Names -> AuthRegistrationObjects \union {None}]
        /\ \A o \in Operators : pc[o] # "idle" =>
                job[o].name \in Names /\ job[o].obj \in AuthRegistrationObjects
    BY HoldTypes
  <1>2. \A n \in Names : CopyKeeps(ars[n], n, x(n), births[n])
    BY DEF StillKept
  <1>3. CASE ars' = ars
    BY <1>2, <1>3
  <1>4. ASSUME NEW m \in Names, NEW new, ars' = [ars EXCEPT ![m] = new],
               CopyKeeps(new, m, x(m), births[m])
        PROVE  Goal
    <2> HIDE DEF x
    <2> SUFFICES ASSUME NEW n \in Names PROVE CopyKeeps(ars'[n], n, x(n), births[n])
      OBVIOUS
    <2>1. CASE n = m
      BY <1>1, <1>4, <2>1
    <2>2. CASE n # m
      BY <1>1, <1>2, <1>4, <2>2
    <2> QED BY <2>1, <2>2
  <1>5. ASSUME NEW m \in Names, NEW new, ars' = [ars EXCEPT ![m] = new],
               new = None \/ (ars[m] # None /\ new.uid = ars[m].uid /\ new.status = ars[m].status)
        PROVE  Goal
    <2>1. CopyKeeps(new, m, x(m), births[m])
      <3>1. CASE new = None
        BY <3>1 DEF CopyKeeps
      <3>2. CASE ars[m] # None /\ new.uid = ars[m].uid /\ new.status = ars[m].status
        <4> HIDE DEF x
        <4> QED BY <1>2, <3>2, CopyEdited
      <3> QED BY <1>5, <3>1, <3>2
    <2> HIDE DEF Goal
    <2> QED BY <1>4, <1>5, <2>1
  <1>6. ASSUME NEW m \in Names, NEW spec \in UserSpecs[m], UserCreates(m, spec)
        PROVE  FALSE
    <2>1. births \in [Names -> Nat]
      BY HoldTypes
    <2>2. births'[m] = births[m] + 1 /\ births[m] \in Nat
      BY <1>6, <2>1 DEF UserCreates
    <2> QED BY <2>2
  <1>7. ASSUME NEW m \in Names, NEW spec \in UserSpecs[m], UserEdits(m, spec)
        PROVE  Goal
    <2> DEFINE obj == ars[m]
               new == [obj EXCEPT !.spec = spec, !.gen = obj.gen + 1]
    <2>1. obj \in AuthRegistrationObjects /\ obj # None /\ ars' = [ars EXCEPT ![m] = new]
      BY <1>1, <1>7 DEF UserEdits
    <2>2. new.uid = obj.uid /\ new.status = obj.status
      BY <2>1 DEF AuthRegistrationObjects
    <2> HIDE DEF new, Goal
    <2> QED BY <1>5, <2>1, <2>2
  <1>8. ASSUME NEW m \in Names, UserDeletes(m)
        PROVE  Goal
    <2> DEFINE obj == ars[m]
               new == [obj EXCEPT !.deleting = TRUE, !.gen = obj.gen + 1]
    <2>1. /\ obj \in AuthRegistrationObjects /\ obj # None
          /\ ars' = [ars EXCEPT ![m] = new] \/ ars' = [ars EXCEPT ![m] = None]
      BY <1>1, <1>8 DEF UserDeletes
    <2>2. new.uid = obj.uid /\ new.status = obj.status
      BY <2>1 DEF AuthRegistrationObjects
    <2> HIDE DEF new, Goal
    <2> QED BY <1>5, <2>1, <2>2
  <1>9. CASE UserStep
    <2>1. CASE \/ \E s \in SecretNames :
                    \/ \E data \in UserData, type \in UserSecretTypes :
                            UserWritesSecret(s, data, type)
                    \/ UserDeletesSecret(s)
               \/ \E f \in Fqdns : AdminSetsFqdn(f)
      BY <1>3, <2>1 DEF UserWritesSecret, UserDeletesSecret, AdminSetsFqdn, k8sVars
    <2> HIDE DEF Goal
    <2> QED BY <1>6, <1>7, <1>8, <1>9, <2>1, OperatorAssumption DEF UserStep
  <1>10. ASSUME NEW o \in Operators, Finalize(o)
         PROVE  Goal
    <2> DEFINE m     == job[o].name
               obj   == job[o].obj
               added == [obj EXCEPT !.finalizer = TRUE]
    <2>1. CASE ars' # ars
      <3>1. /\ m \in Names /\ obj \in AuthRegistrationObjects
            /\ ars[m] = obj /\ ars' = [ars EXCEPT ![m] = added]
        BY <1>1, <1>10, <2>1 DEF Finalize
      <3> HIDE DEF obj, m
      <3>2. added.uid = obj.uid /\ added.status = obj.status /\ obj # None
        BY <3>1, OperatorAssumption DEF AuthRegistrationObjects
      <3> HIDE DEF added, Goal
      <3> QED BY <1>5, <3>1, <3>2
    <2> QED BY <1>3, <2>1
  <1>11. ASSUME NEW o \in Operators, Unfinalize(o)
         PROVE  Goal
    <2>1. job[o].name \in Names /\ (ars' = ars \/ ars' = [ars EXCEPT ![job[o].name] = None])
      BY <1>1, <1>11 DEF Unfinalize
    <2> HIDE DEF Goal
    <2> QED BY <1>3, <1>5, <2>1
  <1>12. ASSUME NEW o \in Operators, Patches(o)
         PROVE  Goal
    <2>1. CASE ars' # ars
      <3>1. /\ secrets' = secrets /\ job[o].name \in Names
            /\ \E m : /\ ars' = [ars EXCEPT ![job[o].name] = m]
                      /\ CopyKeeps(m, job[o].name, secrets[DefaultSecret[job[o].name]],
                                   births[job[o].name])
        BY <1>12, <2>1, PatchKeeps
      <3> HIDE DEF Goal
      <3> QED BY <1>4, <3>1
    <2> QED BY <1>3, <2>1
  <1>13. ASSUME NEW o \in Operators, WorkerStep(o)
         PROVE  Goal
    <2>1. CASE \/ ReadRegistrationData(o) \/ BackendStep(o) \/ Upserted(o) \/ ReconcileSecret(o)
               \/ CleanupObsoleteGeneratedSecret(o) \/ Deleted(o)
      BY <1>3, <2>1 DEF ReadRegistrationData, BackendStep, Upserted, ReconcileSecret,
                  CleanupObsoleteGeneratedSecret, Deleted, k8sVars
    <2> HIDE DEF Goal
    <2> QED BY <1>10, <1>11, <1>12, <1>13, <2>1 DEF WorkerStep, Patches
  <1>14. ASSUME NEW o \in Operators, OperatorStep(o)
         PROVE  Goal
    <2>1. CASE \/ \E m \in Names : Begin(o, m) \/ SyncAuthRegistration(o, m)
               \/ \E s \in SecretNames : SyncSecret(o, s) \/ ResyncSecret(o, s)
               \/ Crash(o)
      BY <1>3, <2>1 DEF Begin, SyncAuthRegistration, SyncSecret, ResyncSecret, Crash, k8sVars
    <2> HIDE DEF Goal
    <2> QED BY <1>13, <1>14, <2>1 DEF OperatorStep
  <1>15. CASE (\E s \in SecretNames : GarbageCollect(s)) \/ LateWriteArrives \/ UNCHANGED vars
    BY <1>3, <1>15 DEF GarbageCollect, LateWriteArrives, vars, k8sVars
  <1> HIDE DEF Goal
  <1> QED BY <1>9, <1>14, <1>15 DEF Next

LEMMA CachesKeepStep ==
  ASSUME OperatorInv, StillKept, births' = births, [Next]_vars
  PROVE  CachesKeep'
  <1>1. /\ arCache \in [Operators -> [Names -> AuthRegistrationObjects \union {None}]]
        /\ ars \in [Names -> AuthRegistrationObjects \union {None}]
    BY HoldTypes
  <1>2. \A o \in Operators, n \in Names : arCache'[o][n] \in {arCache[o][n], ars[n]}
    <2>1. CASE arCache' = arCache
      BY <2>1
    <2>2. ASSUME NEW p \in Operators, WorkerStep(p)
          PROVE  arCache' = arCache
      <3>1. CASE Patches(p)
        <4>1. \E after, next : PatchStatus(p, after, next)
          BY <3>1, PatchesKind
        <4> QED BY <4>1 DEF PatchStatus
      <3> QED BY <2>2, <3>1 DEF WorkerStep, Patches, Finalize, ReadRegistrationData, BackendStep,
                 Upserted, ReconcileSecret, CleanupObsoleteGeneratedSecret, Deleted, Unfinalize,
                 localVars
    <2>3. ASSUME NEW p \in Operators, NEW m \in Names, SyncAuthRegistration(p, m)
          PROVE  \A o \in Operators, n \in Names : arCache'[o][n] \in {arCache[o][n], ars[n]}
      BY <1>1, <2>3 DEF SyncAuthRegistration
    <2>4. ASSUME NEW p \in Operators, Crash(p)
          PROVE  \A o \in Operators, n \in Names : arCache'[o][n] \in {arCache[o][n], ars[n]}
      BY <1>1, <2>4 DEF Crash
    <2>5. ASSUME NEW p \in Operators,
                 \/ \E n \in Names : Begin(p, n)
                 \/ \E s \in SecretNames : SyncSecret(p, s) \/ ResyncSecret(p, s)
          PROVE  arCache' = arCache
      BY <2>5 DEF Begin, SyncSecret, ResyncSecret
    <2>6. CASE UserStep
      BY <2>1, <2>6 DEF UserStep, UserCreates, UserEdits, UserDeletes, UserWritesSecret,
                        UserDeletesSecret, AdminSetsFqdn, localVars
    <2>7. CASE (\E s \in SecretNames : GarbageCollect(s)) \/ LateWriteArrives \/ UNCHANGED vars
      BY <2>1, <2>7 DEF GarbageCollect, LateWriteArrives, vars, localVars
    <2> QED BY <2>1, <2>2, <2>3, <2>4, <2>5, <2>6, <2>7 DEF Next, OperatorStep
  <1> SUFFICES ASSUME NEW o \in Operators, NEW n \in Names
               PROVE  CopyKeeps(arCache'[o][n], n, secrets'[DefaultSecret[n]], births[n])
    BY DEF CachesKeep
  <1>3. CASE arCache'[o][n] = arCache[o][n]
    BY <1>3 DEF StillKept
  <1>4. CASE arCache'[o][n] = ars[n]
    BY <1>4 DEF StillKept
  <1> QED BY <1>2, <1>3, <1>4

\* One worker moves.
LEMMA WorkerMoves ==
  ASSUME OperatorInv, StillKept, births' = births, NEW o \in Operators, NEW label, NEW j,
         pc' = [pc EXCEPT ![o] = label], job' = [job EXCEPT ![o] = j],
         label # "idle" =>
            JobKeeps(label, j, secrets'[DefaultSecret[j.name]], births[j.name])
  PROVE  WorkersKeep'
  <1>1. pc \in [Operators -> Labels] /\ job \in [Operators -> Jobs]
    BY HoldTypes
  <1> SUFFICES ASSUME NEW p \in Operators, pc'[p] # "idle"
               PROVE  JobKeeps(pc'[p], job'[p], secrets'[DefaultSecret[job'[p].name]],
                               births[job'[p].name])
    BY DEF WorkersKeep
  <1>2. CASE p = o
    <2>1. pc'[p] = label /\ job'[p] = j
      BY <1>1, <1>2
    <2> QED BY <2>1
  <1>3. CASE p # o
    <2>1. pc'[p] = pc[p] /\ job'[p] = job[p]
      BY <1>1, <1>3
    <2> QED BY <2>1 DEF StillKept
  <1> QED BY <1>2, <1>3

\* A reconcile starts with the default Secret.
LEMMA StartedKeeps ==
  ASSUME DefaultSecrets, NEW n \in Names, NEW obj \in AuthRegistrationObjects,
         obj.spec \in UserSpecs[n], NEW x, NEW born, CopyKeeps(obj, n, x, born)
  PROVE  /\ Started(n, obj).name = n
         /\ JobKeeps(StartOfReconcile(n, obj), Started(n, obj), x, born)
  <1>1. obj # None /\ obj.spec.secretRef = None
    BY OperatorAssumption DEF DefaultSecrets
  <1>2. ResolveSecretName(n, obj.spec) = DefaultSecret[n] /\ IsControllerManaged(obj.spec)
    BY <1>1, AbsentAssumption DEF ResolveSecretName, IsControllerManaged
  <1>3. /\ Started(n, obj).name = n /\ Started(n, obj).obj = obj
        /\ Started(n, obj).secretName = ResolveSecretName(n, obj.spec)
        /\ Started(n, obj).prev = obj.status.ref
    BY DEF Started, NoJob
  <1>4. Started(n, obj).managed
    BY <1>2 DEF Started, NoJob
  <1>5. obj.status.ref \in {None, DefaultSecret[n]}
    BY <1>1 DEF CopyKeeps
  <1>6. StartOfReconcile(n, obj) \notin {"cleanup", "published"}
    BY DEF StartOfReconcile
  <1> QED BY <1>2, <1>3, <1>4, <1>5, <1>6 DEF JobKeeps

LEMMA BeginKeeps ==
  ASSUME DefaultSecrets, OperatorInv, SpecsInv, StillKept, births' = births,
         NEW o \in Operators, NEW n \in Names, Begin(o, n)
  PROVE  WorkersKeep'
  <1> DEFINE obj == arCache[o][n]
             job0 == [NoJob EXCEPT !.name = n, !.obj = obj]
             x == secrets'[DefaultSecret[n]]
  <1>1. obj \in AuthRegistrationObjects \union {None} /\ CopyKeeps(obj, n, x, births[n])
    BY HoldTypes DEF StillKept
  <1>2. CASE UNCHANGED <<pc, job>>
    BY <1>2 DEF StillKept, WorkersKeep
  <1>3. CASE \E label \in {"delete", "finalize"} :
                pc' = [pc EXCEPT ![o] = label] /\ job' = [job EXCEPT ![o] = job0]
    <2>1. job0.name = n /\ job0.obj = obj
      BY DEF NoJob
    <2> HIDE DEF obj, job0
    <2>2. \A label \in {"delete", "finalize"} : JobKeeps(label, job0, x, births[n])
      BY <1>1, <2>1 DEF JobKeeps, Resolved
    <2> HIDE DEF x
    <2> QED BY <1>3, <2>1, <2>2, WorkerMoves DEF x
  <1>4. CASE /\ obj # None
             /\ pc' = [pc EXCEPT ![o] = StartOfReconcile(n, obj)]
             /\ job' = [job EXCEPT ![o] = Started(n, obj)]
    <2>1. obj.spec \in UserSpecs[n]
      BY <1>4 DEF SpecsInv
    <2> HIDE DEF obj, x
    <2>2. /\ Started(n, obj).name = n
          /\ JobKeeps(StartOfReconcile(n, obj), Started(n, obj), x, births[n])
      BY <1>1, <1>4, <2>1, StartedKeeps
    <2> QED BY <1>4, <2>2, WorkerMoves DEF x
  <1>5. \/ UNCHANGED <<pc, job>>
        \/ pc' = [pc EXCEPT ![o] = "delete"] /\ job' = [job EXCEPT ![o] = job0]
        \/ pc' = [pc EXCEPT ![o] = "finalize"] /\ job' = [job EXCEPT ![o] = job0]
        \/ /\ obj # None
           /\ pc' = [pc EXCEPT ![o] = StartOfReconcile(n, obj)]
           /\ job' = [job EXCEPT ![o] = Started(n, obj)]
    BY DEF Begin
  <1> HIDE DEF obj, job0
  <1> QED BY <1>2, <1>3, <1>4, <1>5

\* The reconcile of the Secret: written, it is owned by the object in hand; left
\* as it is, its cached copy is, and no younger owner can have come since.
LEMMA ReconcileSecretOwned ==
  ASSUME OperatorInv, HoldInv, SeenInv, KeepInv, NEW o \in Operators, ReconcileSecret(o),
         pc'[o] = "cleanup"
  PROVE  OwnedBy(secrets'[DefaultSecret[job[o].name]], births[job[o].name])
  <1> DEFINE j       == job[o]
             n       == j.name
             s       == j.secretName
             current == secCache[o][s]
             desired == IF current = None THEN NewSecret(j) ELSE MergedSecret(j, current)
  <1>1. /\ pc[o] = "secret" /\ n \in Names /\ s = DefaultSecret[n] /\ s \in SecretNames
        /\ j.managed /\ j \in Jobs /\ j.obj \in AuthRegistrationObjects
        /\ j.protocol \in Protocols /\ j.result \in Credentials
    <2>1. pc[o] = "secret"
      BY DEF ReconcileSecret
    <2>2. n \in Names /\ s = DefaultSecret[n] /\ j.managed
      BY <2>1, HoldTypes DEF KeepInv, WorkersKeep, JobKeeps, Resolved
    <2> QED BY <2>1, <2>2, DefaultSecretAssumption DEF OperatorInv, WorkerOK, JobOK
  <1>2. j.obj.uid = births[n]
    BY <1>1 DEF HoldInv, WorkerHolds, JobHolds, Reconciling, Resolved, Same, LiveOK
  <1>3. /\ desired # None
        /\ desired.owner = [name |-> n, uid |-> births[n]]
    <2>1. desired.owner = OwnerReference(j)
      BY <1>1 DEF NewSecret, MergedSecret
    <2>2. NewSecret(j) \in Secrets
      BY <1>1, SecretType
    <2>3. current # None => current \in Secrets
      BY <1>1, KeepTypes
    <2>4. current # None => MergedSecret(j, current) \in Secrets
      BY <1>1, <2>3, SecretType
    <2> HIDE DEF current
    <2>5. desired \in Secrets
      BY <2>2, <2>4
    <2> HIDE DEF desired
    <2> QED BY <1>2, <2>1, <2>5, OperatorAssumption DEF OwnerReference
  <1>4. \/ desired = current /\ secrets' = secrets
        \/ secrets' = [secrets EXCEPT ![s] = desired]
    <2>1. pc \in [Operators -> Labels]
      BY HoldTypes
    <2>2. ~Goto(o, "secretFailed", j)
      BY <2>1 DEF Goto
    <2> QED BY <2>2 DEF ReconcileSecret, WriteSecret
  <1>5. CASE secrets' = [secrets EXCEPT ![s] = desired]
    <2>1. secrets'[s] = desired
      BY <1>1, <1>5, KeepTypes
    <2> HIDE DEF desired
    <2> QED BY <1>1, <1>3, <2>1 DEF OwnedBy
  <1>6. CASE desired = current /\ secrets' = secrets
    <2>1. /\ OwnerBound(secrets[s], n, births[n]) /\ OwnerBehind(current, secrets[s])
          /\ secrets[s] \in Secrets \union {None} /\ births[n] \in Nat
      BY <1>1, KeepTypes DEF KeepInv, OwnersInv
    <2>2. current # None /\ current.owner # None /\ current.owner.uid = births[n]
      <3>1. current # None /\ current.owner = [name |-> n, uid |-> births[n]]
        <4> HIDE DEF current, desired
        <4> QED BY <1>3, <1>6
      <3>2. current \in Secrets
        BY <1>1, <3>1, KeepTypes
      <3>3. OwnerReference(j) \in Owners /\ OwnerReference(j) = [name |-> n, uid |-> births[n]]
        BY <1>1, <1>2, <2>1 DEF OwnerReference, Owners
      <3>4. OwnerReference(j) # None
        BY <3>3, OperatorAssumption
      <3> HIDE DEF current
      <3> QED BY <3>1, <3>3, <3>4
    <2>3. secrets[s] # None /\ secrets[s].owner # None => secrets[s].owner.uid \in Nat
      BY <2>1, KeepTypes
    <2> HIDE DEF current
    <2> QED BY <1>1, <1>6, <2>1, <2>2, <2>3 DEF OwnerBound, OwnerBehind, OwnedBy
  <1> QED BY <1>4, <1>5, <1>6

LEMMA WorkerKeeps ==
  ASSUME DefaultSecrets, OperatorInv, HoldInv, SeenInv, SpecsInv, KeepInv, StillKept,
         births' = births, NEW o \in Operators, WorkerStep(o)
  PROVE  WorkersKeep'
  <1> DEFINE n == job[o].name
             x == secrets'[DefaultSecret[n]]
  <1>1. job[o] \in Jobs /\ pc \in [Operators -> Labels]
    BY HoldTypes
  <1>2. pc[o] # "idle" =>
            /\ n \in Names /\ job[o].obj \in AuthRegistrationObjects
            /\ job[o].obj.spec \in UserSpecs[n] /\ JobKeeps(pc[o], job[o], x, births[n])
    BY HoldTypes DEF SpecsInv, StillKept
  <1>3. ASSUME Left(o)
        PROVE  WorkersKeep'
    BY <1>3, WorkerMoves DEF Left
  <1>4. Retry(o) \/ Done(o) => Left(o)
    BY DEF Retry, Done, Left
  <1>5. ASSUME NEW label, NEW j, Goto(o, label, j), j.name = n, JobKeeps(label, j, x, births[n])
        PROVE  WorkersKeep'
    BY <1>5, WorkerMoves DEF Goto
  <1>6. ASSUME NEW label, Goto(o, label, job[o]), pc[o] # "idle",
               label \in Resolved => pc[o] \in Resolved,
               label \in {"cleanup", "published"} => OwnedBy(x, births[n])
        PROVE  WorkersKeep'
    <2>1. JobKeeps(label, job[o], x, births[n])
      BY <1>2, <1>6 DEF JobKeeps
    <2>2. ASSUME NEW j, j = job[o]
          PROVE  WorkersKeep'
      <3> HIDE DEF x, n
      <3> QED BY <1>5, <1>6, <2>1, <2>2 DEF n
    <2> QED BY <2>2
  <1>7. CASE Finalize(o)
    <2> DEFINE obj   == job[o].obj
               added == [obj EXCEPT !.finalizer = TRUE]
    <2>1. pc[o] # "idle"
      BY <1>7 DEF Finalize
    <2>2. CASE Goto(o, StartOfReconcile(n, added), Started(n, added))
      <3>1. obj \in AuthRegistrationObjects /\ obj # None /\ CopyKeeps(obj, n, x, births[n])
        BY <1>2, <2>1, OperatorAssumption DEF JobKeeps
      <3>2. added \in AuthRegistrationObjects /\ added.uid = obj.uid /\ added.status = obj.status
            /\ added.spec = obj.spec
        BY <3>1 DEF AuthRegistrationObjects
      <3>3. added.spec \in UserSpecs[n]
        BY <1>2, <2>1, <3>2
      <3> HIDE DEF added, obj, x, n
      <3>4. CopyKeeps(added, n, x, births[n])
        BY <3>1, <3>2, CopyEdited
      <3>5. /\ Started(n, added).name = n
            /\ JobKeeps(StartOfReconcile(n, added), Started(n, added), x, births[n])
        BY <1>2, <2>1, <3>2, <3>3, <3>4, StartedKeeps
      <3> QED BY <1>5, <2>2, <3>5
    <2> HIDE DEF added
    <2> QED BY <1>3, <1>4, <1>7, <2>2 DEF Finalize, added
  <1>8. CASE Patches(o)
    <2>1. /\ secrets' = secrets
          /\ \/ Left(o)
             \/ \E label \in AfterPatch : \E j :
                    /\ Goto(o, label, j) /\ j.name = n
                    /\ JobKeeps(label, j, secrets[DefaultSecret[n]], births[n])
      BY <1>8, PatchKeeps
    <2> HIDE DEF n
    <2> QED BY <1>3, <1>5, <2>1
  <1>9. CASE ReadRegistrationData(o)
    BY <1>6, <1>9 DEF ReadRegistrationData, Resolved
  <1>10. CASE BackendStep(o)
    BY <1>10 DEF BackendStep, localVars, StillKept, WorkersKeep
  <1>11. CASE Upserted(o)
    <2> DEFINE k == [job[o] EXCEPT !.protocol = call[o].reg.protocol, !.result = call[o].result]
    <2>1. pc[o] = "upsert"
          /\ (Goto(o, "patchRef", k) \/ Goto(o, "registrationFailed", job[o]))
      BY <1>11 DEF Upserted
    <2>2. /\ k.name = n /\ k.obj = job[o].obj /\ k.managed = job[o].managed
          /\ k.secretName = job[o].secretName /\ k.prev = job[o].prev
      BY <1>1 DEF Jobs
    <2> HIDE DEF k
    <2>3. JobKeeps("patchRef", k, x, births[n])
      BY <1>2, <2>1, <2>2 DEF JobKeeps, Resolved
    <2>4. CASE Goto(o, "patchRef", k)
      <3> HIDE DEF x, n
      <3> QED BY <1>5, <2>2, <2>3, <2>4
    <2>5. CASE Goto(o, "registrationFailed", job[o])
      BY <1>6, <2>1, <2>5 DEF Resolved
    <2> QED BY <2>1, <2>4, <2>5
  <1>12. CASE ReconcileSecret(o)
    <2>1. /\ pc[o] = "secret"
          /\ Goto(o, "cleanup", job[o]) \/ Goto(o, "secretFailed", job[o])
      BY <1>12 DEF ReconcileSecret
    <2>2. Goto(o, "cleanup", job[o]) => OwnedBy(x, births[n])
      BY <1>1, <1>12, ReconcileSecretOwned DEF Goto
    <2> HIDE DEF x, n
    <2> QED BY <1>6, <2>1, <2>2 DEF Resolved
  <1>13. CASE CleanupObsoleteGeneratedSecret(o)
    <2>1. /\ pc[o] = "cleanup"
          /\ Retry(o) \/ Goto(o, "published", job[o])
      BY <1>13 DEF CleanupObsoleteGeneratedSecret
    <2>2. OwnedBy(x, births[n])
      BY <1>2, <2>1 DEF JobKeeps
    <2> HIDE DEF x, n
    <2> QED BY <1>3, <1>4, <1>6, <2>1, <2>2 DEF Resolved
  <1>14. CASE Deleted(o)
    <2>1. pc[o] = "delete" /\ (Retry(o) \/ Goto(o, "unfinalize", job[o]))
      BY <1>14 DEF Deleted
    <2> QED BY <1>3, <1>4, <1>6, <2>1 DEF Resolved
  <1>15. CASE Unfinalize(o)
    BY <1>3, <1>4, <1>15 DEF Unfinalize
  <1> QED BY <1>7, <1>8, <1>9, <1>10, <1>11, <1>12, <1>13, <1>14, <1>15 DEF WorkerStep, Patches

LEMMA WorkersKeepStep ==
  ASSUME DefaultSecrets, OperatorInv, HoldInv, SeenInv, SpecsInv, KeepInv, StillKept,
         births' = births, [Next]_vars
  PROVE  WorkersKeep'
  <1>1. CASE UNCHANGED <<pc, job>>
    BY <1>1 DEF StillKept, WorkersKeep
  <1>2. ASSUME NEW o \in Operators, Crash(o)
        PROVE  WorkersKeep'
    BY <1>2, WorkerMoves DEF Crash
  <1>3. ASSUME NEW o \in Operators,
               \/ \E n \in Names : SyncAuthRegistration(o, n)
               \/ \E s \in SecretNames : SyncSecret(o, s) \/ ResyncSecret(o, s)
        PROVE  UNCHANGED <<pc, job>>
    BY <1>3 DEF SyncAuthRegistration, SyncSecret, ResyncSecret
  <1>4. CASE UserStep
    BY <1>1, <1>4 DEF UserStep, UserCreates, UserEdits, UserDeletes, UserWritesSecret,
                      UserDeletesSecret, AdminSetsFqdn, localVars
  <1>5. CASE (\E s \in SecretNames : GarbageCollect(s)) \/ LateWriteArrives \/ UNCHANGED vars
    BY <1>1, <1>5 DEF GarbageCollect, LateWriteArrives, vars, localVars
  <1> QED BY <1>1, <1>2, <1>3, <1>4, <1>5, BeginKeeps, WorkerKeeps DEF Next, OperatorStep

\* A new object reports nothing, and what earlier copies report is not about it.
LEMMA CreateKeeps ==
  ASSUME OperatorInv, HoldInv, KeepInv, NEW m \in Names, NEW spec \in UserSpecs[m],
         UserCreates(m, spec)
  PROVE  ObjectsKeep' /\ CachesKeep' /\ WorkersKeep'
  <1> DEFINE new == [uid |-> births[m] + 1, gen |-> 1, deleting |-> FALSE,
                     finalizer |-> FALSE, spec |-> spec, status |-> NoStatus]
  <1>1. /\ births \in [Names -> Nat] /\ ars \in [Names -> AuthRegistrationObjects \union {None}]
        /\ births' = [births EXCEPT ![m] = births[m] + 1] /\ ars' = [ars EXCEPT ![m] = new]
        /\ UNCHANGED <<secrets, arCache, pc, job>>
    BY HoldTypes DEF UserCreates, localVars
  <1>2. /\ \A n \in Names : n # m => births'[n] = births[n] /\ ars'[n] = ars[n]
        /\ births[m] \in Nat /\ births'[m] = births[m] + 1 /\ ars'[m] = new
    BY <1>1
  <1>3. new.status.ref = None /\ ~ReportsPublished(new.status)
    BY DEF NoStatus, ReportsPublished
  <1> HIDE DEF new
  <1>4. ASSUME NEW n \in Names, NEW a \in AuthRegistrationObjects \union {None},
               CopyKeeps(a, n, secrets[DefaultSecret[n]], births[n]),
               a # None => a.uid <= births[n]
        PROVE  CopyKeeps(a, n, secrets[DefaultSecret[n]], births'[n])
    <2>1. CASE n # m
      BY <1>2, <1>4, <2>1
    <2>2. CASE n = m
      <3>1. a # None => a.uid \in Nat
        BY DEF AuthRegistrationObjects
      <3>2. CopyKeeps(a, n, secrets[DefaultSecret[n]], births[n] + 1)
        BY <1>2, <1>4, <2>2, <3>1, CopyOutlived
      <3> QED BY <1>2, <2>2, <3>2
    <2> QED BY <2>1, <2>2
  <1>5. ObjectsKeep'
    <2> SUFFICES ASSUME NEW n \in Names
                 PROVE  CopyKeeps(ars'[n], n, secrets'[DefaultSecret[n]], births'[n])
      BY DEF ObjectsKeep
    <2>1. CASE n # m
      BY <1>1, <1>2, <2>1 DEF KeepInv, ObjectsKeep
    <2>2. CASE n = m
      BY <1>2, <1>3, <2>2 DEF CopyKeeps
    <2> QED BY <2>1, <2>2
  <1>6. CachesKeep'
    <2> SUFFICES ASSUME NEW o \in Operators, NEW n \in Names
                 PROVE  CopyKeeps(arCache[o][n], n, secrets[DefaultSecret[n]], births'[n])
      BY <1>1 DEF CachesKeep
    <2>1. arCache[o][n] \in AuthRegistrationObjects \union {None}
      BY HoldTypes
    <2>2. arCache[o][n] # None => arCache[o][n].uid <= births[n]
      BY DEF HoldInv, CachedOK, Earlier
    <2> QED BY <1>4, <2>1, <2>2 DEF KeepInv, CachesKeep
  <1>7. WorkersKeep'
    <2> SUFFICES ASSUME NEW o \in Operators, pc[o] # "idle"
                 PROVE  JobKeeps(pc[o], job[o], secrets[DefaultSecret[job[o].name]],
                                 births'[job[o].name])
      BY <1>1 DEF WorkersKeep
    <2> DEFINE n == job[o].name
               x == secrets[DefaultSecret[n]]
    <2>1. n \in Names /\ job[o].obj \in AuthRegistrationObjects
      BY HoldTypes
    <2>2. JobKeeps(pc[o], job[o], x, births[n])
      BY DEF KeepInv, WorkersKeep
    <2>3. CopyKeeps(job[o].obj, n, x, births'[n])
      <3>1. job[o].obj.uid <= births[n]
        BY DEF HoldInv, WorkerHolds, JobHolds, Earlier
      <3> QED BY <1>4, <2>1, <2>2, <3>1 DEF JobKeeps
    <2>4. pc[o] \in {"cleanup", "published"} => births'[n] = births[n]
      <3>1. pc[o] \in {"cleanup", "published"} => ars[n] # None
        BY DEF HoldInv, WorkerHolds, JobHolds, Reconciling, Resolved, Same
      <3>2. ars[m] = None
        BY DEF UserCreates
      <3> QED BY <1>2, <2>1, <3>1, <3>2
    <2> HIDE DEF n, x
    <2>5. JobKeeps(pc[o], job[o], x, births'[n])
      BY <2>2, <2>3, <2>4 DEF JobKeeps, n
    <2> QED BY <2>5 DEF n, x
  <1> QED BY <1>5, <1>6, <1>7

LEMMA KeepInvStep ==
  ASSUME DefaultSecrets, OperatorInv, OperatorInv', HoldInv, SeenInv, SpecsInv, KeepInv,
         [Next]_vars
  PROVE  KeepInv'
  <1>1. OwnersInv' /\ StillKept
    BY OwnersInvStep, CopiesStay
  <1>2. CASE births' = births
    BY <1>1, <1>2, ObjectsKeepStep, CachesKeepStep, WorkersKeepStep DEF KeepInv
  <1>3. ASSUME NEW n \in Names, NEW spec \in UserSpecs[n], UserCreates(n, spec)
        PROVE  KeepInv'
    BY <1>1, <1>3, CreateKeeps DEF KeepInv
  <1> QED BY <1>2, <1>3, Births

\* Who removes a Secret.
LEMMA SecretRemovers ==
  ASSUME OperatorInv, [Next]_vars, NEW s \in SecretNames, secrets[s] # None, secrets'[s] = None
  PROVE  \/ tampers' # tampers
         \/ GarbageCollect(s)
         \/ \E o \in Operators :
                /\ pc[o] = "cleanup"
                /\ s = job[o].prev /\ s # job[o].secretName
  <1>1. secrets \in [SecretNames -> Secrets \union {None}] /\ tampers \in Nat
    BY DEF OperatorInv, K8sTypeOK, LocalTypeOK
  <1>2. secrets' # secrets
    OBVIOUS
  <1>3. ASSUME NEW t \in SecretNames, NEW x, WriteSecret(t, x)
        PROVE  s = t /\ x = None
    BY <1>1, <1>3 DEF WriteSecret
  <1>4. ASSUME NEW o \in Operators, ReconcileSecret(o)
        PROVE  FALSE
    <2> DEFINE j       == job[o]
               current == secCache[o][j.secretName]
               desired == IF current = None THEN NewSecret(j) ELSE MergedSecret(j, current)
    <2>1. WriteSecret(j.secretName, desired) /\ pc[o] = "secret"
      BY <1>2, <1>4 DEF ReconcileSecret
    <2>2. /\ j \in Jobs /\ j.name \in Names /\ j.obj \in AuthRegistrationObjects
          /\ j.secretName \in SecretNames /\ j.protocol \in Protocols /\ j.result \in Credentials
      BY <2>1 DEF OperatorInv, WorkerOK, JobOK, Resolved
    <2>3. NewSecret(j) # None /\ (current # None => MergedSecret(j, current) # None)
      <3>1. current \in Secrets \union {None}
        BY <2>2, KeepTypes
      <3> HIDE DEF current
      <3> QED BY <2>2, <3>1, SecretType, OperatorAssumption
    <2>4. desired # None
      <3> HIDE DEF current
      <3> QED BY <2>3
    <2> HIDE DEF desired
    <2> QED BY <1>3, <2>1, <2>2, <2>4
  <1>5. ASSUME NEW o \in Operators, CleanupObsoleteGeneratedSecret(o)
        PROVE  /\ pc[o] = "cleanup"
               /\ s = job[o].prev /\ s # job[o].secretName
    <2>1. /\ pc[o] = "cleanup" /\ job[o].prev \notin {None, job[o].secretName}
          /\ WriteSecret(job[o].prev, None)
      BY <1>2, <1>5 DEF CleanupObsoleteGeneratedSecret, DeleteSecret
    <2>2. job[o].prev \in SecretNames
      BY <2>1 DEF OperatorInv, WorkerOK, Jobs
    <2> QED BY <1>3, <2>1, <2>2
  <1>6. ASSUME NEW o \in Operators, WorkerStep(o),
               ~ReconcileSecret(o), ~CleanupObsoleteGeneratedSecret(o)
        PROVE  FALSE
    <2>1. CASE Patches(o)
      <3>1. \E after, next : PatchStatus(o, after, next)
        BY <2>1, PatchesKind
      <3> QED BY <1>2, <3>1 DEF PatchStatus
    <2> QED BY <1>2, <1>6, <2>1 DEF WorkerStep, Patches, Finalize, ReadRegistrationData,
               BackendStep, Upserted, Deleted, Unfinalize, k8sVars
  <1>7. ASSUME NEW o \in Operators, OperatorStep(o), ~WorkerStep(o)
        PROVE  FALSE
    BY <1>2, <1>7 DEF OperatorStep, Begin, SyncAuthRegistration, SyncSecret, ResyncSecret,
                      Crash, k8sVars
  <1>8. CASE UserStep
    <2>1. Tamper => tampers' # tampers
      BY <1>1 DEF Tamper
    <2>2. \A n \in Names, spec \in Specs :
            UserCreates(n, spec) \/ UserEdits(n, spec) => secrets' = secrets
      BY DEF UserCreates, UserEdits
    <2>3. \A t \in SecretNames, data \in UserData, type \in UserSecretTypes :
            UserWritesSecret(t, data, type) => Tamper
      BY DEF UserWritesSecret
    <2>4. \A t \in SecretNames : UserDeletesSecret(t) => Tamper
      BY DEF UserDeletesSecret
    <2>5. \A f \in Fqdns : AdminSetsFqdn(f) => Tamper
      BY DEF AdminSetsFqdn
    <2>6. CASE \E n \in Names : \E spec \in UserSpecs[n] : UserCreates(n, spec) \/ UserEdits(n, spec)
      BY <1>2, <2>2, <2>6, OperatorAssumption
    <2>7. CASE \E n \in Deletable : UserDeletes(n)
      BY <1>2, <2>7 DEF UserDeletes
    <2> QED BY <1>8, <2>1, <2>3, <2>4, <2>5, <2>6, <2>7 DEF UserStep
  <1>9. ASSUME NEW t \in SecretNames, GarbageCollect(t)
        PROVE  GarbageCollect(s)
    BY <1>3, <1>9 DEF GarbageCollect
  <1>10. ~LateWriteArrives /\ ~UNCHANGED vars
    BY <1>2 DEF LateWriteArrives, vars, k8sVars
  <1> QED BY <1>4, <1>5, <1>6, <1>7, <1>8, <1>9, <1>10 DEF Next

\* A Secret that an AuthRegistration reports as published stays as long as the
\* object lives and no user removes it, also when an earlier object of the same
\* name owned it and the garbage collector has yet to come by.
THEOREM PublishedSecretStays ==
  ASSUME OneOperator, DefaultSecrets
  PROVE  Spec => PublishedSecretKept
  <1> DEFINE Inv == OperatorInv /\ HoldInv /\ SeenInv /\ SpecsInv /\ KeepInv
             Survives == \A n \in Names :
                           LET s == ResolveSecretName(n, ars[n].spec)
                           IN  (/\ ars[n] # None
                                /\ ars[n].status.conds.published # None
                                /\ ars[n].status.conds.published.reason = "SecretReconciled"
                                /\ ars'[n] # None
                                /\ ars'[n].uid = ars[n].uid
                                /\ tampers' = tampers
                                /\ secrets[s] # None)
                               => secrets'[s] # None
  <1>1. ASSUME Inv, [Next]_vars
        PROVE  Survives
    <2> SUFFICES ASSUME NEW n \in Names, ars[n] # None, ReportsPublished(ars[n].status),
                        tampers' = tampers,
                        secrets[ResolveSecretName(n, ars[n].spec)] # None,
                        secrets'[ResolveSecretName(n, ars[n].spec)] = None
                 PROVE  FALSE
      BY DEF ReportsPublished
    <2> DEFINE s == DefaultSecret[n]
    <2>1. ResolveSecretName(n, ars[n].spec) = s
      <3>1. ars[n].spec.secretRef = None
        BY <1>1 DEF SpecsInv, DefaultSecrets
      <3> QED BY <3>1, AbsentAssumption DEF ResolveSecretName
    <2>2. s \in SecretNames /\ secrets[s] # None /\ secrets'[s] = None
      BY <2>1, DefaultSecretAssumption
    <2>3. ars[n].uid = births[n]
      BY <1>1 DEF HoldInv, LiveOK
    <2>4. OwnedBy(secrets[s], births[n]) /\ OwnerBound(secrets[s], n, births[n])
      BY <1>1, <2>3 DEF KeepInv, ObjectsKeep, OwnersInv, CopyKeeps
    <2>5. ~GarbageCollect(s)
      BY <2>3, <2>4 DEF GarbageCollect, OwnerGone, OwnedBy, OwnerBound
    <2>6. ASSUME NEW o \in Operators, pc[o] = "cleanup", s = job[o].prev, s # job[o].secretName
          PROVE  FALSE
      BY <1>1, <2>2, <2>6, AbsentAssumption DEF KeepInv, WorkersKeep, JobKeeps, Resolved
    <2> QED BY <1>1, <2>2, <2>5, <2>6, SecretRemovers
  <1>2. ASSUME Inv, [Next]_vars
        PROVE  Inv'
    BY <1>2, OperatorInvStep, HoldInvStep, SeenInvStep, SpecsInvStep, KeepInvStep
  <1>3. Init => Inv
    BY OperatorInvInit, HoldInvInit, SeenInvInit, SpecsInvInit, KeepInvInit
  <1> HIDE DEF Inv
  <1>4. Inv /\ [Next]_vars => [Survives]_vars
    BY <1>1
  <1>5. Spec => [][Survives]_vars
    BY <1>2, <1>3, <1>4, PTL DEF Spec
  <1> QED BY <1>5 DEF PublishedSecretKept

================================================================================
