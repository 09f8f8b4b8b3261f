-------------------------------- MODULE Operator --------------------------------
(***************************************************************************)
(* The AuthRegistration controller: informer caches, work queue, and the   *)
(* reconcile worker that drives the CAS backend, the credentials Secret    *)
(* and the status of the AuthRegistration, one API request per step.       *)
(*                                                                         *)
(* External and modelled from how the controller uses them: the API        *)
(* server (optimistic locking on Update, none on merge patches and         *)
(* Deletes, finalizers, generation), the garbage collector, the informers  *)
(* (a cache that lags behind and conflates changes), the work queue (a     *)
(* set; a failed item comes back), users, and crashes of the operator.     *)
(* The resourceVersion of an AuthRegistration is represented by the object *)
(* itself (uid, generation and the progress of the status tell versions    *)
(* apart); a cached Secret has the current resourceVersion when no event   *)
(* about it is outstanding.                                                *)
(***************************************************************************)
EXTENDS CASBackend

CONSTANTS
    UserSpecs,        \* UserSpecs[n]: what users may write to spec of n
    Deletable,        \* the AuthRegistrations users may delete
    UserData,         \* what users may write to the data of a Secret
    UserSecretTypes,  \* types of the Secrets users create and delete
    Resyncs,          \* whether behaviours outlast the informers' resync period
    MaxBirths,        \* bound: creations of one AuthRegistration
    MaxGen,           \* bound: generation up to which users change an object
    MaxTampers,       \* bound: out-of-band changes of Secrets and global config
    MaxCrashes        \* bound: crashes

SecretTypes == {"Opaque", "other"}

Owners == [name : Names, uid : Nat]

\* label is the value of k8s.cloudogu.com/auth-registration, owner the
\* controller reference.
Secrets ==
    [type  : SecretTypes,
     label : Names \union {None},
     owner : Owners \union {None},
     data  : RegistrationData]

ASSUME OperatorAssumption ==
    /\ UserSpecs \in [Names -> SUBSET Specs]
    /\ Deletable \subseteq Names
    /\ UserData \subseteq RegistrationData
    /\ UserSecretTypes \subseteq SecretTypes
    /\ Resyncs \in BOOLEAN
    /\ {MaxBirths, MaxGen, MaxTampers, MaxCrashes} \subseteq Nat
    /\ None \notin AuthRegistrationObjects \union Secrets \union Owners

VARIABLES
    ars,              \* ars[n]: the AuthRegistration in the API server, or None
    births,           \* births[n]: how often n has been created; the last uid
    secrets,          \* secrets[s]: the Secret in the API server, or None
    arCache,          \* arCache[o][n], secCache[o][s]: informer caches of o
    secCache,
    unseen,           \* unseen[o]: Secrets with watch events not yet delivered to o
    queue,            \* queue[o]: names waiting in the work queue of o
    pc,               \* pc[o]: where the worker of o is
    job,              \* job[o]: its local variables
    tampers,          \* remaining out-of-band changes
    crashes           \* remaining crashes

k8sVars == <<ars, births, secrets, unseen>>
localVars == <<arCache, secCache, queue, pc, job>>
vars == <<casVars, k8sVars, localVars, tampers, crashes>>

\* obj is the in-memory AuthRegistration (refreshed by every API answer),
\* secretName and managed what resolveSecretName returned, prev the
\* resolvedSecretRef found at the start, result the backend's answer.
NoJob ==
    [name |-> None, obj |-> None, secretName |-> None, managed |-> FALSE,
     prev |-> None, protocol |-> None, result |-> None]

Jobs ==
    [name       : Names \union {None},
     obj        : AuthRegistrationObjects \union {None},
     secretName : SecretNames \union {None},
     managed    : BOOLEAN,
     prev       : SecretNames \union {None},
     protocol   : Protocols \union {None},
     result     : Credentials \union {None}]

Labels ==
    {"idle", "finalize", "invalidRef", "invalidPublished", "invalidCompleted",
     "read", "upsert", "registrationFailed", "patchRef", "secret",
     "secretFailed", "blocked", "cleanup", "published", "succeeded",
     "delete", "unfinalize"}

TypeOK ==
    /\ CASTypeOK
    /\ ars \in [Names -> AuthRegistrationObjects \union {None}]
    /\ births \in [Names -> Nat]
    /\ secrets \in [SecretNames -> Secrets \union {None}]
    /\ arCache \in [Operators -> [Names -> AuthRegistrationObjects \union {None}]]
    /\ secCache \in [Operators -> [SecretNames -> Secrets \union {None}]]
    /\ unseen \in [Operators -> SUBSET SecretNames]
    /\ queue \in [Operators -> SUBSET Names]
    /\ pc \in [Operators -> Labels]
    /\ job \in [Operators -> Jobs]
    /\ tampers \in 0..MaxTampers
    /\ crashes \in 0..MaxCrashes

Init ==
    /\ CASInit
    /\ ars = [n \in Names |-> None]
    /\ births = [n \in Names |-> 0]
    /\ secrets = [s \in SecretNames |-> None]
    /\ arCache = [o \in Operators |-> ars]
    /\ secCache = [o \in Operators |-> secrets]
    /\ unseen = [o \in Operators |-> {}]
    /\ queue = [o \in Operators |-> {}]
    /\ pc = [o \in Operators |-> "idle"]
    /\ job = [o \in Operators |-> NoJob]
    /\ tampers = MaxTampers
    /\ crashes = MaxCrashes

-------------------------------------------------------------------------------
(***************************************************************************)
(* Control of the worker                                                   *)
(***************************************************************************)

Goto(o, label, j) ==
    /\ pc' = [pc EXCEPT ![o] = label]
    /\ job' = [job EXCEPT ![o] = j]
    /\ UNCHANGED queue

\* Reconcile returns: without an error the item is forgotten, with one it is
\* put back with a delay (1s to 2min, not modelled).
Done(o) ==
    /\ pc' = [pc EXCEPT ![o] = "idle"]
    /\ job' = [job EXCEPT ![o] = NoJob]
    /\ UNCHANGED queue

\* Faulty: the error is swallowed.
RetryForgotten(o) == Done(o)

Retry(o) ==
    /\ pc' = [pc EXCEPT ![o] = "idle"]
    /\ job' = [job EXCEPT ![o] = NoJob]
    /\ queue' = [queue EXCEPT ![o] = @ \union {job[o].name}]

Proceed(o, label, j) ==
    CASE label = "done"  -> Done(o)
      [] label = "retry" -> Retry(o)
      [] OTHER           -> Goto(o, label, j)

\* handleReconcile up to its first request.
StartOfReconcile(n, obj) ==
    IF ResolveSecretName(n, obj.spec) = None THEN "invalidRef" ELSE "read"

Started(n, obj) ==
    [NoJob EXCEPT !.name = n, !.obj = obj,
        !.secretName = ResolveSecretName(n, obj.spec),
        !.managed = IsControllerManaged(obj.spec),
        !.prev = obj.status.ref]

-------------------------------------------------------------------------------
(***************************************************************************)
(* Reconcile and the finalizer                                             *)
(***************************************************************************)

\* Reconcile: the Get from the cache and the choice of the handler.
Begin(o, n) ==
    LET obj == arCache[o][n]
        job0 == [NoJob EXCEPT !.name = n, !.obj = obj]
    IN  /\ pc[o] = "idle"
        /\ n \in queue[o]
        /\ queue' = [queue EXCEPT ![o] = @ \ {n}]
        /\ \/ /\ obj # None => obj.deleting /\ ~obj.finalizer
              /\ UNCHANGED <<pc, job, casVars>>
           \/ /\ obj # None
              /\ obj.deleting /\ obj.finalizer
              /\ pc' = [pc EXCEPT ![o] = "delete"]
              /\ job' = [job EXCEPT ![o] = job0]
              /\ CallDelete(o, FromAuthRegistration(obj.spec))
           \/ /\ obj # None
              /\ ~obj.deleting /\ ~obj.finalizer
              /\ pc' = [pc EXCEPT ![o] = "finalize"]
              /\ job' = [job EXCEPT ![o] = job0]
              /\ UNCHANGED casVars
           \/ /\ obj # None
              /\ ~obj.deleting /\ obj.finalizer
              /\ pc' = [pc EXCEPT ![o] = StartOfReconcile(n, obj)]
              /\ job' = [job EXCEPT ![o] = Started(n, obj)]
              /\ UNCHANGED casVars
        /\ UNCHANGED <<k8sVars, arCache, secCache, tampers, crashes>>

\* AddFinalizer and Update, which fails when the object changed since it was
\* cached; the answer replaces the in-memory object.
Finalize(o) ==
    LET n     == job[o].name
        added == [job[o].obj EXCEPT !.finalizer = TRUE]
    IN  /\ pc[o] = "finalize"
        /\ \/ /\ ars[n] = job[o].obj
              /\ ars' = [ars EXCEPT ![n] = added]
              /\ Goto(o, StartOfReconcile(n, added), Started(n, added))
              /\ UNCHANGED faults
           \/ /\ ars[n] # job[o].obj
              /\ Retry(o)
              /\ UNCHANGED <<ars, faults>>
           \/ /\ Fault
              /\ ars' \in {ars, IF ars[n] = job[o].obj THEN [ars EXCEPT ![n] = added] ELSE ars}
              /\ Retry(o)
        /\ UNCHANGED <<services, late, call, fqdn, births, secrets, unseen, arCache,
                       secCache, tampers, crashes>>

-------------------------------------------------------------------------------
(***************************************************************************)
(* Status                                                                  *)
(***************************************************************************)

\* A JSON merge patch computed from two in-memory copies: it carries only what
\* differs between them, the list of conditions as a whole, and no
\* resourceVersion.
MergePatch(live, before, after) ==
    [live EXCEPT !.status =
        [ref   |-> IF after.ref = before.ref THEN @.ref ELSE after.ref,
         conds |-> IF after.conds = before.conds THEN @.conds ELSE after.conds]]

\* patchStatus: nothing is sent when the in-memory status already is as wanted.
PatchStatus(o, after, next) ==
    LET n       == job[o].name
        before  == job[o].obj.status
        patched == [ars EXCEPT ![n] = MergePatch(@, before, after)]
    IN  /\ \/ /\ after = before
              /\ Proceed(o, next, job[o])
              /\ UNCHANGED <<ars, faults>>
           \/ /\ after # before
              /\ ars[n] # None
              /\ ars' = patched
              /\ Proceed(o, next, [job[o] EXCEPT !.obj = patched[n]])
              /\ UNCHANGED faults
           \/ /\ after # before
              /\ ars[n] = None
              /\ Retry(o)
              /\ UNCHANGED <<ars, faults>>
           \/ /\ after # before
              /\ Fault
              /\ ars' \in {ars, IF ars[n] # None THEN patched ELSE ars}
              /\ Retry(o)
        /\ UNCHANGED <<services, late, call, fqdn, births, secrets, unseen, arCache,
                       secCache, tampers, crashes>>

\* The condition is stamped with the generation of the in-memory object.
WithRef(obj, ref) == [obj.status EXCEPT !.ref = ref]
WithPublished(obj, reason) ==
    [obj.status EXCEPT !.conds.published = Condition(reason, obj.gen)]
WithCompleted(obj, reason) ==
    [obj.status EXCEPT !.conds.completed = Condition(reason, obj.gen)]

\* Faulty: the second condition is left as it was.
PatchInvalidSpecIncomplete(o) ==
    \/ /\ pc[o] = "invalidRef"
       /\ PatchStatus(o, WithRef(job[o].obj, None), "invalidPublished")
    \/ /\ pc[o] = "invalidPublished"
       /\ PatchStatus(o, WithPublished(job[o].obj, "InvalidSpec"), "retry")

PatchInvalidSpec(o) ==
    \/ /\ pc[o] = "invalidRef"
       /\ PatchStatus(o, WithRef(job[o].obj, None), "invalidPublished")
    \/ /\ pc[o] = "invalidPublished"
       /\ PatchStatus(o, WithPublished(job[o].obj, "InvalidSpec"), "invalidCompleted")
    \/ /\ pc[o] = "invalidCompleted"
       /\ PatchStatus(o, WithCompleted(job[o].obj, "InvalidSpec"), "retry")

PatchRegistrationFailed(o) ==
    /\ pc[o] = "registrationFailed"
    /\ PatchStatus(o, WithCompleted(job[o].obj, "RegistrationFailed"), "retry")

PatchResolvedSecretRef(o) ==
    /\ pc[o] = "patchRef"
    /\ PatchStatus(o, WithRef(job[o].obj, job[o].secretName), "secret")

PatchSecretReconcileFailed(o) ==
    \/ /\ pc[o] = "secretFailed"
       /\ PatchStatus(o, WithPublished(job[o].obj, "SecretReconcileFailed"), "blocked")
    \/ /\ pc[o] = "blocked"
       /\ PatchStatus(o, WithCompleted(job[o].obj, "Blocked"), "retry")

PatchCredentialsPublished(o) ==
    /\ pc[o] = "published"
    /\ PatchStatus(o, WithPublished(job[o].obj, "SecretReconciled"), "succeeded")

PatchRegistrationSucceeded(o) ==
    /\ pc[o] = "succeeded"
    /\ PatchStatus(o, WithCompleted(job[o].obj, "RegistrationSucceeded"), "done")

-------------------------------------------------------------------------------
(***************************************************************************)
(* Registration in the backend                                             *)
(***************************************************************************)

\* readRegistrationData: a read of the Secret from the cache, then the call.
ReadRegistrationData(o) ==
    LET j        == job[o]
        existing == secCache[o][j.secretName]
        data     == IF existing = None THEN NoData ELSE existing.data
        reg      == FromAuthRegistration(j.obj.spec)
    IN  /\ pc[o] = "read"
        /\ CallUpsert(o, reg, ClientSecret(data, reg.protocol))
        /\ Goto(o, "upsert", j)
        /\ UNCHANGED <<k8sVars, arCache, secCache, tampers, crashes>>

\* The client secrets that exist anywhere or that users may come up with.
HoldsSecret(data, x) == \E p \in Protocols : data[p] # None /\ data[p].secret = x

InUse(x) ==
    \/ \E d \in UserData : HoldsSecret(d, x)
    \/ \E s \in SecretNames : secrets[s] # None /\ HoldsSecret(secrets[s].data, x)
    \/ \E o \in Operators, s \in SecretNames :
            secCache[o][s] # None /\ HoldsSecret(secCache[o][s].data, x)
    \/ \E s \in services : s.hash = hashClientSecret(x)
    \/ late # None /\ late.hash = hashClientSecret(x)
    \/ \E o \in Operators :
            \/ x \in {call[o].known, call[o].secret}
            \/ call[o].result # None /\ call[o].result.secret = x
            \/ job[o].result # None /\ job[o].result.secret = x

\* generateClientSecret draws a value nobody has seen; which one is immaterial.
FreshSecrets ==
    LET free == {x \in ClientSecrets : ~InUse(x)}
    IN  IF free = {} THEN {} ELSE {CHOOSE x \in free : TRUE}

BackendStep(o) ==
    /\ pc[o] \in {"upsert", "delete"}
    /\ \/ \E drawn \in FreshSecrets : UpsertPrepare(o, drawn)
       \/ UpsertRejected(o)
       \/ UpsertWrite(o)
       \/ UpsertWriteFails(o)
       \/ UpsertResult(o)
       \/ UpsertResultFails(o)
       \/ DeleteStep(o)
    /\ UNCHANGED <<k8sVars, localVars, tampers, crashes>>

\* handleReconcile continues after Upsert.
Upserted(o) ==
    /\ pc[o] = "upsert"
    /\ Return(o)
    /\ \/ /\ call[o].at = "ok"
          /\ Goto(o, "patchRef", [job[o] EXCEPT !.protocol = call[o].reg.protocol,
                                                !.result = call[o].result])
       \/ /\ call[o].at = "failed"
          /\ Goto(o, "registrationFailed", job[o])
    /\ UNCHANGED <<k8sVars, arCache, secCache, tampers, crashes>>

\* Faulty: the finalizer is removed although Delete failed.
DeletedIgnoringFailure(o) ==
    /\ pc[o] = "delete"
    /\ Return(o)
    /\ Goto(o, "unfinalize", job[o])
    /\ UNCHANGED <<k8sVars, arCache, secCache, tampers, crashes>>

\* handleDeletion continues after Delete.
Deleted(o) ==
    /\ pc[o] = "delete"
    /\ Return(o)
    /\ \/ call[o].at = "ok" /\ Goto(o, "unfinalize", job[o])
       \/ call[o].at = "failed" /\ Retry(o)
    /\ UNCHANGED <<k8sVars, arCache, secCache, tampers, crashes>>

\* RemoveFinalizer and Update: the object goes away with its last finalizer.
Unfinalize(o) ==
    LET n == job[o].name
        removed == [ars EXCEPT ![n] = None]
    IN  /\ pc[o] = "unfinalize"
        /\ \/ /\ ars[n] = job[o].obj
              /\ ars' = removed
              /\ Done(o)
              /\ UNCHANGED faults
           \/ /\ ars[n] # job[o].obj
              /\ Retry(o)
              /\ UNCHANGED <<ars, faults>>
           \/ /\ Fault
              /\ ars' \in {ars, IF ars[n] = job[o].obj THEN removed ELSE ars}
              /\ Retry(o)
        /\ UNCHANGED <<services, late, call, fqdn, births, secrets, unseen, arCache,
                       secCache, tampers, crashes>>

-------------------------------------------------------------------------------
(***************************************************************************)
(* The credentials Secret                                                  *)
(***************************************************************************)

\* A write to the API server, announced to every informer.
WriteSecret(s, secret) ==
    /\ secrets' = [secrets EXCEPT ![s] = secret]
    /\ unseen' = [o \in Operators |-> unseen[o] \union {s}]

\* Deleting a Secret that is not there is NotFound, which every caller ignores.
DeleteSecret(s) ==
    IF secrets[s] = None THEN UNCHANGED <<secrets, unseen>> ELSE WriteSecret(s, None)

OwnerReference(j) == [name |-> j.name, uid |-> j.obj.uid]

\* buildDesiredSecret, created with an owner reference in either mode.
NewSecret(j) ==
    [type  |-> "Opaque",
     label |-> j.name,
     owner |-> OwnerReference(j),
     data  |-> [NoData EXCEPT ![j.protocol] = j.result]]

\* Faulty: the owner reference is not refreshed.
MergedSecretKeepingOwner(j, current) ==
    [type  |-> "Opaque",
     label |-> j.name,
     owner |-> current.owner,
     data  |-> [current.data EXCEPT ![j.protocol] = j.result]]

\* buildDesiredSecret merged into the Secret found.
MergedSecret(j, current) ==
    [type  |-> "Opaque",
     label |-> j.name,
     owner |-> IF j.managed THEN OwnerReference(j) ELSE current.owner,
     data  |-> [current.data EXCEPT ![j.protocol] = j.result]]

\* Faulty: the controller reference is overwritten.
AlreadyOwnedNever(j, current) == FALSE

\* SetControllerReference refuses a Secret controlled by another name; the
\* uid is not compared.
AlreadyOwned(j, current) ==
    /\ current # None
    /\ j.managed
    /\ current.owner # None
    /\ current.owner.name # j.name

\* authRegistrationSecretReconciler.Reconcile: a read from the cache followed
\* by at most one request.  Create fails when the Secret exists, Update when
\* it changed since it was cached or when its type would change.
ReconcileSecret(o) ==
    LET j        == job[o]
        s        == j.secretName
        current  == secCache[o][s]
        refused  == AlreadyOwned(j, current)
        desired  == IF current = None THEN NewSecret(j) ELSE MergedSecret(j, current)
        needed   == ~refused /\ desired # current
        accepted == IF current = None THEN secrets[s] = None
                    ELSE s \notin unseen[o] /\ current.type = "Opaque"
    IN  /\ pc[o] = "secret"
        /\ \/ /\ ~refused /\ ~needed
              /\ Goto(o, "cleanup", j)
              /\ UNCHANGED <<secrets, unseen, faults>>
           \/ /\ refused
              /\ Goto(o, "secretFailed", j)
              /\ UNCHANGED <<secrets, unseen, faults>>
           \/ /\ needed /\ accepted
              /\ WriteSecret(s, desired)
              /\ Goto(o, "cleanup", j)
              /\ UNCHANGED faults
           \/ /\ needed /\ ~accepted
              /\ Goto(o, "secretFailed", j)
              /\ UNCHANGED <<secrets, unseen, faults>>
           \/ /\ needed
              /\ Fault
              /\ \/ UNCHANGED <<secrets, unseen>>
                 \/ accepted /\ WriteSecret(s, desired)
              /\ Goto(o, "secretFailed", j)
        /\ UNCHANGED <<services, late, call, fqdn, ars, births, arCache, secCache,
                       tampers, crashes>>

\* cleanupObsoleteGeneratedSecret: the check is on the cached Secret, the
\* Delete has no precondition.
CleanupObsoleteGeneratedSecret(o) ==
    LET j        == job[o]
        obsolete ==
            /\ j.prev \notin {None, j.secretName}
            /\ secCache[o][j.prev] # None
            /\ secCache[o][j.prev].owner = OwnerReference(j)
    IN  /\ pc[o] = "cleanup"
        /\ \/ /\ ~obsolete
              /\ Goto(o, "published", j)
              /\ UNCHANGED <<secrets, unseen, faults>>
           \/ /\ obsolete
              /\ DeleteSecret(j.prev)
              /\ Goto(o, "published", j)
              /\ UNCHANGED faults
           \/ /\ obsolete
              /\ Fault
              /\ UNCHANGED <<secrets, unseen>> \/ DeleteSecret(j.prev)
              /\ Retry(o)
        /\ UNCHANGED <<services, late, call, fqdn, ars, births, arCache, secCache,
                       tampers, crashes>>

-------------------------------------------------------------------------------
(***************************************************************************)
(* Watches                                                                 *)
(***************************************************************************)

DeletionTimestampChanged(old, new) == old.deleting # new.deleting

\* Faulty: no predicate for the generation.
PassesWithoutGeneration(old, new) ==
    \/ old = None
    \/ new = None
    \/ old.uid # new.uid
    \/ DeletionTimestampChanged(old, new)

\* The predicates.  Create and delete events pass, updates only when generation
\* or deletionTimestamp changed (labels and annotations are not modelled):
\* status writes and the finalizer do not trigger another reconcile.
Passes(old, new) ==
    \/ old = None
    \/ new = None
    \/ old.uid # new.uid
    \/ old.gen # new.gen
    \/ DeletionTimestampChanged(old, new)

\* The informer catches up with one AuthRegistration.
SyncAuthRegistration(o, n) ==
    LET old == arCache[o][n]
        new == ars[n]
    IN  /\ old # new
        /\ arCache' = [arCache EXCEPT ![o][n] = new]
        /\ queue' = IF Passes(old, new) THEN [queue EXCEPT ![o] = @ \union {n}] ELSE queue
        /\ UNCHANGED <<casVars, k8sVars, secCache, pc, job, tampers, crashes>>

\* Faulty: only explicit references are indexed.
MapSecretToAuthRegistrationsExplicit(o, s) ==
    {n \in Names : arCache[o][n] # None /\ arCache[o][n].spec.secretRef = s}

\* mapSecretToAuthRegistrations: the cached AuthRegistrations whose resolved
\* Secret name is s.
MapSecretToAuthRegistrations(o, s) ==
    {n \in Names : arCache[o][n] # None /\ ResolveSecretName(n, arCache[o][n].spec) = s}

\* Secret events have no predicate.
SyncSecret(o, s) ==
    /\ s \in unseen[o]
    /\ unseen' = [unseen EXCEPT ![o] = @ \ {s}]
    /\ secCache' = [secCache EXCEPT ![o][s] = secrets[s]]
    /\ queue' = [queue EXCEPT ![o] = @ \union MapSecretToAuthRegistrations(o, s)]
    /\ UNCHANGED <<casVars, ars, births, secrets, arCache, pc, job, tampers, crashes>>

\* The informers' periodic resync (every ten hours).  For AuthRegistrations the
\* predicates drop it; for Secrets it reaches the mapping function.
ResyncSecret(o, s) ==
    /\ Resyncs
    /\ secCache[o][s] # None
    /\ queue' = [queue EXCEPT ![o] = @ \union MapSecretToAuthRegistrations(o, s)]
    /\ UNCHANGED <<casVars, k8sVars, arCache, secCache, pc, job, tampers, crashes>>

-------------------------------------------------------------------------------
(***************************************************************************)
(* Users, garbage collector, crashes                                       *)
(***************************************************************************)

UserCreates(n, spec) ==
    /\ ars[n] = None
    /\ births[n] < MaxBirths
    /\ births' = [births EXCEPT ![n] = @ + 1]
    /\ ars' = [ars EXCEPT ![n] =
            [uid |-> births[n] + 1, gen |-> 1, deleting |-> FALSE, finalizer |-> FALSE,
             spec |-> spec, status |-> NoStatus]]
    /\ UNCHANGED <<casVars, secrets, unseen, localVars, tampers, crashes>>

UserEdits(n, spec) ==
    /\ ars[n] # None
    /\ ars[n].gen < MaxGen
    /\ ars[n].spec # spec
    /\ ars' = [ars EXCEPT ![n].spec = spec, ![n].gen = @ + 1]
    /\ UNCHANGED <<casVars, births, secrets, unseen, localVars, tampers, crashes>>

UserDeletes(n) ==
    /\ ars[n] # None
    /\ ~ars[n].deleting
    /\ ars' = IF ars[n].finalizer
              THEN [ars EXCEPT ![n].deleting = TRUE, ![n].gen = @ + 1]
              ELSE [ars EXCEPT ![n] = None]
    /\ UNCHANGED <<casVars, births, secrets, unseen, localVars, tampers, crashes>>

Tamper == tampers > 0 /\ tampers' = tampers - 1

UserWritesSecret(s, data, type) ==
    /\ Tamper
    /\ secrets[s] # None => secrets[s].data # data
    /\ WriteSecret(s,
            IF secrets[s] = None
            THEN [type |-> type, label |-> None, owner |-> None, data |-> data]
            ELSE [secrets[s] EXCEPT !.data = data])
    /\ UNCHANGED <<casVars, ars, births, localVars, crashes>>

UserDeletesSecret(s) ==
    /\ secrets[s] # None
    /\ secrets[s].type \in UserSecretTypes
    /\ Tamper
    /\ WriteSecret(s, None)
    /\ UNCHANGED <<casVars, ars, births, localVars, crashes>>

AdminSetsFqdn(f) ==
    /\ Tamper
    /\ SetFqdn(f)
    /\ UNCHANGED <<k8sVars, localVars, crashes>>

\* The garbage collector removes a Secret whose owner is gone.
OwnerGone(s) ==
    /\ secrets[s] # None
    /\ secrets[s].owner # None
    /\ LET owner == secrets[s].owner
       IN  ars[owner.name] # None => ars[owner.name].uid # owner.uid

GarbageCollect(s) ==
    /\ OwnerGone(s)
    /\ WriteSecret(s, None)
    /\ UNCHANGED <<casVars, ars, births, localVars, tampers, crashes>>

\* The process ends and is started again: local state is lost, the caches are
\* filled before the worker starts and every AuthRegistration is enqueued.
Crash(o) ==
    /\ crashes > 0
    /\ crashes' = crashes - 1
    /\ Abandon(o)
    /\ arCache' = [arCache EXCEPT ![o] = ars]
    /\ secCache' = [secCache EXCEPT ![o] = secrets]
    /\ unseen' = [unseen EXCEPT ![o] = {}]
    /\ queue' = [queue EXCEPT ![o] = {n \in Names : ars[n] # None}]
    /\ pc' = [pc EXCEPT ![o] = "idle"]
    /\ job' = [job EXCEPT ![o] = NoJob]
    /\ UNCHANGED <<ars, births, secrets, tampers>>

LateWriteArrives ==
    /\ ApplyLate
    /\ UNCHANGED <<k8sVars, localVars, tampers, crashes>>

-------------------------------------------------------------------------------
\* What the worker does between taking an item and returning.
WorkerStep(o) ==
    \/ Finalize(o)
    \/ PatchInvalidSpec(o)
    \/ ReadRegistrationData(o)
    \/ BackendStep(o)
    \/ Upserted(o)
    \/ PatchRegistrationFailed(o)
    \/ PatchResolvedSecretRef(o)
    \/ ReconcileSecret(o)
    \/ PatchSecretReconcileFailed(o)
    \/ CleanupObsoleteGeneratedSecret(o)
    \/ PatchCredentialsPublished(o)
    \/ PatchRegistrationSucceeded(o)
    \/ Deleted(o)
    \/ Unfinalize(o)

OperatorStep(o) ==
    \/ \E n \in Names : Begin(o, n) \/ SyncAuthRegistration(o, n)
    \/ \E s \in SecretNames : SyncSecret(o, s) \/ ResyncSecret(o, s)
    \/ WorkerStep(o)
    \/ Crash(o)

UserStep ==
    \/ \E n \in Names :
        \E spec \in UserSpecs[n] : UserCreates(n, spec) \/ UserEdits(n, spec)
    \/ \E n \in Deletable : UserDeletes(n)
    \/ \E s \in SecretNames :
        \/ \E data \in UserData, type \in UserSecretTypes : UserWritesSecret(s, data, type)
        \/ UserDeletesSecret(s)
    \/ \E f \in Fqdns : AdminSetsFqdn(f)

Next ==
    \/ \E o \in Operators : OperatorStep(o)
    \/ UserStep
    \/ \E s \in SecretNames : GarbageCollect(s)
    \/ LateWriteArrives

Spec == Init /\ [][Next]_vars

\* The worker keeps running, informers and garbage collector catch up, late
\* writes arrive, and the work queue hands out every waiting item in turn.  How
\* far an informer lags behind a worker that runs beside it is left open.
Fairness ==
    /\ \A o \in Operators :
        /\ WF_vars(WorkerStep(o))
        /\ \A n \in Names : SF_vars(Begin(o, n)) /\ WF_vars(SyncAuthRegistration(o, n))
        /\ \A s \in SecretNames : WF_vars(SyncSecret(o, s))
    /\ \A s \in SecretNames : WF_vars(GarbageCollect(s))
    /\ WF_vars(LateWriteArrives)

FairSpec == Spec /\ Fairness

-------------------------------------------------------------------------------
(***************************************************************************)
(* Properties                                                              *)
(***************************************************************************)

\* No CAS service outlives the AuthRegistrations of its consumer: as long as a
\* service is registered, some AuthRegistration of the consumer exists and
\* carries the finalizer that makes its deletion go through handleDeletion.
NoOrphanedService ==
    \A s \in services :
        \E n \in Names :
            ars[n] # None /\ ars[n].finalizer /\ ars[n].spec.consumer = s.name

\* Nothing is left to do: workers idle, queues empty, caches up to date.
Quiescent ==
    /\ \A o \in Operators :
        pc[o] = "idle" /\ queue[o] = {} /\ arCache[o] = ars /\ unseen[o] = {}
    /\ late = None
    /\ \A s \in SecretNames : ~OwnerGone(s)

\* What CAS has registered and what the Secret publishes agree with each other
\* and with the spec.
Settled(n) ==
    LET spec   == ars[n].spec
        secret == secrets[ResolveSecretName(n, spec)]
    IN  /\ ~ars[n].deleting
        /\ ars[n].finalizer
        /\ secret # None
        /\ secret.data[spec.protocol] # None
        /\ \E s \in services :
            /\ s.name = spec.consumer
            /\ s.protocol = spec.protocol
            /\ spec.protocol = "CAS" => secret.data["CAS"].id = s.name
            /\ spec.protocol # "CAS" =>
                /\ s.clientID = secret.data[spec.protocol].id
                /\ s.hash = hashClientSecret(secret.data[spec.protocol].secret)
                /\ spec.clientId \in {None, s.clientID}

\* Whenever the operator comes to rest, every AuthRegistration is registered
\* in CAS with exactly the credentials its Secret publishes, and none is stuck
\* in deletion: no sequence of failures, crashes, stale cache reads and edits
\* makes a needed reconcile get lost.
QuiescentConsistent ==
    Quiescent => \A n \in Names : ars[n] # None => Settled(n)

\* A deleted AuthRegistration eventually goes away.
DeletionCompletes ==
    \A n \in Names :
        (ars[n] # None /\ ars[n].deleting) ~> (ars[n] = None \/ ~ars[n].deleting)

\* resolveSecretName or ValidateRegistration rejects the spec.
Rejected(n) ==
    \/ ResolveSecretName(n, ars[n].spec) = None
    \/ ~ValidRegistration(FromAuthRegistration(ars[n].spec))

\* readRegistrationData is answered from the cache although an event about the
\* Secret is outstanding.
OutdatedRead(o) == job[o].secretName \in unseen[o] /\ ReadRegistrationData(o)

\* Once users, failures and crashes have come to an end, every AuthRegistration
\* that is there and whose spec is not rejected becomes registered and published,
\* and stays so, whichever client secrets have been drawn, lost or written by hand
\* before.  The one thing that can prevent it is a worker that reads an outdated
\* Secret again and again.
EventuallySettled ==
    \/ \E o \in Operators : []<><<OutdatedRead(o)>>_vars
    \/ <>[](\A n \in Names : (ars[n] # None /\ ~Rejected(n)) => Settled(n))

\* Once nobody else changes anything, the Secret reconciler, which compares the
\* Secret with what it should be before every Update, makes no more updates.
SecretUpdatesEnd == <>[][UNCHANGED secrets]_vars

\* The FQDN is read when the payload is built, again when the result is built,
\* and is never watched.  The resync of the Secrets makes up for it, also for an
\* AuthRegistration whose Secret is resolved by default: once the FQDN no longer
\* changes, the registered service and the published URLs come to use it.
FqdnFollowed ==
    (\A o \in Operators, s \in SecretNames : WF_vars(ResyncSecret(o, s))) =>
        <>[](\A n \in Names : (ars[n] # None /\ ~Rejected(n)) =>
                LET spec   == ars[n].spec
                    secret == secrets[ResolveSecretName(n, spec)]
                IN  /\ \A s \in services : s.name = spec.consumer => s.fqdn = fqdn
                    /\ secret # None
                    /\ secret.data[spec.protocol] # None
                    /\ secret.data[spec.protocol].fqdn \in {None, fqdn})

\* Whenever the operator comes to rest, an AuthRegistration controls no Secret
\* but the one its spec resolves to: cleanupObsoleteGeneratedSecret has removed
\* the previous one.
ObsoleteSecretRemoved ==
    Quiescent =>
        \A n \in Names, s \in SecretNames :
            (ars[n] # None /\ secrets[s] # None
                    /\ secrets[s].owner = [name |-> n, uid |-> ars[n].uid])
                => s = ResolveSecretName(n, ars[n].spec)

\* Once an AuthRegistration reports its credentials as published, the Secret it
\* resolves to stays as long as the object lives and no user removes it: neither
\* the cleanup of a previous Secret nor the garbage collection of what an
\* earlier object of the same name owned takes it away.
PublishedSecretKept ==
    [][\A n \in Names :
        LET s == ResolveSecretName(n, ars[n].spec)
        IN  (/\ ars[n] # None
             /\ ars[n].status.conds.published # None
             /\ ars[n].status.conds.published.reason = "SecretReconciled"
             /\ ars'[n] # None
             /\ ars'[n].uid = ars[n].uid
             /\ tampers' = tampers
             /\ secrets[s] # None)
            => secrets'[s] # None]_vars

\* While an AuthRegistration exists, no other one takes over the Secret it
\* controls: SetControllerReference is applied to a cached Secret, and the
\* Update that follows is refused when the Secret has changed since.
ControlNotStolen ==
    [][\A s \in SecretNames :
        LET owner == secrets[s].owner
        IN  (/\ secrets[s] # None
             /\ owner # None
             /\ ars[owner.name] # None
             /\ ars[owner.name].uid = owner.uid
             /\ secrets'[s] # None)
            => secrets'[s].owner = owner]_vars

\* Once users come to an end, the status of every AuthRegistration whose spec is
\* rejected says so for its current generation, and keeps saying so: a patch
\* skipped because of a stale cached status is made up for by a later retry.
RejectionReported ==
    <>[](\A n \in Names :
        (ars[n] # None /\ ~ars[n].deleting /\ Rejected(n)) =>
            /\ ars[n].status.conds.completed # None
            /\ ars[n].status.conds.completed.gen = ars[n].gen
            /\ ars[n].status.conds.completed.reason
                    \in {"InvalidSpec", "RegistrationFailed"})

================================================================================
