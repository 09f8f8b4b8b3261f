---------------------------- MODULE OperatorProofs ----------------------------
(***************************************************************************)
(* Proofs about Operator: type correctness, and that the operator uses the *)
(* CAS backend as CASBackend allows, so that what is proved about the      *)
(* backend holds for the operator.                                         *)
(***************************************************************************)
EXTENDS Operator, CASBackendProofs

\* Labels of a reconcile that has resolved the name of its Secret.
Resolved ==
    {"read", "upsert", "registrationFailed", "patchRef", "secret", "secretFailed",
     "blocked", "cleanup", "published", "succeeded"}

\* What the worker's local variables hold at each of its labels.
JobOK(label, j) ==
    /\ label # "idle" => j.name \in Names /\ j.obj \in AuthRegistrationObjects
    /\ label \in Resolved => j.secretName \in SecretNames
    /\ label \in {"patchRef", "secret"} => j.protocol \in Protocols /\ j.result \in Credentials

\* Which stages of a backend call belong to a label.
CallFits(label, c) ==
    /\ label = "upsert" =>
        /\ c.at \in {"upsert", "write", "result", "ok", "failed"}
        /\ c.at = "ok" => c.result \in Credentials
    /\ label = "delete" => c.at \in {"delete", "remove", "ok", "failed"}

LocalTypeOK ==
    /\ arCache \in [Operators -> [Names -> AuthRegistrationObjects \union {None}]]
    /\ secCache \in [Operators -> [SecretNames -> Secrets \union {None}]]
    /\ queue \in [Operators -> SUBSET Names]
    /\ tampers \in 0..MaxTampers
    /\ crashes \in 0..MaxCrashes

K8sTypeOK ==
    /\ ars \in [Names -> AuthRegistrationObjects \union {None}]
    /\ births \in [Names -> Nat]
    /\ secrets \in [SecretNames -> Secrets \union {None}]
    /\ unseen \in [Operators -> SUBSET SecretNames]

WorkerOK ==
    /\ pc \in [Operators -> Labels]
    /\ job \in [Operators -> Jobs]
    /\ \A o \in Operators : JobOK(pc[o], job[o])

CallsFit == \A o \in Operators : CallFits(pc[o], call[o])

OperatorInv == CASInv /\ K8sTypeOK /\ LocalTypeOK /\ WorkerOK /\ CallsFit

-------------------------------------------------------------------------------
(***************************************************************************)
(* The operators the model is built from                                   *)
(***************************************************************************)

LEMMA ResolveType ==
  ASSUME NEW n \in Names, NEW spec \in Specs
  PROVE  ResolveSecretName(n, spec) \in SecretNames \union {None}
  BY DefaultSecretAssumption DEF ResolveSecretName, Specs

LEMMA NoJobType == NoJob \in Jobs /\ JobOK("idle", NoJob)
  BY DEF NoJob, Jobs, JobOK, Resolved

\* A reconcile starts with locals that fit its first label.
LEMMA StartedType ==
  ASSUME NEW n \in Names, NEW obj \in AuthRegistrationObjects
  PROVE  /\ Started(n, obj) \in Jobs
         /\ StartOfReconcile(n, obj) \in {"invalidRef", "read"}
         /\ JobOK(StartOfReconcile(n, obj), Started(n, obj))
  <1>1. obj.spec \in Specs /\ obj.status \in Statuses
    BY DEF AuthRegistrationObjects
  <1>2. obj.status.ref \in SecretNames \union {None}
    BY <1>1 DEF Statuses
  <1> DEFINE s == ResolveSecretName(n, obj.spec)
             m == IsControllerManaged(obj.spec)
  <1>3. s \in SecretNames \union {None} /\ m \in BOOLEAN
    BY <1>1, ResolveType DEF IsControllerManaged
  <1>4. Started(n, obj) = [NoJob EXCEPT !.name = n, !.obj = obj, !.secretName = s,
                                        !.managed = m, !.prev = obj.status.ref]
    BY DEF Started
  <1>5. StartOfReconcile(n, obj) = IF s = None THEN "invalidRef" ELSE "read"
    BY DEF StartOfReconcile
  <1> HIDE DEF s, m
  <1>6. /\ Started(n, obj) \in Jobs
        /\ Started(n, obj).name = n /\ Started(n, obj).obj = obj
        /\ Started(n, obj).secretName = s
    BY <1>2, <1>3, <1>4 DEF NoJob, Jobs
  <1> QED BY <1>3, <1>5, <1>6 DEF JobOK, Resolved

LEMMA StatusType ==
  ASSUME NEW obj \in AuthRegistrationObjects
  PROVE  /\ \A ref \in SecretNames \union {None} : WithRef(obj, ref) \in Statuses
         /\ \A r \in PublishedReasons : WithPublished(obj, r) \in Statuses
         /\ \A r \in CompletedReasons : WithCompleted(obj, r) \in Statuses
  <1>1. obj.status \in Statuses /\ obj.gen \in Nat
    BY DEF AuthRegistrationObjects
  <1>2. ASSUME NEW ref \in SecretNames \union {None}
        PROVE  WithRef(obj, ref) \in Statuses
    BY <1>1 DEF WithRef, Statuses
  <1>3. ASSUME NEW r \in PublishedReasons
        PROVE  WithPublished(obj, r) \in Statuses
    <2>1. Condition(r, obj.gen) \in Conditions(PublishedReasons)
      BY <1>1 DEF Condition, Conditions
    <2> QED BY <1>1, <2>1 DEF WithPublished, Statuses
  <1>4. ASSUME NEW r \in CompletedReasons
        PROVE  WithCompleted(obj, r) \in Statuses
    <2>1. Condition(r, obj.gen) \in Conditions(CompletedReasons)
      BY <1>1 DEF Condition, Conditions
    <2> QED BY <1>1, <2>1 DEF WithCompleted, Statuses
  <1> QED BY <1>2, <1>3, <1>4

LEMMA MergePatchType ==
  ASSUME NEW live \in AuthRegistrationObjects, NEW before \in Statuses, NEW after \in Statuses
  PROVE  MergePatch(live, before, after) \in AuthRegistrationObjects
  <1> DEFINE new == [ref   |-> IF after.ref = before.ref THEN live.status.ref ELSE after.ref,
                     conds |-> IF after.conds = before.conds THEN live.status.conds
                               ELSE after.conds]
  <1>1. live.status \in Statuses
    BY DEF AuthRegistrationObjects
  <1>2. new \in Statuses
    BY <1>1 DEF Statuses
  <1>3. MergePatch(live, before, after) = [live EXCEPT !.status = new]
    BY DEF MergePatch
  <1> HIDE DEF new
  <1> QED BY <1>2, <1>3 DEF AuthRegistrationObjects

LEMMA SecretType ==
  ASSUME NEW j \in Jobs, j.name \in Names, j.obj \in AuthRegistrationObjects,
         j.protocol \in Protocols, j.result \in Credentials
  PROVE  /\ NewSecret(j) \in Secrets
         /\ \A current \in Secrets : MergedSecret(j, current) \in Secrets
  <1>1. OwnerReference(j) \in Owners
    BY DEF OwnerReference, Owners, AuthRegistrationObjects
  <1>2. NoData \in RegistrationData
    BY DEF NoData, RegistrationData
  <1>3. ASSUME NEW data \in RegistrationData
        PROVE  [data EXCEPT ![j.protocol] = j.result] \in RegistrationData
    BY DEF RegistrationData
  <1>4. NewSecret(j) \in Secrets
    BY <1>1, <1>2, <1>3 DEF NewSecret, Secrets, SecretTypes
  <1>5. ASSUME NEW current \in Secrets
        PROVE  MergedSecret(j, current) \in Secrets
    <2>1. current.data \in RegistrationData /\ current.owner \in Owners \union {None}
      BY DEF Secrets
    <2>2. [current.data EXCEPT ![j.protocol] = j.result] \in RegistrationData
      BY <1>3, <2>1
    <2> QED BY <1>1, <2>1, <2>2 DEF MergedSecret, Secrets, SecretTypes
  <1> QED BY <1>4, <1>5

LEMMA ClientSecretType ==
  ASSUME NEW data \in RegistrationData, NEW protocol
  PROVE  ClientSecret(data, protocol) \in ClientSecrets \union {None}
  BY DEF ClientSecret, RegistrationData, Credentials, Protocols

LEMMA FromAuthRegistrationType ==
  ASSUME NEW obj \in AuthRegistrationObjects
  PROVE  FromAuthRegistration(obj.spec) \in Registrations
  BY DEF FromAuthRegistration, AuthRegistrationObjects, Specs, Registrations

-------------------------------------------------------------------------------
(***************************************************************************)
(* Movements of the worker                                                 *)
(***************************************************************************)

LEMMA Moved ==
  ASSUME WorkerOK, CallsFit, call \in [Operators -> Calls],
         NEW o \in Operators, NEW label \in Labels \ {"upsert", "delete"},
         NEW j \in Jobs, JobOK(label, j),
         pc' = [pc EXCEPT ![o] = label], job' = [job EXCEPT ![o] = j],
         \A p \in Operators : p # o => call'[p] = call[p]
  PROVE  WorkerOK' /\ CallsFit'
  <1>1. pc' \in [Operators -> Labels] /\ job' \in [Operators -> Jobs]
    BY DEF WorkerOK
  <1>2. pc'[o] = label /\ job'[o] = j
    BY DEF WorkerOK
  <1>3. \A p \in Operators : p # o => pc'[p] = pc[p] /\ job'[p] = job[p]
    BY DEF WorkerOK
  <1>4. \A p \in Operators : JobOK(pc'[p], job'[p])
    BY <1>2, <1>3 DEF WorkerOK
  <1>5. \A p \in Operators : CallFits(pc'[p], call'[p])
    <2>1. CallFits(pc'[o], call'[o])
      BY <1>2 DEF CallFits
    <2> QED BY <1>3, <2>1 DEF CallsFit
  <1> QED BY <1>1, <1>4, <1>5 DEF WorkerOK, CallsFit

LEMMA WentTo ==
  ASSUME WorkerOK, CallsFit, call \in [Operators -> Calls],
         NEW o \in Operators, NEW label \in Labels \ {"upsert", "delete"},
         NEW j \in Jobs, JobOK(label, j), Goto(o, label, j),
         \A p \in Operators : p # o => call'[p] = call[p]
  PROVE  WorkerOK' /\ CallsFit' /\ queue' = queue
  BY Moved DEF Goto

LEMMA Returned ==
  ASSUME WorkerOK, CallsFit, call \in [Operators -> Calls],
         queue \in [Operators -> SUBSET Names],
         NEW o \in Operators, pc[o] # "idle", Done(o) \/ Retry(o),
         \A p \in Operators : p # o => call'[p] = call[p]
  PROVE  WorkerOK' /\ CallsFit' /\ queue' \in [Operators -> SUBSET Names]
  <1>1. pc' = [pc EXCEPT ![o] = "idle"] /\ job' = [job EXCEPT ![o] = NoJob]
    BY DEF Done, Retry
  <1>2. WorkerOK' /\ CallsFit'
    BY <1>1, NoJobType, Moved DEF Labels
  <1>3. job[o].name \in Names
    BY DEF WorkerOK, JobOK
  <1> QED BY <1>2, <1>3 DEF Done, Retry

\* The backend call of one worker moves on within the worker's label.
LEMMA CallMoved ==
  ASSUME WorkerOK, CallsFit, call \in [Operators -> Calls],
         NEW o \in Operators, NEW c, call' = [call EXCEPT ![o] = c],
         pc' = pc, CallFits(pc[o], c)
  PROVE  CallsFit'
  <1>1. call'[o] = c /\ \A p \in Operators : p # o => call'[p] = call[p]
    OBVIOUS
  <1> QED BY <1>1 DEF CallsFit

-------------------------------------------------------------------------------
(***************************************************************************)
(* The steps of the worker                                                 *)
(***************************************************************************)

\* What every step has to preserve beside the state of the backend.
Rest == K8sTypeOK /\ LocalTypeOK /\ WorkerOK /\ CallsFit

LEMMA BeginStep ==
  ASSUME OperatorInv, NEW o \in Operators, NEW n \in Names, Begin(o, n)
  PROVE  Rest' /\ [CASNext]_casVars
  <1> DEFINE obj  == arCache[o][n]
             job0 == [NoJob EXCEPT !.name = n, !.obj = obj]
  <1>1. call \in [Operators -> Calls] /\ WorkerOK /\ CallsFit
    BY DEF OperatorInv, CASInv, CASTypeOK
  <1>2. obj \in AuthRegistrationObjects \union {None}
    BY DEF OperatorInv, LocalTypeOK
  <1>3. K8sTypeOK' /\ LocalTypeOK'
    BY DEF OperatorInv, Begin, K8sTypeOK, LocalTypeOK, k8sVars
  <1>4. CASE UNCHANGED <<pc, job, casVars>>
    BY <1>1, <1>3, <1>4 DEF Rest, WorkerOK, CallsFit, casVars
  <1>5. ASSUME obj # None
        PROVE  /\ job0 \in Jobs /\ job0.name = n /\ job0.obj = obj
               /\ job0.name \in Names /\ job0.obj \in AuthRegistrationObjects
    BY <1>2, <1>5 DEF NoJob, Jobs
  <1>6. ASSUME obj # None, pc' = [pc EXCEPT ![o] = "delete"],
               job' = [job EXCEPT ![o] = job0], CallDelete(o, FromAuthRegistration(obj.spec))
        PROVE  Rest' /\ [CASNext]_casVars
    <2>1. FromAuthRegistration(obj.spec) \in Registrations
      BY <1>2, <1>6, FromAuthRegistrationType
    <2>2. CASNext
      BY <1>6, <2>1 DEF CASNext
    <2>3. JobOK("delete", job0)
      BY <1>5, <1>6 DEF JobOK, Resolved
    <2> DEFINE c == [NoCall EXCEPT !.at = "delete", !.reg = FromAuthRegistration(obj.spec)]
    <2>4. call' = [call EXCEPT ![o] = c] /\ CallFits("delete", c)
      BY <1>6 DEF CallDelete, CallFits, NoCall
    <2>5. job0 \in Jobs
      BY <1>5, <1>6
    <2> HIDE DEF c, job0
    <2>6. WorkerOK'
      BY <1>1, <1>6, <2>3, <2>5 DEF WorkerOK, Labels
    <2>7. \A p \in Operators : CallFits(pc'[p], call'[p])
      BY <1>1, <1>6, <2>4 DEF WorkerOK, CallsFit
    <2> QED BY <1>3, <2>2, <2>6, <2>7 DEF Rest, CallsFit
  <1>7. ASSUME obj # None, pc' = [pc EXCEPT ![o] = "finalize"],
               job' = [job EXCEPT ![o] = job0], UNCHANGED casVars
        PROVE  Rest' /\ [CASNext]_casVars
    <2>1. JobOK("finalize", job0) /\ job0 \in Jobs
      BY <1>5, <1>7 DEF JobOK, Resolved
    <2> HIDE DEF job0
    <2>2. WorkerOK' /\ CallsFit'
      BY <1>1, <1>7, <2>1, Moved DEF casVars, Labels
    <2> QED BY <1>3, <1>7, <2>2 DEF Rest
  <1>8. ASSUME obj # None, pc' = [pc EXCEPT ![o] = StartOfReconcile(n, obj)],
               job' = [job EXCEPT ![o] = Started(n, obj)], UNCHANGED casVars
        PROVE  Rest' /\ [CASNext]_casVars
    <2>1. /\ Started(n, obj) \in Jobs
          /\ StartOfReconcile(n, obj) \in Labels \ {"upsert", "delete"}
          /\ JobOK(StartOfReconcile(n, obj), Started(n, obj))
      BY <1>2, <1>8, StartedType DEF Labels
    <2>2. WorkerOK' /\ CallsFit'
      BY <1>1, <1>8, <2>1, Moved DEF casVars
    <2> QED BY <1>3, <1>8, <2>2 DEF Rest
  <1> QED BY <1>4, <1>6, <1>7, <1>8 DEF Begin

LEMMA FinalizeStep ==
  ASSUME OperatorInv, NEW o \in Operators, Finalize(o)
  PROVE  Rest' /\ [CASNext]_casVars
  <1> DEFINE n     == job[o].name
             added == [job[o].obj EXCEPT !.finalizer = TRUE]
  <1>1. /\ call \in [Operators -> Calls] /\ call' = call
        /\ WorkerOK /\ CallsFit /\ queue \in [Operators -> SUBSET Names]
    BY DEF OperatorInv, CASInv, CASTypeOK, LocalTypeOK, Finalize
  <1>2. pc[o] # "idle" /\ n \in Names /\ job[o].obj \in AuthRegistrationObjects
    BY <1>1 DEF Finalize, WorkerOK, JobOK
  <1>3. added \in AuthRegistrationObjects
    BY <1>2 DEF AuthRegistrationObjects
  <1>4. [CASNext]_casVars
    <2>1. CASE UNCHANGED faults
      BY <2>1 DEF Finalize, casVars
    <2>2. CASE Fault
      BY <2>2 DEF Finalize, CASNext, OtherFault
    <2> QED BY <2>1, <2>2 DEF Finalize
  <1> HIDE DEF added
  <1>5. K8sTypeOK'
    <2>1. ars' \in {ars, [ars EXCEPT ![n] = added]}
      BY DEF Finalize, added
    <2> QED BY <1>2, <1>3, <2>1 DEF Finalize, OperatorInv, K8sTypeOK
  <1>6. WorkerOK' /\ CallsFit' /\ queue' \in [Operators -> SUBSET Names]
    <2>1. CASE Goto(o, StartOfReconcile(n, added), Started(n, added))
      <3>1. /\ Started(n, added) \in Jobs
            /\ StartOfReconcile(n, added) \in Labels \ {"upsert", "delete"}
            /\ JobOK(StartOfReconcile(n, added), Started(n, added))
        BY <1>2, <1>3, StartedType DEF Labels
      <3> QED BY <1>1, <2>1, <3>1, WentTo
    <2>2. CASE Retry(o)
      BY <1>1, <1>2, <2>2, Returned
    <2> QED BY <2>1, <2>2 DEF Finalize, added
  <1>7. LocalTypeOK'
    BY <1>6 DEF Finalize, OperatorInv, LocalTypeOK
  <1> QED BY <1>4, <1>5, <1>6, <1>7 DEF Rest

\* A status patch keeps everything but the status, and moves on to a label whose
\* needs the present locals already meet.
LEMMA PatchStatusStep ==
  ASSUME OperatorInv, NEW o \in Operators, pc[o] # "idle",
         NEW after \in Statuses, NEW next,
         next \in {"done", "retry"} \/ next \in Labels \ {"upsert", "delete"},
         \A j \in Jobs :
            (/\ j.name = job[o].name /\ j.secretName = job[o].secretName
             /\ j.protocol = job[o].protocol /\ j.result = job[o].result
             /\ j.obj \in AuthRegistrationObjects)
            => next \in {"done", "retry"} \/ JobOK(next, j),
         PatchStatus(o, after, next)
  PROVE  Rest' /\ [CASNext]_casVars
  <1> DEFINE n       == job[o].name
             before  == job[o].obj.status
             patched == [ars EXCEPT ![n] = MergePatch(ars[n], before, after)]
             j       == [job[o] EXCEPT !.obj = patched[n]]
  <1>1. /\ call \in [Operators -> Calls] /\ call' = call
        /\ WorkerOK /\ CallsFit /\ queue \in [Operators -> SUBSET Names]
    BY DEF OperatorInv, CASInv, CASTypeOK, LocalTypeOK, PatchStatus
  <1>2. /\ n \in Names /\ job[o] \in Jobs /\ job[o].obj \in AuthRegistrationObjects
    BY <1>1 DEF WorkerOK, JobOK
  <1>3. before \in Statuses
    BY <1>2 DEF AuthRegistrationObjects
  <1>4. ars \in [Names -> AuthRegistrationObjects \union {None}]
    BY DEF OperatorInv, K8sTypeOK
  <1>5. ASSUME ars[n] # None
        PROVE  /\ patched \in [Names -> AuthRegistrationObjects \union {None}]
               /\ patched[n] \in AuthRegistrationObjects
    <2>1. MergePatch(ars[n], before, after) \in AuthRegistrationObjects
      BY <1>2, <1>3, <1>4, <1>5, MergePatchType
    <2> QED BY <1>2, <1>4, <2>1
  <1>6. [CASNext]_casVars
    <2>1. CASE UNCHANGED faults
      BY <2>1 DEF PatchStatus, casVars
    <2>2. CASE Fault
      BY <2>2 DEF PatchStatus, CASNext, OtherFault
    <2> QED BY <2>1, <2>2 DEF PatchStatus
  <1>7. K8sTypeOK'
    <2>1. ars' = ars \/ (ars[n] # None /\ ars' = patched)
      BY DEF PatchStatus
    <2> HIDE DEF patched
    <2> QED BY <1>5, <2>1 DEF PatchStatus, OperatorInv, K8sTypeOK
  <1>8. ASSUME NEW k \in Jobs, Proceed(o, next, k), k.obj \in AuthRegistrationObjects,
               k.name = job[o].name, k.secretName = job[o].secretName,
               k.protocol = job[o].protocol, k.result = job[o].result
        PROVE  WorkerOK' /\ CallsFit' /\ queue' \in [Operators -> SUBSET Names]
    <2>1. CASE next \in {"done", "retry"}
      <3>1. Done(o) \/ Retry(o)
        BY <1>8, <2>1 DEF Proceed
      <3> QED BY <1>1, <3>1, Returned
    <2>2. CASE next \notin {"done", "retry"}
      <3>1. Goto(o, next, k)
        BY <1>8, <2>2 DEF Proceed
      <3>2. next \in Labels \ {"upsert", "delete"} /\ JobOK(next, k)
        BY <1>8, <2>2
      <3> QED BY <1>1, <3>1, <3>2, WentTo
    <2> QED BY <2>1, <2>2
  <1>9. WorkerOK' /\ CallsFit' /\ queue' \in [Operators -> SUBSET Names]
    <2>1. CASE Proceed(o, next, job[o])
      BY <1>2, <1>8, <2>1
    <2>2. CASE ars[n] # None /\ Proceed(o, next, j)
      <3>1. patched[n] \in AuthRegistrationObjects
        BY <1>5, <2>2
      <3> HIDE DEF patched
      <3>2. /\ j \in Jobs /\ j.obj = patched[n] /\ j.name = job[o].name
            /\ j.secretName = job[o].secretName
            /\ j.protocol = job[o].protocol /\ j.result = job[o].result
        BY <1>2, <3>1 DEF Jobs
      <3> HIDE DEF j
      <3> QED BY <1>8, <2>2, <3>1, <3>2
    <2>3. CASE Retry(o)
      BY <1>1, <2>3, Returned
    <2> QED BY <2>1, <2>2, <2>3 DEF PatchStatus
  <1>10. LocalTypeOK'
    BY <1>9 DEF PatchStatus, OperatorInv, LocalTypeOK
  <1> QED BY <1>6, <1>7, <1>9, <1>10 DEF Rest

LEMMA PatchesStep ==
  ASSUME OperatorInv, NEW o \in Operators,
         \/ PatchInvalidSpec(o) \/ PatchRegistrationFailed(o) \/ PatchResolvedSecretRef(o)
         \/ PatchSecretReconcileFailed(o) \/ PatchCredentialsPublished(o)
         \/ PatchRegistrationSucceeded(o)
  PROVE  Rest' /\ [CASNext]_casVars
  <1>1. JobOK(pc[o], job[o])
    BY DEF OperatorInv, WorkerOK
  <1>2. ASSUME pc[o] # "idle"
        PROVE  job[o].obj \in AuthRegistrationObjects /\ job[o].name \in Names
    BY <1>1, <1>2 DEF JobOK
  <1>3. CASE PatchInvalidSpec(o)
    <2>1. CASE pc[o] = "invalidRef"
      <3>1. PatchStatus(o, WithRef(job[o].obj, None), "invalidPublished")
        BY <1>3, <2>1 DEF PatchInvalidSpec
      <3>2. WithRef(job[o].obj, None) \in Statuses
        BY <1>2, <2>1, StatusType
      <3> QED BY <1>2, <2>1, <3>1, <3>2, PatchStatusStep DEF Labels, JobOK, Resolved
    <2>2. CASE pc[o] = "invalidPublished"
      <3>1. PatchStatus(o, WithPublished(job[o].obj, "InvalidSpec"), "invalidCompleted")
        BY <1>3, <2>2 DEF PatchInvalidSpec
      <3>2. WithPublished(job[o].obj, "InvalidSpec") \in Statuses
        BY <1>2, <2>2, StatusType DEF PublishedReasons
      <3> QED BY <1>2, <2>2, <3>1, <3>2, PatchStatusStep DEF Labels, JobOK, Resolved
    <2>3. CASE pc[o] = "invalidCompleted"
      <3>1. PatchStatus(o, WithCompleted(job[o].obj, "InvalidSpec"), "retry")
        BY <1>3, <2>3 DEF PatchInvalidSpec
      <3>2. WithCompleted(job[o].obj, "InvalidSpec") \in Statuses
        BY <1>2, <2>3, StatusType DEF CompletedReasons
      <3> QED BY <2>3, <3>1, <3>2, PatchStatusStep
    <2> QED BY <1>3, <2>1, <2>2, <2>3 DEF PatchInvalidSpec
  <1>4. CASE PatchRegistrationFailed(o)
    <2>1. WithCompleted(job[o].obj, "RegistrationFailed") \in Statuses
      BY <1>2, <1>4, StatusType DEF CompletedReasons, PatchRegistrationFailed
    <2> QED BY <1>4, <2>1, PatchStatusStep DEF PatchRegistrationFailed
  <1>5. CASE PatchResolvedSecretRef(o)
    <2>1. /\ job[o].secretName \in SecretNames
          /\ job[o].protocol \in Protocols /\ job[o].result \in Credentials
      BY <1>1, <1>5 DEF JobOK, PatchResolvedSecretRef, Resolved
    <2>2. WithRef(job[o].obj, job[o].secretName) \in Statuses
      BY <1>2, <1>5, <2>1, StatusType DEF PatchResolvedSecretRef
    <2> QED BY <1>2, <1>5, <2>1, <2>2, PatchStatusStep
            DEF PatchResolvedSecretRef, Labels, JobOK
  <1>6. CASE PatchSecretReconcileFailed(o)
    <2>1. CASE pc[o] = "secretFailed"
      <3>1. PatchStatus(o, WithPublished(job[o].obj, "SecretReconcileFailed"), "blocked")
        BY <1>6, <2>1 DEF PatchSecretReconcileFailed
      <3>2. WithPublished(job[o].obj, "SecretReconcileFailed") \in Statuses
        BY <1>2, <2>1, StatusType DEF PublishedReasons
      <3>3. job[o].secretName \in SecretNames
        BY <1>1, <2>1 DEF JobOK, Resolved
      <3> QED BY <1>2, <2>1, <3>1, <3>2, <3>3, PatchStatusStep DEF Labels, JobOK
    <2>2. CASE pc[o] = "blocked"
      <3>1. PatchStatus(o, WithCompleted(job[o].obj, "Blocked"), "retry")
        BY <1>6, <2>2 DEF PatchSecretReconcileFailed
      <3>2. WithCompleted(job[o].obj, "Blocked") \in Statuses
        BY <1>2, <2>2, StatusType DEF CompletedReasons
      <3> QED BY <2>2, <3>1, <3>2, PatchStatusStep
    <2> QED BY <1>6, <2>1, <2>2 DEF PatchSecretReconcileFailed
  <1>7. CASE PatchCredentialsPublished(o)
    <2>1. WithPublished(job[o].obj, "SecretReconciled") \in Statuses
      BY <1>2, <1>7, StatusType DEF PublishedReasons, PatchCredentialsPublished
    <2>2. job[o].secretName \in SecretNames
      BY <1>1, <1>7 DEF JobOK, Resolved, PatchCredentialsPublished
    <2> QED BY <1>2, <1>7, <2>1, <2>2, PatchStatusStep
            DEF PatchCredentialsPublished, Labels, JobOK
  <1>8. CASE PatchRegistrationSucceeded(o)
    <2>1. WithCompleted(job[o].obj, "RegistrationSucceeded") \in Statuses
      BY <1>2, <1>8, StatusType DEF CompletedReasons, PatchRegistrationSucceeded
    <2> QED BY <1>8, <2>1, PatchStatusStep DEF PatchRegistrationSucceeded
  <1> QED BY <1>3, <1>4, <1>5, <1>6, <1>7, <1>8

LEMMA ReadRegistrationDataStep ==
  ASSUME OperatorInv, NEW o \in Operators, ReadRegistrationData(o)
  PROVE  Rest' /\ [CASNext]_casVars
  <1> DEFINE j        == job[o]
             existing == secCache[o][j.secretName]
             data     == IF existing = None THEN NoData ELSE existing.data
             reg      == FromAuthRegistration(j.obj.spec)
             known    == ClientSecret(data, reg.protocol)
             c        == [NoCall EXCEPT !.at = "upsert", !.reg = reg, !.known = known]
  <1>1. call \in [Operators -> Calls] /\ WorkerOK /\ CallsFit /\ pc[o] = "read"
    BY DEF OperatorInv, CASInv, CASTypeOK, ReadRegistrationData
  <1>2. /\ j \in Jobs /\ j.name \in Names /\ j.obj \in AuthRegistrationObjects
        /\ j.secretName \in SecretNames
    BY <1>1 DEF WorkerOK, JobOK, Resolved
  <1>3. reg \in Registrations
    BY <1>2, FromAuthRegistrationType
  <1>4. data \in RegistrationData
    <2>1. existing \in Secrets \union {None}
      BY <1>2 DEF OperatorInv, LocalTypeOK
    <2>2. NoData \in RegistrationData
      BY DEF NoData, RegistrationData
    <2> QED BY <2>1, <2>2 DEF Secrets
  <1>5. known \in ClientSecrets \union {None}
    <2> HIDE DEF data, reg
    <2> QED BY <1>4, ClientSecretType
  <1>6. CallUpsert(o, reg, known) /\ Goto(o, "upsert", j)
    BY DEF ReadRegistrationData
  <1>7. call' = [call EXCEPT ![o] = c] /\ CallFits("upsert", c)
    BY <1>6 DEF CallUpsert, CallFits, NoCall
  <1>8. CASNext
    <2> HIDE DEF reg, known
    <2> QED BY <1>3, <1>5, <1>6 DEF CASNext
  <1> HIDE DEF c, reg, known, data, existing
  <1>9. WorkerOK'
    <2>1. JobOK("upsert", j)
      BY <1>2 DEF JobOK
    <2> QED BY <1>1, <1>2, <1>6, <2>1 DEF Goto, WorkerOK, Labels
  <1>10. CallsFit'
    <2>1. /\ pc'[o] = "upsert" /\ call'[o] = c
          /\ \A p \in Operators : p # o => pc'[p] = pc[p] /\ call'[p] = call[p]
      BY <1>1, <1>6, <1>7 DEF Goto, WorkerOK
    <2> QED BY <1>1, <1>7, <2>1 DEF CallsFit
  <1>11. K8sTypeOK' /\ LocalTypeOK'
    BY <1>6 DEF OperatorInv, K8sTypeOK, LocalTypeOK, ReadRegistrationData, k8sVars, Goto
  <1> QED BY <1>8, <1>9, <1>10, <1>11 DEF Rest

\* The stages of a call, as far as the worker's label tells them apart.
LEMMA StagesStep ==
  ASSUME OperatorInv, NEW o \in Operators, UpsertStep(o) \/ DeleteStep(o),
         pc[o] \in {"upsert", "delete"}
  PROVE  \E c : call' = [call EXCEPT ![o] = c] /\ CallFits(pc[o], c)
  <1>1. call[o] \in Calls /\ CallOK(call[o]) /\ CallFits(pc[o], call[o])
    BY DEF OperatorInv, CASInv, CASTypeOK, CallsFit
  <1>2. CASE \E drawn \in ClientSecrets : UpsertPrepare(o, drawn)
    <2>1. PICK drawn \in ClientSecrets : UpsertPrepare(o, drawn)
      BY <1>2
    <2> DEFINE reg    == call[o].reg
               secret == resolveClientSecret(reg, call[o].known, drawn)
               payload == BuildServicePayload(reg, Existing(reg.consumer), secret, fqdn)
               c      == [call[o] EXCEPT !.at = "write", !.known = None, !.secret = secret,
                                         !.service = payload]
    <2>2. call' = [call EXCEPT ![o] = c] /\ call[o].at = "upsert"
      BY <2>1 DEF UpsertPrepare
    <2>3. c.at = "write"
      BY <1>1 DEF Calls
    <2> HIDE DEF c
    <2> QED BY <1>1, <2>2, <2>3 DEF CallFits
  <1>3. CASE UpsertWrite(o)
    <2>1. PICK id : call' = [call EXCEPT ![o] = [@ EXCEPT !.at = "result", !.service.id = id]]
      BY <1>3 DEF UpsertWrite
    <2> DEFINE c == [call[o] EXCEPT !.at = "result", !.service.id = id]
    <2>2. call' = [call EXCEPT ![o] = c] /\ call[o].at = "write"
      BY <1>3, <2>1 DEF UpsertWrite
    <2>3. c.at = "result"
      BY <1>1 DEF Calls
    <2> HIDE DEF c
    <2> QED BY <1>1, <2>2, <2>3 DEF CallFits
  <1>4. CASE UpsertResult(o)
    <2> DEFINE result == BuildRegistrationResult(call[o].reg, call[o].service,
                                                 call[o].secret, fqdn)
               c == [NoCall EXCEPT !.at = "ok", !.reg = call[o].reg, !.result = result]
    <2>1. call' = [call EXCEPT ![o] = c] /\ call[o].at = "result"
      BY <1>4 DEF UpsertResult
    <2>2. /\ call[o].reg \in Registrations /\ ValidRegistration(call[o].reg)
          /\ call[o].service \in Services
          /\ call[o].secret \in ClientSecrets \union {None} /\ fqdn \in Fqdns
      BY <1>1, <2>1 DEF CallOK, Calls, OperatorInv, CASInv, CASTypeOK
    <2>3. result \in Credentials
      BY <2>2, ResultType
    <2>4. c.at = "ok" /\ c.result = result
      BY DEF NoCall
    <2> HIDE DEF c, result
    <2> QED BY <1>1, <2>1, <2>3, <2>4 DEF CallFits
  <1>5. CASE \/ UpsertRejected(o) \/ UpsertWriteFails(o) \/ UpsertResultFails(o)
             \/ DeleteRejected(o) \/ DeleteRemoveFails(o)
    <2> DEFINE c == [NoCall EXCEPT !.at = "failed"]
    <2>1. call' = [call EXCEPT ![o] = c]
      BY <1>5 DEF UpsertRejected, UpsertWriteFails, UpsertResultFails, DeleteRejected,
                  DeleteRemoveFails, Fails
    <2>2. c.at = "failed"
      BY DEF NoCall
    <2> HIDE DEF c
    <2> QED BY <2>1, <2>2 DEF CallFits
  <1>6. CASE DeleteLookup(o)
    <2> DEFINE existing == Existing(call[o].reg.consumer)
               c == IF existing = None
                    THEN [NoCall EXCEPT !.at = "ok", !.reg = call[o].reg]
                    ELSE IF existing.id = None
                         THEN [NoCall EXCEPT !.at = "failed"]
                         ELSE [call[o] EXCEPT !.at = "remove", !.service = existing]
    <2>1. call' = [call EXCEPT ![o] = c] /\ call[o].at = "delete"
      BY <1>6 DEF DeleteLookup
    <2> HIDE DEF existing
    <2>2. c.at \in {"ok", "failed", "remove"}
      BY <1>1 DEF NoCall, Calls
    <2> HIDE DEF c
    <2> QED BY <1>1, <2>1, <2>2 DEF CallFits
  <1>7. CASE DeleteRemove(o)
    <2> DEFINE c == [NoCall EXCEPT !.at = "ok", !.reg = call[o].reg]
    <2>1. call' = [call EXCEPT ![o] = c] /\ call[o].at = "remove"
      BY <1>7 DEF DeleteRemove
    <2>2. c.at = "ok"
      BY DEF NoCall
    <2> HIDE DEF c
    <2> QED BY <1>1, <2>1, <2>2 DEF CallFits
  <1> QED BY <1>2, <1>3, <1>4, <1>5, <1>6, <1>7 DEF UpsertStep, DeleteStep

LEMMA BackendStepStep ==
  ASSUME OperatorInv, NEW o \in Operators, BackendStep(o)
  PROVE  Rest' /\ [CASNext]_casVars
  <1>1. UpsertStep(o) \/ DeleteStep(o)
    <2>1. FreshSecrets \subseteq ClientSecrets
      BY DEF FreshSecrets
    <2> QED BY <2>1 DEF BackendStep, UpsertStep
  <1>2. CASNext
    BY <1>1 DEF CASNext
  <1>3. /\ call \in [Operators -> Calls] /\ WorkerOK /\ CallsFit
        /\ pc[o] \in {"upsert", "delete"} /\ UNCHANGED <<k8sVars, localVars, tampers, crashes>>
    BY DEF OperatorInv, CASInv, CASTypeOK, BackendStep
  <1>4. PICK c : call' = [call EXCEPT ![o] = c] /\ CallFits(pc[o], c)
    BY <1>1, <1>3, StagesStep
  <1>5. CallsFit'
    BY <1>3, <1>4, CallMoved DEF localVars
  <1>6. K8sTypeOK' /\ LocalTypeOK' /\ WorkerOK'
    BY <1>3 DEF OperatorInv, K8sTypeOK, LocalTypeOK, WorkerOK, k8sVars, localVars
  <1> QED BY <1>2, <1>5, <1>6 DEF Rest

\* The worker takes the outcome of its call.
LEMMA UpsertedStep ==
  ASSUME OperatorInv, NEW o \in Operators, Upserted(o)
  PROVE  Rest' /\ [CASNext]_casVars
  <1> DEFINE j == [job[o] EXCEPT !.protocol = call[o].reg.protocol, !.result = call[o].result]
  <1>1. /\ call \in [Operators -> Calls] /\ WorkerOK /\ CallsFit
        /\ pc[o] = "upsert" /\ Return(o)
        /\ UNCHANGED <<k8sVars, arCache, secCache, tampers, crashes>>
    BY DEF OperatorInv, CASInv, CASTypeOK, Upserted
  <1>2. CASNext
    BY <1>1 DEF CASNext
  <1>3. \A p \in Operators : p # o => call'[p] = call[p]
    BY <1>1 DEF Return
  <1>4. /\ job[o] \in Jobs /\ job[o].name \in Names /\ job[o].obj \in AuthRegistrationObjects
        /\ job[o].secretName \in SecretNames
    BY <1>1 DEF WorkerOK, JobOK, Resolved
  <1>5. WorkerOK' /\ CallsFit' /\ queue' = queue
    <2>1. CASE call[o].at = "ok" /\ Goto(o, "patchRef", j)
      <3>1. call[o].result \in Credentials
        BY <1>1, <2>1 DEF CallsFit, CallFits
      <3>2. call[o].reg.protocol \in Protocols
        BY <2>1, <3>1, BackendAssumption DEF OperatorInv, CASInv, CallOK
      <3>3. /\ j \in Jobs /\ j.name = job[o].name /\ j.obj = job[o].obj
            /\ j.secretName = job[o].secretName /\ j.protocol \in Protocols
            /\ j.result \in Credentials
        BY <1>4, <3>1, <3>2 DEF Jobs
      <3> HIDE DEF j
      <3>4. JobOK("patchRef", j)
        BY <1>4, <3>3 DEF JobOK
      <3> QED BY <1>1, <1>3, <2>1, <3>3, <3>4, WentTo DEF Labels
    <2>2. CASE Goto(o, "registrationFailed", job[o])
      <3>1. JobOK("registrationFailed", job[o])
        BY <1>4 DEF JobOK
      <3> QED BY <1>1, <1>3, <1>4, <2>2, <3>1, WentTo DEF Labels
    <2> QED BY <2>1, <2>2 DEF Upserted
  <1>6. K8sTypeOK' /\ LocalTypeOK'
    BY <1>1, <1>5 DEF OperatorInv, K8sTypeOK, LocalTypeOK, k8sVars
  <1> QED BY <1>2, <1>5, <1>6 DEF Rest

LEMMA DeletedStep ==
  ASSUME OperatorInv, NEW o \in Operators, Deleted(o)
  PROVE  Rest' /\ [CASNext]_casVars
  <1>1. /\ call \in [Operators -> Calls] /\ WorkerOK /\ CallsFit
        /\ queue \in [Operators -> SUBSET Names]
        /\ pc[o] = "delete" /\ Return(o)
        /\ UNCHANGED <<k8sVars, arCache, secCache, tampers, crashes>>
    BY DEF OperatorInv, CASInv, CASTypeOK, LocalTypeOK, Deleted
  <1>2. CASNext
    BY <1>1 DEF CASNext
  <1>3. \A p \in Operators : p # o => call'[p] = call[p]
    BY <1>1 DEF Return
  <1>4. job[o] \in Jobs /\ JobOK("unfinalize", job[o])
    BY <1>1 DEF WorkerOK, JobOK, Resolved
  <1>5. WorkerOK' /\ CallsFit' /\ queue' \in [Operators -> SUBSET Names]
    <2>1. CASE Goto(o, "unfinalize", job[o])
      BY <1>1, <1>3, <1>4, <2>1, WentTo DEF Labels
    <2>2. CASE Retry(o)
      BY <1>1, <1>3, <2>2, Returned
    <2> QED BY <2>1, <2>2 DEF Deleted
  <1>6. K8sTypeOK' /\ LocalTypeOK'
    BY <1>1, <1>5 DEF OperatorInv, K8sTypeOK, LocalTypeOK, k8sVars
  <1> QED BY <1>2, <1>5, <1>6 DEF Rest

LEMMA UnfinalizeStep ==
  ASSUME OperatorInv, NEW o \in Operators, Unfinalize(o)
  PROVE  Rest' /\ [CASNext]_casVars
  <1> DEFINE n == job[o].name
  <1>1. /\ call \in [Operators -> Calls] /\ call' = call
        /\ WorkerOK /\ CallsFit /\ queue \in [Operators -> SUBSET Names]
    BY DEF OperatorInv, CASInv, CASTypeOK, LocalTypeOK, Unfinalize
  <1>2. pc[o] # "idle"
    BY DEF Unfinalize
  <1>3. [CASNext]_casVars
    <2>1. CASE UNCHANGED faults
      BY <2>1 DEF Unfinalize, casVars
    <2>2. CASE Fault
      BY <2>2 DEF Unfinalize, CASNext, OtherFault
    <2> QED BY <2>1, <2>2 DEF Unfinalize
  <1>4. K8sTypeOK'
    <2>1. ars' \in {ars, [ars EXCEPT ![n] = None]}
      BY DEF Unfinalize
    <2> QED BY <2>1 DEF Unfinalize, OperatorInv, K8sTypeOK
  <1>5. WorkerOK' /\ CallsFit' /\ queue' \in [Operators -> SUBSET Names]
    <2>1. Done(o) \/ Retry(o)
      BY DEF Unfinalize
    <2> QED BY <1>1, <1>2, <2>1, Returned
  <1>6. LocalTypeOK'
    BY <1>5 DEF Unfinalize, OperatorInv, LocalTypeOK
  <1> QED BY <1>3, <1>4, <1>5, <1>6 DEF Rest

-------------------------------------------------------------------------------
(***************************************************************************)
(* The credentials Secret                                                  *)
(***************************************************************************)

LEMMA WriteSecretType ==
  ASSUME K8sTypeOK, NEW s \in SecretNames, NEW secret \in Secrets \union {None},
         WriteSecret(s, secret)
  PROVE  /\ secrets' \in [SecretNames -> Secrets \union {None}]
         /\ unseen' \in [Operators -> SUBSET SecretNames]
  BY DEF K8sTypeOK, WriteSecret

LEMMA ReconcileSecretStep ==
  ASSUME OperatorInv, NEW o \in Operators, ReconcileSecret(o)
  PROVE  Rest' /\ [CASNext]_casVars
  <1> DEFINE j       == job[o]
             s       == j.secretName
             current == secCache[o][s]
             desired == IF current = None THEN NewSecret(j) ELSE MergedSecret(j, current)
  <1>1. /\ call \in [Operators -> Calls] /\ call' = call
        /\ WorkerOK /\ CallsFit /\ K8sTypeOK /\ pc[o] = "secret"
    BY DEF OperatorInv, CASInv, CASTypeOK, ReconcileSecret
  <1>2. /\ j \in Jobs /\ j.name \in Names /\ j.obj \in AuthRegistrationObjects
        /\ s \in SecretNames /\ j.protocol \in Protocols /\ j.result \in Credentials
    BY <1>1 DEF WorkerOK, JobOK, Resolved
  <1>3. desired \in Secrets
    <2>1. current \in Secrets \union {None}
      BY <1>2 DEF OperatorInv, LocalTypeOK
    <2> HIDE DEF j, current
    <2> QED BY <1>2, <2>1, SecretType
  <1>4. [CASNext]_casVars
    <2>1. CASE UNCHANGED faults
      BY <2>1 DEF ReconcileSecret, casVars
    <2>2. CASE Fault
      BY <2>2 DEF ReconcileSecret, CASNext, OtherFault
    <2> QED BY <2>1, <2>2 DEF ReconcileSecret
  <1>5. K8sTypeOK'
    <2>1. UNCHANGED <<secrets, unseen>> \/ WriteSecret(s, desired)
      BY DEF ReconcileSecret
    <2> HIDE DEF desired, s
    <2>2. /\ secrets' \in [SecretNames -> Secrets \union {None}]
          /\ unseen' \in [Operators -> SUBSET SecretNames]
      BY <1>1, <1>2, <1>3, <2>1, WriteSecretType DEF K8sTypeOK
    <2> QED BY <1>1, <2>2 DEF ReconcileSecret, K8sTypeOK
  <1>6. WorkerOK' /\ CallsFit' /\ queue' = queue
    <2>1. JobOK("cleanup", j) /\ JobOK("secretFailed", j)
      BY <1>2 DEF JobOK
    <2>2. Goto(o, "cleanup", j) \/ Goto(o, "secretFailed", j)
      BY DEF ReconcileSecret
    <2> QED BY <1>1, <1>2, <2>1, <2>2, WentTo DEF Labels
  <1>7. LocalTypeOK'
    BY <1>6 DEF ReconcileSecret, OperatorInv, LocalTypeOK
  <1> QED BY <1>4, <1>5, <1>6, <1>7 DEF Rest

LEMMA CleanupStep ==
  ASSUME OperatorInv, NEW o \in Operators, CleanupObsoleteGeneratedSecret(o)
  PROVE  Rest' /\ [CASNext]_casVars
  <1> DEFINE j == job[o]
  <1>1. /\ call \in [Operators -> Calls] /\ call' = call
        /\ WorkerOK /\ CallsFit /\ K8sTypeOK /\ queue \in [Operators -> SUBSET Names]
        /\ pc[o] = "cleanup"
    BY DEF OperatorInv, CASInv, CASTypeOK, LocalTypeOK, CleanupObsoleteGeneratedSecret
  <1>2. /\ j \in Jobs /\ j.name \in Names /\ j.obj \in AuthRegistrationObjects
        /\ j.secretName \in SecretNames
    BY <1>1 DEF WorkerOK, JobOK, Resolved
  <1>3. [CASNext]_casVars
    <2>1. CASE UNCHANGED faults
      BY <2>1 DEF CleanupObsoleteGeneratedSecret, casVars
    <2>2. CASE Fault
      BY <2>2 DEF CleanupObsoleteGeneratedSecret, CASNext, OtherFault
    <2> QED BY <2>1, <2>2 DEF CleanupObsoleteGeneratedSecret
  <1>4. K8sTypeOK'
    <2>1. \/ UNCHANGED <<secrets, unseen>>
          \/ j.prev # None /\ WriteSecret(j.prev, None)
      BY DEF CleanupObsoleteGeneratedSecret, DeleteSecret
    <2>2. j.prev \in SecretNames \union {None}
      BY <1>2 DEF Jobs
    <2>3. /\ secrets' \in [SecretNames -> Secrets \union {None}]
          /\ unseen' \in [Operators -> SUBSET SecretNames]
      BY <1>1, <2>1, <2>2, WriteSecretType DEF K8sTypeOK
    <2> QED BY <1>1, <2>3 DEF CleanupObsoleteGeneratedSecret, K8sTypeOK
  <1>5. WorkerOK' /\ CallsFit' /\ queue' \in [Operators -> SUBSET Names]
    <2>1. JobOK("published", j)
      BY <1>2 DEF JobOK
    <2>2. CASE Goto(o, "published", j)
      BY <1>1, <1>2, <2>1, <2>2, WentTo DEF Labels
    <2>3. CASE Retry(o)
      BY <1>1, <2>3, Returned
    <2> QED BY <2>2, <2>3 DEF CleanupObsoleteGeneratedSecret
  <1>6. LocalTypeOK'
    BY <1>5 DEF CleanupObsoleteGeneratedSecret, OperatorInv, LocalTypeOK
  <1> QED BY <1>3, <1>4, <1>5, <1>6 DEF Rest

-------------------------------------------------------------------------------
(***************************************************************************)
(* The steps of everyone else                                              *)
(***************************************************************************)

\* Only the informers' state moves.
LEMMA WatchesStep ==
  ASSUME OperatorInv, NEW o \in Operators,
         \/ \E n \in Names : SyncAuthRegistration(o, n)
         \/ \E s \in SecretNames : SyncSecret(o, s) \/ ResyncSecret(o, s)
  PROVE  Rest' /\ [CASNext]_casVars
  <1>1. \A s : MapSecretToAuthRegistrations(o, s) \subseteq Names
    BY DEF MapSecretToAuthRegistrations
  <1>2. UNCHANGED <<casVars, pc, job>>
    BY DEF SyncAuthRegistration, SyncSecret, ResyncSecret
  <1>3. WorkerOK' /\ CallsFit'
    BY <1>2 DEF OperatorInv, WorkerOK, CallsFit, casVars
  <1>4. ASSUME NEW n \in Names, SyncAuthRegistration(o, n)
        PROVE  K8sTypeOK' /\ LocalTypeOK'
    <2>1. arCache' \in [Operators -> [Names -> AuthRegistrationObjects \union {None}]]
      BY <1>4 DEF OperatorInv, K8sTypeOK, LocalTypeOK, SyncAuthRegistration
    <2>2. queue' \in [Operators -> SUBSET Names]
      BY <1>4 DEF OperatorInv, LocalTypeOK, SyncAuthRegistration
    <2> QED BY <1>4, <2>1, <2>2
            DEF OperatorInv, K8sTypeOK, LocalTypeOK, SyncAuthRegistration, k8sVars
  <1>5. ASSUME NEW s \in SecretNames, SyncSecret(o, s)
        PROVE  K8sTypeOK' /\ LocalTypeOK'
    <2>1. secCache' \in [Operators -> [SecretNames -> Secrets \union {None}]]
      BY <1>5 DEF OperatorInv, K8sTypeOK, LocalTypeOK, SyncSecret
    <2>2. queue' \in [Operators -> SUBSET Names]
      BY <1>1, <1>5 DEF OperatorInv, LocalTypeOK, SyncSecret
    <2> QED BY <1>5, <2>1, <2>2 DEF OperatorInv, K8sTypeOK, LocalTypeOK, SyncSecret
  <1>6. ASSUME NEW s \in SecretNames, ResyncSecret(o, s)
        PROVE  K8sTypeOK' /\ LocalTypeOK'
    <2>1. queue' \in [Operators -> SUBSET Names]
      BY <1>1, <1>6 DEF OperatorInv, LocalTypeOK, ResyncSecret
    <2> QED BY <1>6, <2>1 DEF OperatorInv, K8sTypeOK, LocalTypeOK, ResyncSecret, k8sVars
  <1> QED BY <1>2, <1>3, <1>4, <1>5, <1>6 DEF Rest

LEMMA CrashStep ==
  ASSUME OperatorInv, NEW o \in Operators, Crash(o)
  PROVE  Rest' /\ [CASNext]_casVars
  <1>1. call \in [Operators -> Calls] /\ WorkerOK /\ CallsFit
    BY DEF OperatorInv, CASInv, CASTypeOK
  <1>2. CASNext
    BY DEF Crash, CASNext
  <1>3. \A p \in Operators : p # o => call'[p] = call[p]
    BY <1>1 DEF Crash, Abandon
  <1>4. WorkerOK' /\ CallsFit'
    BY <1>1, <1>3, NoJobType, Moved DEF Crash, Labels
  <1>5. K8sTypeOK'
    BY DEF Crash, OperatorInv, K8sTypeOK
  <1>6. crashes' \in 0..MaxCrashes
    BY OperatorAssumption DEF Crash, OperatorInv, LocalTypeOK
  <1>7. LocalTypeOK'
    BY <1>6 DEF Crash, OperatorInv, K8sTypeOK, LocalTypeOK
  <1> QED BY <1>2, <1>4, <1>5, <1>7 DEF Rest

LEMMA LocalUnchanged ==
  ASSUME OperatorInv, K8sTypeOK', UNCHANGED <<call, localVars>>,
         tampers' \in 0..MaxTampers, crashes' = crashes
  PROVE  Rest'
  BY DEF OperatorInv, Rest, LocalTypeOK, WorkerOK, CallsFit, localVars

LEMMA TamperType ==
  ASSUME tampers \in 0..MaxTampers, Tamper
  PROVE  tampers' \in 0..MaxTampers
  BY OperatorAssumption DEF Tamper

LEMMA UserStepStep ==
  ASSUME OperatorInv, UserStep
  PROVE  Rest' /\ [CASNext]_casVars
  <1>1. K8sTypeOK /\ tampers \in 0..MaxTampers
    BY DEF OperatorInv, LocalTypeOK
  <1>2. ASSUME NEW n \in Names, NEW spec \in UserSpecs[n], UserCreates(n, spec)
        PROVE  Rest' /\ [CASNext]_casVars
    <2>1. spec \in Specs
      BY OperatorAssumption
    <2>2. NoStatus \in Statuses
      BY DEF NoStatus, Statuses, Conditions
    <2>3. births' \in [Names -> Nat]
      BY <1>1, <1>2 DEF K8sTypeOK, UserCreates
    <2>4. ars' \in [Names -> AuthRegistrationObjects \union {None}]
      <3> DEFINE new == [uid |-> births[n] + 1, gen |-> 1, deleting |-> FALSE,
                         finalizer |-> FALSE, spec |-> spec, status |-> NoStatus]
      <3>1. births[n] + 1 \in Nat
        BY <1>1 DEF K8sTypeOK
      <3>2. new \in AuthRegistrationObjects
        BY <2>1, <2>2, <3>1 DEF AuthRegistrationObjects
      <3>3. ars' = [ars EXCEPT ![n] = new]
        BY <1>2 DEF UserCreates
      <3> HIDE DEF new
      <3> QED BY <1>1, <3>2, <3>3 DEF K8sTypeOK
    <2>5. K8sTypeOK'
      BY <1>1, <1>2, <2>3, <2>4 DEF K8sTypeOK, UserCreates
    <2> QED BY <1>1, <1>2, <2>5, LocalUnchanged DEF UserCreates, casVars
  <1>3. ASSUME NEW n \in Names, NEW spec \in UserSpecs[n], UserEdits(n, spec)
        PROVE  Rest' /\ [CASNext]_casVars
    <2>1. spec \in Specs
      BY OperatorAssumption
    <2> DEFINE obj == ars[n]
               new == [obj EXCEPT !.spec = spec, !.gen = obj.gen + 1]
    <2>2. obj \in AuthRegistrationObjects /\ ars' = [ars EXCEPT ![n] = new]
      BY <1>1, <1>3 DEF K8sTypeOK, UserEdits
    <2>3. new \in AuthRegistrationObjects
      <3> HIDE DEF obj
      <3>1. obj.gen + 1 \in Nat
        BY <2>2 DEF AuthRegistrationObjects
      <3> QED BY <2>1, <2>2, <3>1 DEF AuthRegistrationObjects
    <2> HIDE DEF new
    <2>4. K8sTypeOK'
      BY <1>1, <1>3, <2>2, <2>3 DEF K8sTypeOK, UserEdits
    <2> QED BY <1>1, <1>3, <2>4, LocalUnchanged DEF UserEdits, casVars
  <1>4. ASSUME NEW n \in Names, UserDeletes(n)
        PROVE  Rest' /\ [CASNext]_casVars
    <2> DEFINE obj == ars[n]
               new == [obj EXCEPT !.deleting = TRUE, !.gen = obj.gen + 1]
    <2>1. /\ obj \in AuthRegistrationObjects
          /\ ars' = [ars EXCEPT ![n] = new] \/ ars' = [ars EXCEPT ![n] = None]
      BY <1>1, <1>4 DEF K8sTypeOK, UserDeletes
    <2>2. new \in AuthRegistrationObjects
      <3> HIDE DEF obj
      <3>1. obj.gen + 1 \in Nat
        BY <2>1 DEF AuthRegistrationObjects
      <3> QED BY <2>1, <3>1 DEF AuthRegistrationObjects
    <2> HIDE DEF new
    <2>3. K8sTypeOK'
      BY <1>1, <1>4, <2>1, <2>2 DEF K8sTypeOK, UserDeletes
    <2> QED BY <1>1, <1>4, <2>3, LocalUnchanged DEF UserDeletes, casVars
  <1>5. ASSUME NEW s \in SecretNames, NEW data \in UserData, NEW type \in UserSecretTypes,
               UserWritesSecret(s, data, type)
        PROVE  Rest' /\ [CASNext]_casVars
    <2> DEFINE secret == IF secrets[s] = None
                         THEN [type |-> type, label |-> None, owner |-> None, data |-> data]
                         ELSE [secrets[s] EXCEPT !.data = data]
    <2>1. data \in RegistrationData /\ type \in SecretTypes
      BY OperatorAssumption
    <2>2. secret \in Secrets
      BY <1>1, <2>1 DEF K8sTypeOK, Secrets
    <2>3. WriteSecret(s, secret) /\ Tamper
      BY <1>5 DEF UserWritesSecret
    <2> HIDE DEF secret
    <2>4. /\ secrets' \in [SecretNames -> Secrets \union {None}]
          /\ unseen' \in [Operators -> SUBSET SecretNames]
      BY <1>1, <2>2, <2>3, WriteSecretType
    <2>5. K8sTypeOK'
      BY <1>1, <1>5, <2>4 DEF K8sTypeOK, UserWritesSecret
    <2> QED BY <1>1, <1>5, <2>3, <2>5, LocalUnchanged, TamperType
            DEF UserWritesSecret, casVars
  <1>6. ASSUME NEW s \in SecretNames, UserDeletesSecret(s)
        PROVE  Rest' /\ [CASNext]_casVars
    <2>1. /\ secrets' \in [SecretNames -> Secrets \union {None}]
          /\ unseen' \in [Operators -> SUBSET SecretNames]
      BY <1>1, <1>6, WriteSecretType DEF UserDeletesSecret
    <2>2. K8sTypeOK'
      BY <1>1, <1>6, <2>1 DEF K8sTypeOK, UserDeletesSecret
    <2> QED BY <1>1, <1>6, <2>2, LocalUnchanged, TamperType DEF UserDeletesSecret, casVars
  <1>7. ASSUME NEW f \in Fqdns, AdminSetsFqdn(f)
        PROVE  Rest' /\ [CASNext]_casVars
    <2>1. K8sTypeOK'
      BY <1>1, <1>7 DEF K8sTypeOK, AdminSetsFqdn, k8sVars
    <2>2. CASNext /\ call' = call
      BY <1>7 DEF AdminSetsFqdn, SetFqdn, CASNext
    <2> QED BY <1>1, <1>7, <2>1, <2>2, LocalUnchanged, TamperType DEF AdminSetsFqdn
  <1> QED BY <1>2, <1>3, <1>4, <1>5, <1>6, <1>7, OperatorAssumption DEF UserStep

LEMMA ExternalStep ==
  ASSUME OperatorInv,
         \/ \E s \in SecretNames : GarbageCollect(s)
         \/ LateWriteArrives
         \/ UNCHANGED vars
  PROVE  Rest' /\ [CASNext]_casVars
  <1>1. K8sTypeOK /\ tampers \in 0..MaxTampers
    BY DEF OperatorInv, LocalTypeOK
  <1>2. ASSUME NEW s \in SecretNames, GarbageCollect(s)
        PROVE  Rest' /\ [CASNext]_casVars
    <2>1. /\ secrets' \in [SecretNames -> Secrets \union {None}]
          /\ unseen' \in [Operators -> SUBSET SecretNames]
      BY <1>1, <1>2, WriteSecretType DEF GarbageCollect
    <2>2. K8sTypeOK'
      BY <1>1, <1>2, <2>1 DEF K8sTypeOK, GarbageCollect
    <2> QED BY <1>1, <1>2, <2>2, LocalUnchanged DEF GarbageCollect, casVars
  <1>3. CASE LateWriteArrives
    <2>1. K8sTypeOK'
      BY <1>1, <1>3 DEF K8sTypeOK, LateWriteArrives, k8sVars
    <2>2. CASNext /\ call' = call
      BY <1>3 DEF LateWriteArrives, ApplyLate, CASNext
    <2> QED BY <1>1, <1>3, <2>1, <2>2, LocalUnchanged DEF LateWriteArrives
  <1>4. CASE UNCHANGED vars
    <2>1. K8sTypeOK'
      BY <1>1, <1>4 DEF K8sTypeOK, vars, k8sVars
    <2> QED BY <1>1, <1>4, <2>1, LocalUnchanged DEF vars, casVars
  <1> QED BY <1>2, <1>3, <1>4

-------------------------------------------------------------------------------
(***************************************************************************)
(* Theorems                                                                *)
(***************************************************************************)

LEMMA OperatorInvInit == Init => OperatorInv
  <1> SUFFICES ASSUME Init PROVE OperatorInv
    OBVIOUS
  <1>1. CASInv
    BY CASInvInit DEF Init
  <1>2. K8sTypeOK /\ LocalTypeOK
    BY OperatorAssumption DEF Init, K8sTypeOK, LocalTypeOK
  <1>3. WorkerOK
    BY NoJobType DEF Init, WorkerOK, Labels
  <1>4. CallsFit
    BY DEF Init, CallsFit, CallFits
  <1> QED BY <1>1, <1>2, <1>3, <1>4 DEF OperatorInv

\* Every step of the system keeps the invariant, and is a step of the backend
\* under callers that may ask for anything, or leaves the backend alone.
LEMMA OperatorInvStep == OperatorInv /\ [Next]_vars => OperatorInv' /\ [CASNext]_casVars
  <1> SUFFICES ASSUME OperatorInv, [Next]_vars PROVE OperatorInv' /\ [CASNext]_casVars
    OBVIOUS
  <1>1. ASSUME NEW o \in Operators, WorkerStep(o)
        PROVE  Rest' /\ [CASNext]_casVars
    BY <1>1, FinalizeStep, PatchesStep, ReadRegistrationDataStep, BackendStepStep,
       UpsertedStep, ReconcileSecretStep, CleanupStep, DeletedStep, UnfinalizeStep
    DEF WorkerStep
  <1>2. ASSUME NEW o \in Operators, OperatorStep(o)
        PROVE  Rest' /\ [CASNext]_casVars
    BY <1>1, <1>2, BeginStep, WatchesStep, CrashStep DEF OperatorStep
  <1>3. Rest' /\ [CASNext]_casVars
    BY <1>2, UserStepStep, ExternalStep DEF Next
  <1>4. CASInv'
    BY <1>3, CASInvStep DEF OperatorInv
  <1> QED BY <1>3, <1>4 DEF OperatorInv, Rest

\* Type correctness of the whole system, for any number of operators and any
\* failures: every variable keeps its type, and with it every read of a local
\* variable of the worker finds a value that has been set.
THEOREM TypeCorrect == Spec => []TypeOK
  <1>1. OperatorInv => TypeOK
    BY DEF OperatorInv, CASInv, K8sTypeOK, LocalTypeOK, WorkerOK, TypeOK
  <1> QED BY <1>1, OperatorInvInit, OperatorInvStep, PTL DEF Spec

\* The reconciler uses the CAS backend as CASBackend allows: it implements the
\* specification of the backend under arbitrary callers.
THEOREM UsesBackendAsSpecified == Spec => CASSpec
  <1>1. Init => CASInit
    BY DEF Init
  <1> QED BY <1>1, OperatorInvInit, OperatorInvStep, PTL DEF Spec, CASSpec

\* With one operator, no consumer ever gets a second CAS service, whatever
\* requests fail, wherever the operator crashes and whatever users edit.
THEOREM OperatorServicesUnique ==
  ASSUME OneOperator, LateWrites = FALSE
  PROVE  Spec => []UniqueService
  BY UsesBackendAsSpecified, ServicesUnique, PTL

\* With one operator, the credentials the reconciler goes on to publish after
\* an Upsert are at that moment the ones CAS accepts.
THEOREM OperatorResultsUsable ==
  ASSUME OneOperator, LateWrites = FALSE
  PROVE  Spec => []ResultUsable
  BY UsesBackendAsSpecified, ResultsUsable, PTL

\* However many operators share the registry and whatever writes arrive late, the
\* numeric id of a service stays with its consumer.
THEOREM OperatorIdsKeepConsumer == Spec => IdKeepsConsumer
  BY UsesBackendAsSpecified, IdsKeepConsumer, PTL

\* However many operators share the registry, a reconcile changes or removes no
\* service but its consumer's.
THEOREM OperatorWritesStayOwn ==
  ASSUME LateWrites = FALSE
  PROVE  Spec => WritesOwnService
  BY UsesBackendAsSpecified, WritesStayOwn, PTL

================================================================================
