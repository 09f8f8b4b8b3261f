---------------------------- MODULE LifecycleProofs ----------------------------
(***************************************************************************)
(* The life of a registration: no service outlives the AuthRegistration it *)
(* was registered for, and the operator implements RegistrationLifecycle.  *)
(* For one operator without late writes, when no AuthRegistration changes  *)
(* its consumer (the reconciler forgets the service of the old one).       *)
(***************************************************************************)
EXTENDS StalenessProofs, OperatorLifecycle

-------------------------------------------------------------------------------
(***************************************************************************)
(* Specs                                                                   *)
(***************************************************************************)

\* Every copy of an AuthRegistration has a spec users have written to it.
SpecsInv ==
    /\ \A n \in Names : ars[n] # None => ars[n].spec \in UserSpecs[n]
    /\ \A o \in Operators, n \in Names :
            arCache[o][n] # None => arCache[o][n].spec \in UserSpecs[n]
    /\ \A o \in Operators : pc[o] # "idle" => job[o].obj.spec \in UserSpecs[job[o].name]

\* A step of one worker that takes up or goes on with an object with such a spec.
LEMMA SpecsWorker ==
  ASSUME OperatorInv, SpecsInv, NEW o \in Operators, NEW label, NEW j,
         pc' = [pc EXCEPT ![o] = label], job' = [job EXCEPT ![o] = j],
         label # "idle" => j.obj.spec \in UserSpecs[j.name]
  PROVE  \A p \in Operators : pc'[p] # "idle" => job'[p].obj.spec \in UserSpecs[job'[p].name]
  <1>1. pc \in [Operators -> Labels] /\ job \in [Operators -> Jobs]
    BY HoldTypes
  <1> QED BY <1>1 DEF SpecsInv

LEMMA SpecsWorkerStep ==
  ASSUME OperatorInv, SpecsInv, NEW o \in Operators, WorkerStep(o)
  PROVE  SpecsInv'
  <1>1. arCache' = arCache
    BY DEF WorkerStep, Finalize, PatchInvalidSpec, ReadRegistrationData, BackendStep, Upserted,
           PatchRegistrationFailed, PatchResolvedSecretRef, ReconcileSecret,
           PatchSecretReconcileFailed, CleanupObsoleteGeneratedSecret,
           PatchCredentialsPublished, PatchRegistrationSucceeded, Deleted, Unfinalize,
           PatchStatus, localVars
  <1>2. /\ ars \in [Names -> AuthRegistrationObjects \union {None}]
        /\ pc \in [Operators -> Labels] /\ job \in [Operators -> Jobs]
        /\ pc[o] # "idle" => job[o].name \in Names /\ job[o].obj \in AuthRegistrationObjects
        /\ pc[o] # "idle" => job[o].obj.spec \in UserSpecs[job[o].name]
        /\ \A n \in Names : ars[n] # None => ars[n].spec \in UserSpecs[n]
        /\ \A p \in Operators, n \in Names :
                arCache[p][n] # None => arCache[p][n].spec \in UserSpecs[n]
    BY HoldTypes DEF SpecsInv
  <1> DEFINE LiveKept == \A n \in Names : ars'[n] # None => ars'[n].spec \in UserSpecs[n]
             JobsKept == \A p \in Operators :
                            pc'[p] # "idle" => job'[p].obj.spec \in UserSpecs[job'[p].name]
  <1> SUFFICES LiveKept /\ JobsKept
    BY <1>1, <1>2 DEF SpecsInv
  <1>3. ASSUME Retry(o) \/ Done(o) \/ Left(o)
        PROVE  JobsKept
    BY <1>3, SpecsWorker DEF Retry, Done, Left
  <1>4. ASSUME NEW label, NEW j, Goto(o, label, j), j.obj.spec \in UserSpecs[j.name]
        PROVE  JobsKept
    BY <1>4, SpecsWorker DEF Goto
  <1>5. CASE Finalize(o)
    <2> DEFINE n     == job[o].name
               obj   == job[o].obj
               added == [obj EXCEPT !.finalizer = TRUE]
    <2>1. pc[o] # "idle" /\ n \in Names /\ obj \in AuthRegistrationObjects
      BY <1>2, <1>5 DEF Finalize
    <2>2. added.spec = obj.spec
      BY <2>1 DEF AuthRegistrationObjects
    <2>3. Started(n, added).name = n /\ Started(n, added).obj = added
      BY DEF Started, NoJob
    <2>4. ars' = ars \/ ars' = [ars EXCEPT ![n] = added]
      BY <1>5 DEF Finalize
    <2>5. Retry(o) \/ Goto(o, StartOfReconcile(n, added), Started(n, added))
      BY <1>5 DEF Finalize
    <2> HIDE DEF added
    <2>6. LiveKept
      BY <1>2, <2>1, <2>2, <2>4
    <2>7. JobsKept
      BY <1>2, <1>3, <1>4, <2>1, <2>2, <2>3, <2>5
    <2> QED BY <2>6, <2>7
  <1>6. CASE Unfinalize(o)
    <2>1. job[o].name \in Names
      BY <1>2, <1>6 DEF Unfinalize
    <2>2. LiveKept
      BY <1>2, <1>6, <2>1 DEF Unfinalize
    <2> QED BY <1>3, <1>6, <2>2 DEF Unfinalize
  <1>7. CASE Patches(o)
    <2> DEFINE n == job[o].name
    <2>1. pc[o] # "idle" /\ n \in Names
      BY <1>7, PatchKind DEF Reconciling, Resolved
    <2>2. CASE /\ ars' = ars
               /\ Left(o) \/ \E next \in AfterPatch : Goto(o, next, job[o])
      BY <1>2, <1>3, <1>4, <2>1, <2>2
    <2>3. ASSUME NEW m \in AuthRegistrationObjects,
                 ars[n] # None, ars' = [ars EXCEPT ![n] = m], m.spec = ars[n].spec,
                 \/ Left(o)
                 \/ \E next \in AfterPatch : Goto(o, next, [job[o] EXCEPT !.obj = m])
          PROVE  LiveKept /\ JobsKept
      <3> DEFINE j == [job[o] EXCEPT !.obj = m]
      <3>1. j.obj = m /\ j.name = n
        BY <1>2 DEF Jobs
      <3>2. LiveKept
        BY <1>2, <2>1, <2>3
      <3>3. m.spec \in UserSpecs[n]
        BY <1>2, <2>1, <2>3
      <3> HIDE DEF j
      <3>4. JobsKept
        BY <1>3, <1>4, <2>3, <3>1, <3>3 DEF j
      <3> QED BY <3>2, <3>4
    <2> QED BY <1>7, <2>2, <2>3, PatchKind
  <1>8. ars' = ars => LiveKept
    BY <1>2
  <1>9. CASE Upserted(o)
    <2> DEFINE j == [job[o] EXCEPT !.protocol = call[o].reg.protocol,
                                   !.result = call[o].result]
    <2>1. j.name = job[o].name /\ j.obj = job[o].obj
      BY <1>2 DEF Jobs
    <2>2. Goto(o, "patchRef", j) \/ Goto(o, "registrationFailed", job[o])
      BY <1>9 DEF Upserted
    <2>3. pc[o] # "idle" /\ ars' = ars
      BY <1>9 DEF Upserted, k8sVars
    <2> HIDE DEF j
    <2> QED BY <1>2, <1>4, <1>8, <2>1, <2>2, <2>3
  <1>10. CASE BackendStep(o)
    <2>1. UNCHANGED <<ars, pc, job>>
      BY <1>10 DEF BackendStep, k8sVars, localVars
    <2> QED BY <1>8, <2>1 DEF SpecsInv
  <1>11. CASE ReadRegistrationData(o) \/ ReconcileSecret(o) \/ Deleted(o)
                \/ CleanupObsoleteGeneratedSecret(o)
    <2>1. /\ pc[o] # "idle" /\ ars' = ars
          /\ Retry(o) \/ \E label \in Labels : Goto(o, label, job[o])
      BY <1>11 DEF ReadRegistrationData, ReconcileSecret, Deleted,
                   CleanupObsoleteGeneratedSecret, k8sVars, Labels
    <2> QED BY <1>2, <1>3, <1>4, <1>8, <2>1
  <1> QED BY <1>5, <1>6, <1>7, <1>9, <1>10, <1>11 DEF WorkerStep, Patches

LEMMA SpecsInvInit == Init => SpecsInv
  BY DEF Init, SpecsInv

LEMMA SpecsInvStep ==
  ASSUME OperatorInv, SpecsInv, [Next]_vars
  PROVE  SpecsInv'
  <1>1. /\ ars \in [Names -> AuthRegistrationObjects \union {None}]
        /\ arCache \in [Operators -> [Names -> AuthRegistrationObjects \union {None}]]
        /\ pc \in [Operators -> Labels] /\ job \in [Operators -> Jobs]
    BY HoldTypes
  <1>2. ASSUME NEW o \in Operators, NEW n \in Names, Begin(o, n)
        PROVE  SpecsInv'
    <2> DEFINE obj  == arCache[o][n]
               job0 == [NoJob EXCEPT !.name = n, !.obj = obj]
    <2>1. UNCHANGED <<ars, arCache>>
      BY <1>2 DEF Begin, k8sVars
    <2>2. /\ job0.name = n /\ job0.obj = obj
          /\ Started(n, obj).name = n /\ Started(n, obj).obj = obj
      BY DEF Started, NoJob
    <2>3. \/ UNCHANGED <<pc, job>>
          \/ /\ obj # None
             /\ \E label \in Labels, j \in {job0, Started(n, obj)} :
                    pc' = [pc EXCEPT ![o] = label] /\ job' = [job EXCEPT ![o] = j]
      BY <1>2 DEF Begin, Labels, StartOfReconcile
    <2> HIDE DEF job0
    <2>4. \A p \in Operators : pc'[p] # "idle" => job'[p].obj.spec \in UserSpecs[job'[p].name]
      <3>1. CASE UNCHANGED <<pc, job>>
        BY <3>1 DEF SpecsInv
      <3>2. ASSUME NEW label \in Labels, NEW j \in {job0, Started(n, obj)}, obj # None,
                   pc' = [pc EXCEPT ![o] = label], job' = [job EXCEPT ![o] = j]
            PROVE  \A p \in Operators :
                        pc'[p] # "idle" => job'[p].obj.spec \in UserSpecs[job'[p].name]
        <4>1. j.obj.spec \in UserSpecs[j.name]
          BY <2>2, <3>2 DEF SpecsInv
        <4> QED BY <3>2, <4>1, SpecsWorker
      <3> QED BY <2>3, <3>1, <3>2
    <2> QED BY <2>1, <2>4 DEF SpecsInv
  <1>3. ASSUME NEW o \in Operators, NEW n \in Names, SyncAuthRegistration(o, n)
        PROVE  SpecsInv'
    <2>1. /\ UNCHANGED <<ars, pc, job>>
          /\ arCache' = [arCache EXCEPT ![o][n] = ars[n]]
      BY <1>3 DEF SyncAuthRegistration, k8sVars
    <2>2. \A p \in Operators, m \in Names : arCache'[p][m] \in {arCache[p][m], ars[m]}
      BY <1>1, <2>1
    <2> QED BY <2>1, <2>2 DEF SpecsInv
  <1>4. ASSUME NEW o \in Operators, Crash(o)
        PROVE  SpecsInv'
    <2>1. /\ ars' = ars /\ arCache' = [arCache EXCEPT ![o] = ars]
          /\ pc' = [pc EXCEPT ![o] = "idle"] /\ job' = [job EXCEPT ![o] = NoJob]
      BY <1>4 DEF Crash
    <2>2. \A p \in Operators : pc'[p] # "idle" => job'[p].obj.spec \in UserSpecs[job'[p].name]
      BY <2>1, SpecsWorker
    <2>3. \A p \in Operators, m \in Names : arCache'[p][m] \in {arCache[p][m], ars[m]}
      BY <1>1, <2>1
    <2> QED BY <2>1, <2>2, <2>3 DEF SpecsInv
  <1>5. CASE UNCHANGED <<ars, arCache, pc, job>>
    BY <1>5 DEF SpecsInv
  <1>6. ASSUME NEW o \in Operators, OperatorStep(o)
        PROVE  SpecsInv'
    <2>1. CASE \E s \in SecretNames : SyncSecret(o, s) \/ ResyncSecret(o, s)
      BY <1>5, <2>1 DEF SyncSecret, ResyncSecret, k8sVars
    <2> QED BY <1>2, <1>3, <1>4, <1>6, <2>1, SpecsWorkerStep DEF OperatorStep
  <1>7. ASSUME NEW n \in Names, NEW live, live # None => live.spec \in UserSpecs[n],
               ars' = [ars EXCEPT ![n] = live], UNCHANGED <<arCache, pc, job>>
        PROVE  SpecsInv'
    BY <1>1, <1>7 DEF SpecsInv
  <1>8. ASSUME NEW n \in Names, NEW spec \in UserSpecs[n], UserCreates(n, spec) \/ UserEdits(n, spec)
        PROVE  SpecsInv'
    <2> DEFINE born   == [uid |-> births[n] + 1, gen |-> 1, deleting |-> FALSE,
                          finalizer |-> FALSE, spec |-> spec, status |-> NoStatus]
               edited == [ars[n] EXCEPT !.spec = spec, !.gen = ars[n].gen + 1]
    <2>1. UNCHANGED <<arCache, pc, job>>
      BY <1>8 DEF UserCreates, UserEdits, localVars
    <2>2. CASE UserCreates(n, spec)
      <3>1. born.spec = spec /\ ars' = [ars EXCEPT ![n] = born]
        BY <2>2 DEF UserCreates
      <3> HIDE DEF born
      <3> QED BY <1>7, <2>1, <3>1
    <2>3. CASE UserEdits(n, spec)
      <3>1. ars[n] \in AuthRegistrationObjects /\ ars' = [ars EXCEPT ![n] = edited]
        BY <1>1, <2>3 DEF UserEdits
      <3>2. edited.spec = spec
        BY <3>1 DEF AuthRegistrationObjects
      <3> HIDE DEF edited
      <3> QED BY <1>7, <2>1, <3>1, <3>2
    <2> QED BY <1>8, <2>2, <2>3
  <1>9. ASSUME NEW n \in Names, UserDeletes(n)
        PROVE  SpecsInv'
    <2> DEFINE marked == [ars[n] EXCEPT !.deleting = TRUE, !.gen = ars[n].gen + 1]
    <2>1. UNCHANGED <<arCache, pc, job>> /\ ars[n] # None
      BY <1>9 DEF UserDeletes, localVars
    <2>2. ars' = [ars EXCEPT ![n] = marked] \/ ars' = [ars EXCEPT ![n] = None]
      BY <1>9 DEF UserDeletes
    <2>3. marked.spec = ars[n].spec /\ ars[n].spec \in UserSpecs[n]
      BY <1>1, <2>1 DEF AuthRegistrationObjects, SpecsInv
    <2> HIDE DEF marked
    <2> QED BY <1>7, <2>1, <2>2, <2>3
  <1>10. CASE UserStep
    <2>1. CASE \/ \E s \in SecretNames :
                    \/ \E data \in UserData, type \in UserSecretTypes :
                            UserWritesSecret(s, data, type)
                    \/ UserDeletesSecret(s)
               \/ \E f \in Fqdns : AdminSetsFqdn(f)
      BY <1>5, <2>1 DEF UserWritesSecret, UserDeletesSecret, AdminSetsFqdn, k8sVars, localVars
    <2> QED BY <1>8, <1>9, <1>10, <2>1, OperatorAssumption DEF UserStep
  <1>11. CASE (\E s \in SecretNames : GarbageCollect(s)) \/ LateWriteArrives \/ UNCHANGED vars
    BY <1>5, <1>11 DEF GarbageCollect, LateWriteArrives, vars, k8sVars, localVars
  <1> QED BY <1>6, <1>10, <1>11 DEF Next

-------------------------------------------------------------------------------
(***************************************************************************)
(* The registry under the calls of the worker                              *)
(***************************************************************************)

\* Which consumers have a service after a write, and after a removal.
LEMMA SavedNames ==
  ASSUME services \subseteq Services, UniqueInv,
         NEW service \in Services, NEW id \in IdsFor(service),
         IF service.id = None
         THEN Matches(service.name) = {}
         ELSE \E s \in services : s.id = service.id /\ s.name = service.name
  PROVE  \A x : (\E s \in Save(service, id) : s.name = x)
                    <=> (x = service.name \/ \E s \in services : s.name = x)
  <1> DEFINE saved == [service EXCEPT !.id = id]
  <1>1. id \in ServiceIds \union {None}
    BY IdsType
  <1>2. saved.name = service.name
    BY <1>1, SaveType
  <1>3. Save(service, id) = {s \in services : s.id # id} \union {saved}
    BY DEF Save
  <1>4. ASSUME NEW s \in services, s.id = id
        PROVE  s.name = service.name
    <2>1. CASE service.id = None
      BY <1>4, <2>1 DEF IdsFor, UsedIds
    <2>2. CASE service.id # None
      BY <1>4, <2>2 DEF IdsFor, UniqueInv
    <2> QED BY <2>1, <2>2
  <1> HIDE DEF saved
  <1> QED BY <1>2, <1>3, <1>4

LEMMA RemovedNames ==
  ASSUME UniqueInv, NEW id, NEW consumer,
         \E s \in services : s.id = id /\ s.name = consumer
  PROVE  \A x : (\E s \in Removed(id) : s.name = x)
                    <=> (x # consumer /\ \E s \in services : s.name = x)
  BY DEF UniqueInv, UniqueService, Removed

\* What a call in progress, and a deletion that has finished its call, know.
Answers(label, j, c) ==
    /\ label \in {"upsert", "delete"} /\ c.at # "failed" =>
            c.reg = FromAuthRegistration(j.obj.spec)
    /\ label = "delete" /\ c.at = "ok" => c.result = None
    /\ label = "unfinalize" => Matches(j.obj.spec.consumer) = {}

CallInv == \A o \in Operators : Answers(pc[o], job[o], call[o])

\* The stages a call of the worker goes through.
LEMMA BackendCall ==
  ASSUME OperatorInv, NEW o \in Operators, BackendStep(o)
  PROVE  /\ call[o].at \in {"upsert", "write", "result", "delete", "remove"}
         /\ call'[o].at # "failed" => call'[o].reg = call[o].reg
         /\ pc[o] = "delete" /\ call'[o].at = "ok" => call'[o].result = None
         /\ UNCHANGED <<pc, job>>
  <1>1. call \in [Operators -> Calls] /\ call[o] \in Calls /\ CallFits(pc[o], call[o])
    BY DEF OperatorInv, CASInv, CASTypeOK, CallsFit
  <1>2. UNCHANGED <<pc, job>>
    BY DEF BackendStep, localVars
  <1>3. CASE \E drawn \in FreshSecrets : UpsertPrepare(o, drawn)
    BY <1>1, <1>2, <1>3 DEF UpsertPrepare, CallFits, Calls
  <1>4. CASE UpsertWrite(o)
    BY <1>1, <1>2, <1>4 DEF UpsertWrite, CallFits, Calls
  <1>5. CASE UpsertResult(o)
    BY <1>1, <1>2, <1>5 DEF UpsertResult, CallFits, NoCall
  <1>6. CASE UpsertRejected(o) \/ UpsertWriteFails(o) \/ UpsertResultFails(o)
                \/ DeleteRejected(o) \/ DeleteRemoveFails(o)
    BY <1>1, <1>2, <1>6 DEF UpsertRejected, UpsertWriteFails, UpsertResultFails,
       DeleteRejected, DeleteRemoveFails, Fails, NoCall
  <1>7. CASE DeleteLookup(o)
    BY <1>1, <1>2, <1>7 DEF DeleteLookup, NoCall, Calls
  <1>8. CASE DeleteRemove(o)
    BY <1>1, <1>2, <1>8 DEF DeleteRemove, NoCall
  <1> QED BY <1>3, <1>4, <1>5, <1>6, <1>7, <1>8 DEF BackendStep, DeleteStep

\* What a step does to the consumers that have a service.
LEMMA RegistryStep ==
  ASSUME OperatorInv, UniqueInv, NEW o \in Operators, BackendStep(o)
  PROVE  LET consumer == call[o].reg.consumer
         IN  \/ services' = services
             \/ /\ pc[o] = "upsert" /\ call[o].at = "write"
                /\ \A x : (\E s \in services' : s.name = x)
                            <=> (x = consumer \/ \E s \in services : s.name = x)
             \/ /\ pc[o] = "delete" /\ call[o].at = "remove"
                /\ \A x : (\E s \in services' : s.name = x)
                            <=> (x # consumer /\ \E s \in services : s.name = x)
  <1> DEFINE consumer == call[o].reg.consumer
             service  == call[o].service
  <1>1. /\ services \subseteq Services /\ CallOK(call[o]) /\ StageOK(call[o])
        /\ pc[o] \in {"upsert", "delete"} /\ CallFits(pc[o], call[o])
    BY DEF OperatorInv, CASInv, CASTypeOK, CallsFit, UniqueInv, BackendStep
  <1>2. ASSUME call[o].at = "write", NEW id \in IdsFor(service), services' = Save(service, id)
        PROVE  /\ pc[o] = "upsert"
               /\ \A x : (\E s \in services' : s.name = x)
                            <=> (x = consumer \/ \E s \in services : s.name = x)
    <2>1. pc[o] = "upsert" /\ service \in Services /\ service.name = consumer
      BY <1>1, <1>2 DEF CallFits, CallOK
    <2>2. IF service.id = None
          THEN Matches(service.name) = {}
          ELSE \E s \in services : s.id = service.id /\ s.name = service.name
      BY <1>1, <1>2, <2>1 DEF StageOK
    <2> HIDE DEF service, consumer
    <2> QED BY <1>1, <1>2, <2>1, <2>2, SavedNames
  <1>3. ASSUME call[o].at = "remove", services' = Removed(service.id)
        PROVE  /\ pc[o] = "delete"
               /\ \A x : (\E s \in services' : s.name = x)
                            <=> (x # consumer /\ \E s \in services : s.name = x)
    <2>1. pc[o] = "delete" /\ \E s \in services : s.id = service.id /\ s.name = consumer
      BY <1>1, <1>3 DEF CallFits, StageOK
    <2> HIDE DEF service, consumer
    <2> QED BY <1>1, <1>3, <2>1, RemovedNames
  <1>4. CASE UpsertWrite(o) \/ UpsertWriteFails(o)
    <2>1. /\ call[o].at = "write"
          /\ services' = services \/ \E id \in IdsFor(service) : services' = Save(service, id)
      BY <1>4 DEF UpsertWrite, UpsertWriteFails
    <2> HIDE DEF service, consumer
    <2> QED BY <1>2, <2>1 DEF consumer
  <1>5. CASE DeleteRemove(o) \/ DeleteRemoveFails(o)
    <2>1. /\ call[o].at = "remove"
          /\ services' = services \/ services' = Removed(service.id)
      BY <1>5 DEF DeleteRemove, DeleteRemoveFails
    <2> HIDE DEF service, consumer
    <2> QED BY <1>3, <2>1 DEF consumer
  <1>6. CASE \/ \E drawn \in FreshSecrets : UpsertPrepare(o, drawn)
             \/ UpsertRejected(o) \/ UpsertResult(o) \/ UpsertResultFails(o)
             \/ DeleteLookup(o) \/ DeleteRejected(o)
    BY <1>6 DEF UpsertPrepare, UpsertRejected, UpsertResult, UpsertResultFails,
                DeleteLookup, DeleteRejected
  <1> QED BY <1>4, <1>5, <1>6 DEF BackendStep, DeleteStep

\* Only the backend calls change the registry.
LEMMA RegistryChange ==
  ASSUME late = None, [Next]_vars, services' # services
  PROVE  \E o \in Operators : BackendStep(o)
  <1>1. ASSUME NEW o \in Operators, WorkerStep(o)
        PROVE  BackendStep(o)
    <2>1. CASE Patches(o)
      BY <2>1 DEF Patches, PatchInvalidSpec, PatchRegistrationFailed, PatchResolvedSecretRef,
                  PatchSecretReconcileFailed, PatchCredentialsPublished,
                  PatchRegistrationSucceeded, PatchStatus
    <2>2. CASE \/ Finalize(o) \/ ReadRegistrationData(o) \/ Upserted(o) \/ ReconcileSecret(o)
               \/ CleanupObsoleteGeneratedSecret(o) \/ Deleted(o) \/ Unfinalize(o)
      BY <2>2 DEF Finalize, ReadRegistrationData, Upserted, ReconcileSecret,
                  CleanupObsoleteGeneratedSecret, Deleted, Unfinalize, CallUpsert, Return
    <2> QED BY <1>1, <2>1, <2>2 DEF WorkerStep, Patches
  <1>2. ASSUME NEW o \in Operators, OperatorStep(o)
        PROVE  BackendStep(o)
    <2>1. CASE \E n \in Names : Begin(o, n) \/ SyncAuthRegistration(o, n)
      BY <2>1 DEF Begin, SyncAuthRegistration, CallDelete, casVars
    <2>2. CASE (\E s \in SecretNames : SyncSecret(o, s) \/ ResyncSecret(o, s)) \/ Crash(o)
      BY <2>2 DEF SyncSecret, ResyncSecret, Crash, Abandon, casVars
    <2> QED BY <1>1, <1>2, <2>1, <2>2 DEF OperatorStep
  <1>3. ~UserStep
    BY DEF UserStep, UserCreates, UserEdits, UserDeletes, UserWritesSecret, UserDeletesSecret,
           AdminSetsFqdn, SetFqdn, casVars
  <1>4. ~((\E s \in SecretNames : GarbageCollect(s)) \/ LateWriteArrives \/ UNCHANGED vars)
    BY DEF GarbageCollect, LateWriteArrives, ApplyLate, vars, casVars
  <1> QED BY <1>2, <1>3, <1>4 DEF Next

LEMMA CallInvInit == Init => CallInv
  BY DEF Init, CallInv, Answers

LEMMA CallInvStep ==
  ASSUME OneOperator, OperatorInv, UniqueInv, CallInv, [Next]_vars
  PROVE  CallInv'
  <1>1. /\ pc \in [Operators -> Labels] /\ job \in [Operators -> Jobs]
        /\ call \in [Operators -> Calls]
    BY HoldTypes DEF OperatorInv, CASInv, CASTypeOK
  <1> DEFINE After(label, j, c) ==
                /\ label \in {"upsert", "delete"} /\ c.at # "failed" =>
                        c.reg = FromAuthRegistration(j.obj.spec)
                /\ label = "delete" /\ c.at = "ok" => c.result = None
                /\ label = "unfinalize" => ~\E s \in services' : s.name = j.obj.spec.consumer
  <1>2. ASSUME NEW o \in Operators, After(pc'[o], job'[o], call'[o])
        PROVE  CallInv'
    <2>1. \A p \in Operators : p = o
      BY DEF OneOperator
    <2>2. Answers(pc[o], job[o], call[o])'
      BY <1>2 DEF Answers, Matches
    <2> QED BY <2>1, <2>2 DEF CallInv
  <1>3. ASSUME NEW o \in Operators, pc'[o] \notin {"upsert", "delete", "unfinalize"}
        PROVE  CallInv'
    BY <1>2, <1>3
  <1>4. ASSUME UNCHANGED <<services, call, pc, job>>
        PROVE  CallInv'
    BY <1>4 DEF CallInv, Answers, Matches
  <1>5. ASSUME NEW o \in Operators, NEW n \in Names, Begin(o, n)
        PROVE  CallInv'
    <2> DEFINE obj  == arCache[o][n]
               job0 == [NoJob EXCEPT !.name = n, !.obj = obj]
               reg  == FromAuthRegistration(obj.spec)
               c    == [NoCall EXCEPT !.at = "delete", !.reg = reg]
    <2>1. CASE UNCHANGED <<pc, job, casVars>>
      BY <1>4, <2>1 DEF casVars
    <2>2. CASE \E label \in Labels \ {"upsert", "delete", "unfinalize"} :
                    pc' = [pc EXCEPT ![o] = label]
      BY <1>1, <1>3, <2>2
    <2>3. CASE /\ pc' = [pc EXCEPT ![o] = "delete"] /\ job' = [job EXCEPT ![o] = job0]
               /\ CallDelete(o, reg)
      <3>1. job0.obj = obj
        BY DEF NoJob
      <3>2. c.at = "delete" /\ c.reg = reg
        BY DEF NoCall
      <3>3. call'[o] = c /\ pc'[o] = "delete" /\ job'[o] = job0
        BY <1>1, <2>3 DEF CallDelete
      <3> HIDE DEF c, job0
      <3>4. After(pc'[o], job'[o], call'[o])
        BY <3>1, <3>2, <3>3
      <3> QED BY <1>2, <3>4
    <2>4. StartOfReconcile(n, obj) \in Labels \ {"upsert", "delete", "unfinalize"}
      BY DEF StartOfReconcile, Labels
    <2>5. "finalize" \in Labels \ {"upsert", "delete", "unfinalize"}
      BY DEF Labels
    <2> QED BY <1>5, <2>1, <2>2, <2>3, <2>4, <2>5 DEF Begin
  <1>6. ASSUME NEW o \in Operators, ReadRegistrationData(o)
        PROVE  CallInv'
    <2> DEFINE reg == FromAuthRegistration(job[o].obj.spec)
    <2>1. \E known : CallUpsert(o, reg, known)
      BY <1>6 DEF ReadRegistrationData
    <2>2. PICK known : CallUpsert(o, reg, known)
      BY <2>1
    <2> DEFINE c == [NoCall EXCEPT !.at = "upsert", !.reg = reg, !.known = known]
    <2>3. c.at = "upsert" /\ c.reg = reg
      BY DEF NoCall
    <2>4. call'[o] = c
      BY <1>1, <2>2 DEF CallUpsert
    <2>5. pc'[o] = "upsert" /\ job'[o] = job[o]
      BY <1>1, <1>6 DEF ReadRegistrationData, Goto
    <2> HIDE DEF c
    <2>6. After(pc'[o], job'[o], call'[o])
      BY <2>3, <2>4, <2>5
    <2> QED BY <1>2, <2>6
  <1>7. ASSUME NEW o \in Operators, BackendStep(o)
        PROVE  CallInv'
    <2>1. /\ pc[o] \in {"upsert", "delete"} /\ pc'[o] = pc[o] /\ job'[o] = job[o]
          /\ call[o].at # "failed"
          /\ call'[o].at # "failed" => call'[o].reg = call[o].reg
          /\ pc[o] = "delete" /\ call'[o].at = "ok" => call'[o].result = None
      BY <1>7, BackendCall DEF BackendStep
    <2>2. call[o].reg = FromAuthRegistration(job[o].obj.spec)
      BY <2>1 DEF CallInv, Answers
    <2>3. After(pc'[o], job'[o], call'[o])
      BY <2>1, <2>2
    <2> QED BY <1>2, <2>3
  <1>8. ASSUME NEW o \in Operators, Deleted(o)
        PROVE  CallInv'
    <2>1. CASE Retry(o)
      BY <1>1, <1>3, <2>1 DEF Retry
    <2>2. CASE call[o].at = "ok" /\ Goto(o, "unfinalize", job[o])
      <3>1. /\ pc'[o] = "unfinalize" /\ job'[o] = job[o] /\ services' = services
            /\ pc[o] = "delete"
        BY <1>1, <1>8, <2>2 DEF Deleted, Goto, Return
      <3>2. /\ call[o].reg = FromAuthRegistration(job[o].obj.spec)
            /\ Matches(call[o].reg.consumer) = {}
        BY <2>2, <3>1 DEF CallInv, Answers, UniqueInv, StageOK
      <3>3. call[o].reg.consumer = job[o].obj.spec.consumer
        BY <3>2 DEF FromAuthRegistration
      <3>4. After(pc'[o], job'[o], call'[o])
        BY <3>1, <3>2, <3>3 DEF Matches
      <3> QED BY <1>2, <3>4
    <2> QED BY <1>8, <2>1, <2>2 DEF Deleted
  <1>9. ASSUME NEW o \in Operators, WorkerStep(o)
        PROVE  CallInv'
    <2>1. CASE Patches(o)
      <3>1. \/ Left(o)
            \/ \E j : \E next \in AfterPatch : Goto(o, next, j)
        BY <2>1, PatchKind
      <3> QED BY <1>1, <1>3, <3>1 DEF Left, Goto, AfterPatch
    <2>2. CASE \/ Finalize(o) \/ Upserted(o) \/ ReconcileSecret(o)
               \/ CleanupObsoleteGeneratedSecret(o) \/ Unfinalize(o)
      <3>1. \E label \in Labels \ {"upsert", "delete", "unfinalize"} :
                pc' = [pc EXCEPT ![o] = label]
        BY <2>2 DEF Finalize, Upserted, ReconcileSecret, CleanupObsoleteGeneratedSecret,
                    Unfinalize, Goto, Retry, Done, StartOfReconcile, Labels
      <3> QED BY <1>1, <1>3, <3>1
    <2> QED BY <1>6, <1>7, <1>8, <1>9, <2>1, <2>2 DEF WorkerStep, Patches
  <1>10. ASSUME NEW o \in Operators, OperatorStep(o)
        PROVE  CallInv'
    <2>1. CASE Crash(o)
      BY <1>1, <1>3, <2>1 DEF Crash
    <2>2. CASE \E n \in Names : SyncAuthRegistration(o, n)
      BY <1>4, <2>2 DEF SyncAuthRegistration, casVars
    <2>3. CASE \E s \in SecretNames : SyncSecret(o, s) \/ ResyncSecret(o, s)
      BY <1>4, <2>3 DEF SyncSecret, ResyncSecret, casVars
    <2> QED BY <1>5, <1>9, <1>10, <2>1, <2>2, <2>3 DEF OperatorStep
  <1>11. CASE UserStep
    BY <1>4, <1>11 DEF UserStep, UserCreates, UserEdits, UserDeletes, UserWritesSecret,
       UserDeletesSecret, AdminSetsFqdn, SetFqdn, casVars, localVars
  <1>12. CASE (\E s \in SecretNames : GarbageCollect(s)) \/ LateWriteArrives \/ UNCHANGED vars
    <2>1. ~LateWriteArrives
      BY DEF LateWriteArrives, ApplyLate, UniqueInv
    <2> QED BY <1>4, <1>12, <2>1 DEF GarbageCollect, vars, casVars, localVars
  <1> QED BY <1>10, <1>11, <1>12 DEF Next

-------------------------------------------------------------------------------
(***************************************************************************)
(* The life of an AuthRegistration                                         *)
(***************************************************************************)

\* No AuthRegistration changes its consumer.
FixedConsumers == \A n \in Names : \A x, y \in UserSpecs[n] : x.consumer = y.consumer

\* The ways an AuthRegistration changes: created, gone before it had the
\* finalizer, edited, patched or marked for deletion, given the finalizer, gone
\* with it.
ObjectStep(old, new) ==
    \/ old = None /\ new # None /\ ~new.finalizer
    \/ old # None /\ ~old.finalizer /\ new = None
    \/ /\ old # None /\ new # None
       /\ new.finalizer = old.finalizer
       /\ old.deleting => new.deleting
       /\ new.spec.consumer = old.spec.consumer
    \/ /\ old # None /\ new # None
       /\ ~old.finalizer /\ ~old.deleting /\ new.finalizer /\ ~new.deleting
       /\ new.spec.consumer = old.spec.consumer
    \/ /\ old # None /\ old.finalizer /\ old.deleting
       /\ new = None
       /\ Matches(old.spec.consumer) = {}

LEMMA ObjectSteps ==
  ASSUME FixedConsumers, OperatorInv, HoldInv, SpecsInv, CallInv, [Next]_vars, ars' # ars
  PROVE  \E n \in Names, new \in AuthRegistrationObjects \union {None} :
            ars' = [ars EXCEPT ![n] = new] /\ ObjectStep(ars[n], new)
  <1> DEFINE Goal == \E n \in Names, new \in AuthRegistrationObjects \union {None} :
                        ars' = [ars EXCEPT ![n] = new] /\ ObjectStep(ars[n], new)
  <1> SUFFICES Goal
    OBVIOUS
  <1>1. /\ ars \in [Names -> AuthRegistrationObjects \union {None}] /\ births \in [Names -> Nat]
        /\ \A o \in Operators : pc[o] # "idle" =>
                job[o].name \in Names /\ job[o].obj \in AuthRegistrationObjects
    BY HoldTypes
  <1>2. ASSUME NEW n \in Names, NEW spec \in UserSpecs[n], UserCreates(n, spec)
        PROVE  Goal
    <2> DEFINE new == [uid |-> births[n] + 1, gen |-> 1, deleting |-> FALSE,
                       finalizer |-> FALSE, spec |-> spec, status |-> NoStatus]
    <2>1. NoStatus \in Statuses /\ spec \in Specs
      BY OperatorAssumption DEF NoStatus, Statuses, Conditions
    <2>2. new \in AuthRegistrationObjects
      BY <1>1, <2>1 DEF AuthRegistrationObjects
    <2>3. new # None /\ ~new.finalizer
      BY <2>2, OperatorAssumption
    <2>4. ars[n] = None /\ ars' = [ars EXCEPT ![n] = new]
      BY <1>2 DEF UserCreates
    <2> HIDE DEF new
    <2> QED BY <2>2, <2>3, <2>4 DEF ObjectStep
  <1>3. ASSUME NEW n \in Names, NEW spec \in UserSpecs[n], UserEdits(n, spec)
        PROVE  Goal
    <2> DEFINE obj == ars[n]
               new == [obj EXCEPT !.spec = spec, !.gen = obj.gen + 1]
    <2>1. /\ obj \in AuthRegistrationObjects /\ obj # None
          /\ ars' = [ars EXCEPT ![n] = new]
      BY <1>1, <1>3 DEF UserEdits
    <2>2. spec \in Specs /\ spec.consumer = obj.spec.consumer
      BY <2>1, OperatorAssumption DEF FixedConsumers, SpecsInv
    <2> HIDE DEF obj
    <2>3. new \in AuthRegistrationObjects /\ new.spec = spec
      <3>1. obj.gen \in Nat /\ obj.gen + 1 \in Nat
        BY <2>1 DEF AuthRegistrationObjects
      <3> QED BY <2>1, <2>2, <3>1 DEF AuthRegistrationObjects
    <2>4. new.finalizer = obj.finalizer /\ new.deleting = obj.deleting
      BY <2>1 DEF AuthRegistrationObjects
    <2>5. new # None
      BY <2>3, OperatorAssumption
    <2> HIDE DEF new
    <2>6. ObjectStep(obj, new)
      BY <2>1, <2>2, <2>3, <2>4, <2>5 DEF ObjectStep
    <2> QED BY <2>1, <2>3, <2>6 DEF obj
  <1>4. ASSUME NEW n \in Names, UserDeletes(n)
        PROVE  Goal
    <2> DEFINE obj == ars[n]
               new == [obj EXCEPT !.deleting = TRUE, !.gen = obj.gen + 1]
    <2>1. /\ obj \in AuthRegistrationObjects /\ obj # None
          /\ obj.finalizer => ars' = [ars EXCEPT ![n] = new]
          /\ ~obj.finalizer => ars' = [ars EXCEPT ![n] = None]
      BY <1>1, <1>4 DEF UserDeletes
    <2>2. CASE ~obj.finalizer
      BY <2>1, <2>2 DEF ObjectStep
    <2>3. CASE obj.finalizer
      <3>1. ars' = [ars EXCEPT ![n] = new]
        BY <2>1, <2>3
      <3> HIDE DEF obj
      <3>2. new \in AuthRegistrationObjects /\ new.spec = obj.spec
        <4>1. obj.gen \in Nat /\ obj.gen + 1 \in Nat
          BY <2>1 DEF AuthRegistrationObjects
        <4> QED BY <2>1, <4>1 DEF AuthRegistrationObjects
      <3>3. new.finalizer = obj.finalizer /\ new.deleting = TRUE
        BY <2>1 DEF AuthRegistrationObjects
      <3>4. new # None
        BY <3>2, OperatorAssumption
      <3> HIDE DEF new
      <3>5. ObjectStep(obj, new)
        BY <2>1, <3>2, <3>3, <3>4 DEF ObjectStep
      <3> QED BY <3>1, <3>2, <3>5 DEF obj
    <2> QED BY <2>2, <2>3
  <1>5. CASE UserStep
    <2>1. CASE \/ \E s \in SecretNames :
                    \/ \E data \in UserData, type \in UserSecretTypes :
                            UserWritesSecret(s, data, type)
                    \/ UserDeletesSecret(s)
               \/ \E f \in Fqdns : AdminSetsFqdn(f)
      BY <2>1 DEF UserWritesSecret, UserDeletesSecret, AdminSetsFqdn, k8sVars
    <2> HIDE DEF Goal
    <2> QED BY <1>2, <1>3, <1>4, <1>5, <2>1, OperatorAssumption DEF UserStep
  <1>6. ASSUME NEW o \in Operators, Finalize(o)
        PROVE  Goal
    <2> DEFINE n     == job[o].name
               obj   == job[o].obj
               added == [obj EXCEPT !.finalizer = TRUE]
    <2>1. /\ n \in Names /\ obj \in AuthRegistrationObjects /\ pc[o] = "finalize"
          /\ ars[n] = obj /\ ars' = [ars EXCEPT ![n] = added]
      BY <1>1, <1>6 DEF Finalize
    <2>2. ~obj.finalizer /\ ~obj.deleting
      BY <2>1 DEF HoldInv, WorkerHolds, JobHolds
    <2> HIDE DEF obj, n
    <2>3. added \in AuthRegistrationObjects /\ added.spec = obj.spec
      BY <2>1 DEF AuthRegistrationObjects
    <2>4. added.finalizer = TRUE /\ added.deleting = obj.deleting
      BY <2>1 DEF AuthRegistrationObjects
    <2>5. added # None /\ obj # None
      BY <2>1, <2>3, OperatorAssumption
    <2> HIDE DEF added
    <2>6. ObjectStep(obj, added)
      BY <2>2, <2>3, <2>4, <2>5 DEF ObjectStep
    <2> QED BY <2>1, <2>3, <2>6
  <1>7. ASSUME NEW o \in Operators, Unfinalize(o)
        PROVE  Goal
    <2> DEFINE n   == job[o].name
               obj == job[o].obj
    <2>1. /\ n \in Names /\ obj \in AuthRegistrationObjects /\ pc[o] = "unfinalize"
          /\ ars[n] = obj /\ ars' = [ars EXCEPT ![n] = None]
      BY <1>1, <1>7 DEF Unfinalize
    <2>2. obj.finalizer /\ obj.deleting /\ Matches(obj.spec.consumer) = {}
      BY <2>1 DEF HoldInv, WorkerHolds, JobHolds, CallInv, Answers
    <2>3. obj # None
      BY <2>1, OperatorAssumption
    <2> HIDE DEF obj, n
    <2>4. ObjectStep(obj, None)
      BY <2>2, <2>3 DEF ObjectStep
    <2> QED BY <2>1, <2>4
  <1>8. ASSUME NEW o \in Operators, Patches(o)
        PROVE  Goal
    <2>1. PICK m \in AuthRegistrationObjects :
                /\ job[o].name \in Names
                /\ ars[job[o].name] # None /\ ars' = [ars EXCEPT ![job[o].name] = m]
                /\ m.deleting = ars[job[o].name].deleting
                /\ m.finalizer = ars[job[o].name].finalizer
                /\ m.spec = ars[job[o].name].spec
      BY <1>8, PatchKind
    <2>2. m # None
      BY OperatorAssumption
    <2>3. ObjectStep(ars[job[o].name], m)
      BY <2>1, <2>2 DEF ObjectStep
    <2> QED BY <2>1, <2>3
  <1>9. ASSUME NEW o \in Operators, WorkerStep(o)
        PROVE  Goal
    <2>1. CASE \/ ReadRegistrationData(o) \/ BackendStep(o) \/ Upserted(o) \/ ReconcileSecret(o)
               \/ CleanupObsoleteGeneratedSecret(o) \/ Deleted(o)
      BY <2>1 DEF ReadRegistrationData, BackendStep, Upserted, ReconcileSecret,
                  CleanupObsoleteGeneratedSecret, Deleted, k8sVars
    <2> HIDE DEF Goal
    <2> QED BY <1>6, <1>7, <1>8, <1>9, <2>1 DEF WorkerStep, Patches
  <1>10. ASSUME NEW o \in Operators, OperatorStep(o)
         PROVE  Goal
    <2>1. CASE \/ \E n \in Names : Begin(o, n) \/ SyncAuthRegistration(o, n)
               \/ \E s \in SecretNames : SyncSecret(o, s) \/ ResyncSecret(o, s)
               \/ Crash(o)
      BY <2>1 DEF Begin, SyncAuthRegistration, SyncSecret, ResyncSecret, Crash, k8sVars
    <2> HIDE DEF Goal
    <2> QED BY <1>9, <1>10, <2>1 DEF OperatorStep
  <1>11. ~((\E s \in SecretNames : GarbageCollect(s)) \/ LateWriteArrives \/ UNCHANGED vars)
    BY DEF GarbageCollect, LateWriteArrives, vars, k8sVars
  <1> HIDE DEF Goal
  <1> QED BY <1>5, <1>10, <1>11 DEF Next

\* An object changes, or the registry does.
LEMMA ObjectsOrRegistry ==
  ASSUME late = None, [Next]_vars, services' # services
  PROVE  ars' = ars
  BY RegistryChange DEF BackendStep, k8sVars

LEMMA NoOrphanStep ==
  ASSUME FixedConsumers, OperatorInv, HoldInv, SpecsInv, CallInv, UniqueInv,
         NoOrphanedService, [Next]_vars
  PROVE  NoOrphanedService'
  <1> DEFINE Protects(a, x) == a # None /\ a.finalizer /\ a.spec.consumer = x
             Protected(x)   == \E n \in Names : Protects(ars[n], x)
  <1>1. \A s \in services : Protected(s.name)
    BY DEF NoOrphanedService
  <1> SUFFICES ASSUME NEW t \in services'
               PROVE  \E n \in Names : Protects(ars'[n], t.name)
    BY DEF NoOrphanedService
  <1>2. ars \in [Names -> AuthRegistrationObjects \union {None}] /\ late = None
    BY HoldTypes DEF UniqueInv
  <1>3. CASE services' # services
    <2>1. ars' = ars
      BY <1>2, <1>3, ObjectsOrRegistry
    <2>2. PICK o \in Operators : BackendStep(o)
      BY <1>2, <1>3, RegistryChange
    <2> DEFINE consumer == call[o].reg.consumer
               n        == job[o].name
               spec     == job[o].obj.spec
    <2>3. CASE \E s \in services : s.name = t.name
      BY <1>1, <2>1, <2>3
    <2>4. CASE ~\E s \in services : s.name = t.name
      <3>1. pc[o] = "upsert" /\ call[o].at = "write" /\ t.name = consumer
        <4> HIDE DEF consumer
        <4> QED BY <1>3, <2>2, <2>4, RegistryStep DEF consumer
      <3>2. n \in Names /\ call[o].reg = FromAuthRegistration(spec) /\ spec \in UserSpecs[n]
        BY <3>1, HoldTypes DEF CallInv, Answers, SpecsInv
      <3>3. ars[n] # None /\ ars[n].finalizer /\ ars[n].spec \in UserSpecs[n]
        BY <3>1, <3>2 DEF HoldInv, WorkerHolds, JobHolds, Reconciling, Resolved, Same, SpecsInv
      <3>4. ars[n].spec.consumer = t.name
        BY <3>1, <3>2, <3>3 DEF FixedConsumers, FromAuthRegistration
      <3> QED BY <2>1, <3>2, <3>3, <3>4
    <2> QED BY <2>3, <2>4
  <1>4. CASE services' = services
    <2>1. PICK m \in Names : Protects(ars[m], t.name)
      BY <1>1, <1>4
    <2>2. CASE ars' = ars
      BY <2>1, <2>2
    <2>3. ASSUME NEW n \in Names, NEW new \in AuthRegistrationObjects \union {None},
                 ars' = [ars EXCEPT ![n] = new], ObjectStep(ars[n], new)
          PROVE  Protects(ars'[m], t.name)
      <3>1. CASE m # n
        BY <1>2, <2>1, <2>3, <3>1
      <3>2. CASE m = n
        <4>1. ars'[m] = new
          BY <1>2, <2>3, <3>2
        <4>2. Matches(ars[m].spec.consumer) # {}
          BY <1>4, <2>1 DEF Matches
        <4>3. Protects(new, t.name)
          BY <2>1, <2>3, <3>2, <4>2 DEF ObjectStep
        <4> QED BY <4>1, <4>3
      <3> QED BY <3>1, <3>2
    <2> QED BY <2>2, <2>3, ObjectSteps
  <1> QED BY <1>3, <1>4

\* Everything this module's theorems rest on.
LifecycleInv ==
    OperatorInv /\ HoldInv /\ SpecsInv /\ CallInv /\ UniqueInv /\ NoOrphanedService

LEMMA LifecycleInvInit == Init => LifecycleInv
  <1>1. Init => CASInit /\ NoOrphanedService
    BY DEF Init, CASInit, NoOrphanedService
  <1> QED BY <1>1, OperatorInvInit, HoldInvInit, SpecsInvInit, CallInvInit, UniqueInvInit
          DEF LifecycleInv

LEMMA LifecycleInvStep ==
  ASSUME OneOperator, LateWrites = FALSE, FixedConsumers, LifecycleInv, [Next]_vars
  PROVE  LifecycleInv'
  <1>1. OperatorInv' /\ [CASNext]_casVars /\ CASInv
    BY OperatorInvStep DEF LifecycleInv, OperatorInv
  <1>2. UniqueInv'
    BY <1>1, UniqueInvStep DEF LifecycleInv
  <1>3. HoldInv' /\ SpecsInv' /\ CallInv' /\ NoOrphanedService'
    BY HoldInvStep, SpecsInvStep, CallInvStep, NoOrphanStep DEF LifecycleInv
  <1> QED BY <1>1, <1>2, <1>3 DEF LifecycleInv

\* No CAS service is left behind: whatever requests fail or lose their answer,
\* wherever the operator crashes and however stale its caches are, a service is
\* there only while an AuthRegistration of its consumer is, with the finalizer
\* that sends its deletion through handleDeletion.
THEOREM NoServiceLeftBehind ==
  ASSUME OneOperator, LateWrites = FALSE, FixedConsumers
  PROVE  Spec => []NoOrphanedService
  <1>1. LifecycleInv => NoOrphanedService
    BY DEF LifecycleInv
  <1> QED BY <1>1, LifecycleInvInit, LifecycleInvStep, PTL DEF Spec

-------------------------------------------------------------------------------
(***************************************************************************)
(* RegistrationLifecycle                                                   *)
(***************************************************************************)

\* No two AuthRegistrations name the same consumer.
DistinctConsumers ==
    \A m, n \in Names : \A x \in UserSpecs[m], y \in UserSpecs[n] :
        x.consumer = y.consumer /\ x.consumer # Blank => m = n

Phase      == [n \in Names |-> PhaseOf(ars[n])]
Registered == {n \in Names : IsRegistered(n)}

\* A name is registered when its consumer has a service.
LEMMA RegisteredName ==
  ASSUME FixedConsumers, NEW n \in Names, NEW spec \in UserSpecs[n]
  PROVE  IsRegistered(n) <=> \E s \in services : s.name = spec.consumer
  BY DEF IsRegistered, FixedConsumers

\* Steps that change an AuthRegistration.
LEMMA LifecycleObjects ==
  ASSUME FixedConsumers, LifecycleInv, services' = services, NEW n \in Names,
         NEW new \in AuthRegistrationObjects \union {None},
         ars' = [ars EXCEPT ![n] = new], ObjectStep(ars[n], new)
  PROVE  \/ UNCHANGED <<Phase, Registered>>
         \/ Lifecycle!Create(n) \/ Lifecycle!Discard(n) \/ Lifecycle!Protect(n)
         \/ Lifecycle!Terminate(n) \/ Lifecycle!Vanish(n)
  <1> DEFINE old == ars[n]
  <1>1. /\ ars \in [Names -> AuthRegistrationObjects \union {None}]
        /\ LiveOK(old, births[n])
        /\ old # None => old.spec \in UserSpecs[n]
    BY HoldTypes DEF LifecycleInv, HoldInv, SpecsInv
  <1>2. Registered' = Registered
    BY DEF Registered, IsRegistered
  <1>3. Phase' = [Phase EXCEPT ![n] = PhaseOf(new)] /\ Phase[n] = PhaseOf(old)
    BY <1>1 DEF Phase
  <1>4. PhaseOf(new) = PhaseOf(old) => Phase' = Phase
    BY <1>3 DEF Phase
  <1> HIDE DEF old
  <1>5. CASE old = None /\ new # None /\ ~new.finalizer
    <2>1. PhaseOf(old) = "absent" /\ PhaseOf(new) = "unprotected"
      BY <1>5 DEF PhaseOf
    <2> QED BY <1>2, <1>3, <2>1 DEF Lifecycle!Create, Lifecycle!Moves, Phase, Registered
  <1>6. CASE old # None /\ ~old.finalizer /\ new = None
    <2>1. PhaseOf(old) = "unprotected" /\ PhaseOf(new) = "absent"
      BY <1>6 DEF PhaseOf
    <2> QED BY <1>2, <1>3, <2>1 DEF Lifecycle!Discard, Lifecycle!Moves, Phase, Registered
  <1>7. CASE /\ old # None /\ new # None /\ new.finalizer = old.finalizer
             /\ old.deleting => new.deleting
    <2>1. \/ PhaseOf(new) = PhaseOf(old)
          \/ PhaseOf(old) = "protected" /\ PhaseOf(new) = "terminating"
      BY <1>7 DEF PhaseOf
    <2>2. CASE PhaseOf(old) = "protected" /\ PhaseOf(new) = "terminating"
      BY <1>2, <1>3, <2>2 DEF Lifecycle!Terminate, Lifecycle!Moves, Phase, Registered
    <2> QED BY <1>2, <1>4, <2>1, <2>2
  <1>8. CASE /\ old # None /\ new # None
             /\ ~old.finalizer /\ ~old.deleting /\ new.finalizer /\ ~new.deleting
    <2>1. PhaseOf(old) = "unprotected" /\ PhaseOf(new) = "protected"
      BY <1>8 DEF PhaseOf
    <2> QED BY <1>2, <1>3, <2>1 DEF Lifecycle!Protect, Lifecycle!Moves, Phase, Registered
  <1>9. CASE /\ old # None /\ old.finalizer /\ old.deleting /\ new = None
             /\ Matches(old.spec.consumer) = {}
    <2>1. PhaseOf(old) = "terminating" /\ PhaseOf(new) = "absent"
      BY <1>9 DEF PhaseOf
    <2>2. n \notin Registered
      BY <1>1, <1>9, RegisteredName DEF Matches, Registered
    <2> QED BY <1>2, <1>3, <2>1, <2>2
            DEF Lifecycle!Vanish, Lifecycle!Moves, Phase, Registered
  <1> QED BY <1>5, <1>6, <1>7, <1>8, <1>9 DEF ObjectStep, old

\* Steps that change the registry.
LEMMA LifecycleRegistry ==
  ASSUME FixedConsumers, DistinctConsumers, LifecycleInv, NEW o \in Operators, BackendStep(o),
         services' # services
  PROVE  LET n == job[o].name
         IN  n \in Names /\ (Lifecycle!Register(n) \/ Lifecycle!Withdraw(n))
  <1> DEFINE n        == job[o].name
             spec     == job[o].obj.spec
             consumer == call[o].reg.consumer
  <1>1. /\ ars' = ars /\ pc[o] \in {"upsert", "delete"}
        /\ call[o].at \in {"upsert", "write", "result", "delete", "remove"}
    BY BackendCall DEF BackendStep, k8sVars, LifecycleInv
  <1>2. /\ n \in Names /\ spec \in UserSpecs[n] /\ consumer = spec.consumer
        /\ JobHolds(pc[o], ars[n], births[n], job[o].obj, arCache[o][n])
    <2>1. n \in Names /\ spec \in UserSpecs[n]
      BY <1>1, HoldTypes DEF LifecycleInv, SpecsInv
    <2>2. call[o].reg = FromAuthRegistration(spec)
      BY <1>1 DEF LifecycleInv, CallInv, Answers
    <2>3. JobHolds(pc[o], ars[n], births[n], job[o].obj, arCache[o][n])
      BY <1>1 DEF LifecycleInv, HoldInv, WorkerHolds
    <2> QED BY <2>1, <2>2, <2>3 DEF FromAuthRegistration
  <1>3. \A s \in services : s.name # Blank
    BY AbsentAssumption DEF LifecycleInv, OperatorInv, CASInv, CASTypeOK, Services
  <1>4. Phase' = Phase
    BY <1>1 DEF Phase
  <1>5. \A m \in Names : consumer # Blank => ((\E x \in UserSpecs[m] : x.consumer = consumer) <=> m = n)
    BY <1>2 DEF DistinctConsumers
  <1>6. CASE /\ pc[o] = "upsert" /\ call[o].at = "write"
             /\ \A x : (\E s \in services' : s.name = x)
                            <=> (x = consumer \/ \E s \in services : s.name = x)
    <2>1. consumer # Blank
      BY <1>6 DEF LifecycleInv, OperatorInv, CASInv, CallOK, ValidRegistration
    <2>2. \A m \in Names : IsRegistered(m)' <=> (IsRegistered(m) \/ m = n)
      <3> HIDE DEF consumer, n
      <3> QED BY <1>5, <1>6, <2>1 DEF IsRegistered
    <2>3. Registered' = Registered \union {n}
      BY <1>2, <2>2 DEF Registered
    <2>4. ars[n] # None /\ ars[n].finalizer
      BY <1>2, <1>6 DEF JobHolds, Same, Reconciling, Resolved
    <2>5. Phase[n] \in {"protected", "terminating"}
      BY <1>2, <2>4 DEF Phase, PhaseOf
    <2> QED BY <1>2, <1>4, <2>3, <2>5 DEF Lifecycle!Register, Phase, Registered
  <1>7. CASE /\ pc[o] = "delete" /\ call[o].at = "remove"
             /\ \A x : (\E s \in services' : s.name = x)
                            <=> (x # consumer /\ \E s \in services : s.name = x)
    <2>1. PICK s \in services : s.name = consumer
      BY <1>7 DEF LifecycleInv, UniqueInv, StageOK
    <2>2. consumer # Blank
      BY <1>3, <2>1
    <2>3. \A m \in Names : IsRegistered(m)' <=> (IsRegistered(m) /\ m # n)
      <3>1. ASSUME NEW m \in Names, NEW x \in UserSpecs[m]
            PROVE  x.consumer = consumer <=> m = n
        BY <1>2, <2>2, <1>5, <3>1 DEF FixedConsumers
      <3> HIDE DEF consumer, n
      <3> QED BY <1>7, <3>1 DEF IsRegistered
    <2>4. Registered' = Registered \ {n}
      BY <2>3 DEF Registered
    <2>5. ars[n] # None /\ ars[n].finalizer
      <3>1. PICK m \in Names : ars[m] # None /\ ars[m].finalizer /\ ars[m].spec.consumer = s.name
        BY DEF LifecycleInv, NoOrphanedService
      <3>2. ars[m].spec \in UserSpecs[m]
        BY <3>1 DEF LifecycleInv, SpecsInv
      <3>3. m = n
        BY <1>5, <2>1, <2>2, <3>1, <3>2
      <3> QED BY <3>1, <3>3
    <2>6. ars[n].deleting
      BY <1>2, <1>7, <2>5 DEF JobHolds, Earlier, Same
    <2>7. Phase[n] = "terminating"
      BY <1>2, <2>5, <2>6 DEF Phase, PhaseOf
    <2> QED BY <1>2, <1>4, <2>4, <2>7 DEF Lifecycle!Withdraw, Phase, Registered
  <1> QED
    <2>1. OperatorInv /\ UniqueInv
      BY DEF LifecycleInv
    <2> HIDE DEF consumer, n
    <2> QED BY <1>2, <1>6, <1>7, <2>1, RegistryStep DEF consumer, n

\* The operator implements RegistrationLifecycle: a service is registered only
\* for an AuthRegistration with the finalizer, withdrawn only while that
\* AuthRegistration is being deleted, and the AuthRegistration disappears only
\* after the withdrawal.
THEOREM LifecycleImplemented ==
  ASSUME OneOperator, LateWrites = FALSE, FixedConsumers, DistinctConsumers
  PROVE  Spec => ImplementsLifecycle
  <1>1. Init => Lifecycle!LifecycleInit
    BY DEF Init, CASInit, Lifecycle!LifecycleInit, PhaseOf, IsRegistered
  <1>2. ASSUME LifecycleInv, [Next]_vars
        PROVE  [Lifecycle!LifecycleNext]_(Lifecycle!lifecycleVars)
    <2>1. CASE services' # services
      <3>1. late = None
        BY <1>2 DEF LifecycleInv, UniqueInv
      <3>2. PICK o \in Operators : BackendStep(o)
        BY <1>2, <2>1, <3>1, RegistryChange
      <3> QED BY <1>2, <2>1, <3>2, LifecycleRegistry DEF Lifecycle!LifecycleNext
    <2>2. CASE services' = services /\ ars' = ars
      <3>1. UNCHANGED <<Phase, Registered>>
        BY <2>2 DEF Phase, Registered, IsRegistered
      <3> QED BY <3>1 DEF Lifecycle!lifecycleVars, Phase, Registered
    <2>3. CASE services' = services /\ ars' # ars
      <3>1. PICK n \in Names, new \in AuthRegistrationObjects \union {None} :
                ars' = [ars EXCEPT ![n] = new] /\ ObjectStep(ars[n], new)
        BY <1>2, <2>3, ObjectSteps DEF LifecycleInv
      <3>2. \/ UNCHANGED <<Phase, Registered>>
            \/ Lifecycle!Create(n) \/ Lifecycle!Discard(n) \/ Lifecycle!Protect(n)
            \/ Lifecycle!Terminate(n) \/ Lifecycle!Vanish(n)
        BY <1>2, <2>3, <3>1, LifecycleObjects
      <3> QED BY <3>2 DEF Lifecycle!LifecycleNext, Lifecycle!lifecycleVars, Phase, Registered
    <2> QED BY <2>1, <2>2, <2>3
  <1>3. Spec => []LifecycleInv
    BY LifecycleInvInit, LifecycleInvStep, PTL DEF Spec
  <1>4. Spec => Lifecycle!LifecycleSpec
    BY <1>1, <1>2, <1>3, PTL DEF Spec, Lifecycle!LifecycleSpec
  <1> QED BY <1>4 DEF ImplementsLifecycle

================================================================================
