--------------------------- MODULE ConvergenceProofs ---------------------------
(***************************************************************************)
(* No reconcile that is needed gets lost: whenever the operator comes to   *)
(* rest, every AuthRegistration is registered with the credentials its     *)
(* Secret publishes.  For one operator without late writes, when no two    *)
(* AuthRegistrations name one consumer.                                    *)
(***************************************************************************)
EXTENDS LifecycleProofs

-------------------------------------------------------------------------------
(***************************************************************************)
(* The invariant                                                           *)
(***************************************************************************)

\* The registry has the service spec asks for, with these credentials.
Holds(registry, spec, result) ==
    \E s \in registry :
        /\ s.name = spec.consumer
        /\ s.protocol = spec.protocol
        /\ spec.protocol = "CAS" => result.id = s.name
        /\ spec.protocol # "CAS" =>
            /\ s.clientID = result.id
            /\ s.hash = hashClientSecret(result.secret)
            /\ spec.clientId \in {None, s.clientID}

SettledWith(registry, live, secret) ==
    /\ ~live.deleting /\ live.finalizer
    /\ secret # None
    /\ secret.data[live.spec.protocol] # None
    /\ Holds(registry, live.spec, secret.data[live.spec.protocol])

SettledNow(n) ==
    LET s == ResolveSecretName(n, ars[n].spec)
    IN  s \in SecretNames /\ SettledWith(services, ars[n], secrets[s])

\* n is in the work queue, or an event that is outstanding will put it there.
Waiting(o, n) == n \in queue[o] \/ Passes(arCache[o][n], ars[n])

Announced(o, n) ==
    arCache[o][n] # None /\ ResolveSecretName(n, arCache[o][n].spec) \in unseen[o]

CaredFor(o, n) == Waiting(o, n) \/ Announced(o, n) \/ SettledNow(n)

\* Labels from which a reconcile no longer writes the credentials.
Written == {"cleanup", "published", "succeeded"}

Unfinished(o, n) == pc[o] \notin Written \union {"idle"} /\ job[o].name = n

\* Labels at which a reconcile works on what it has derived from the spec.
Deriving == {"read", "upsert", "patchRef", "secret"}

\* What it has derived is what the AuthRegistration asks for now.
UpToDate(registry, label, j, live) ==
    /\ ~live.deleting
    /\ j.secretName = ResolveSecretName(j.name, live.spec)
    /\ label \in {"read", "upsert"} => j.obj.spec = live.spec
    /\ label \in {"patchRef", "secret"} =>
        j.protocol = live.spec.protocol /\ Holds(registry, live.spec, j.result)

Current(o) ==
    pc[o] \in Deriving =>
        Waiting(o, job[o].name) \/ UpToDate(services, pc[o], job[o], ars[job[o].name])

ConvergeInv ==
    \A o \in Operators :
        /\ \A n \in Names : ars[n] # None => CaredFor(o, n) \/ Unfinished(o, n)
        /\ Current(o)

\* The invariant gives the property.
LEMMA ConvergeInvConsistent ==
  ASSUME OperatorInv, ConvergeInv, Operators # {}
  PROVE  QuiescentConsistent
  <1> SUFFICES ASSUME Quiescent, NEW n \in Names, ars[n] # None
               PROVE  Settled(n)
    BY DEF QuiescentConsistent
  <1>1. PICK o \in Operators : TRUE
    OBVIOUS
  <1>2. pc[o] = "idle" /\ queue[o] = {} /\ arCache[o] = ars /\ unseen[o] = {}
    BY DEF Quiescent
  <1>3. ~Waiting(o, n) /\ ~Announced(o, n) /\ ~Unfinished(o, n)
    BY <1>2 DEF Waiting, Announced, Unfinished, Passes, DeletionTimestampChanged
  <1>4. SettledNow(n)
    BY <1>3 DEF ConvergeInv, CaredFor
  <1> QED BY <1>4 DEF SettledNow, SettledWith, Holds, Settled

-------------------------------------------------------------------------------
(***************************************************************************)
(* What the steps do to objects, Secrets and services                      *)
(***************************************************************************)

\* Nothing has changed but the status, and a finalizer that may have been added.
Kept(old, new) ==
    /\ old # None /\ new # None
    /\ new.uid = old.uid /\ new.gen = old.gen /\ new.spec = old.spec
    /\ new.deleting = old.deleting
    /\ old.finalizer => new.finalizer

\* A cached object that does not differ in what the predicates look at has the
\* spec of the live one.
LEMMA PassesUnlessSame ==
  ASSUME NEW live \in AuthRegistrationObjects, NEW cached \in AuthRegistrationObjects \union {None},
         NEW born, CachedOK(live, born, cached), ~Passes(cached, live)
  PROVE  /\ cached # None /\ live # None
         /\ cached.spec = live.spec /\ cached.deleting = live.deleting
  <1>1. live # None
    BY OperatorAssumption
  <1>2. cached # None /\ cached.uid = live.uid /\ cached.gen = live.gen
    BY DEF Passes
  <1>3. Earlier(live, born, cached)
    BY <1>2 DEF CachedOK
  <1> QED BY <1>1, <1>2, <1>3 DEF Earlier, Same

\* The predicates look at nothing a Kept object differs in.
LEMMA PassesKept ==
  ASSUME NEW old, NEW new, Kept(old, new), NEW cached
  PROVE  Passes(cached, old) = Passes(cached, new)
  BY DEF Kept, Passes, DeletionTimestampChanged

\* What users do to an AuthRegistration passes the predicates, whatever is cached.
LEMMA NewsPasses ==
  ASSUME NEW born \in Nat, NEW old \in AuthRegistrationObjects \union {None}, LiveOK(old, born),
         NEW new \in AuthRegistrationObjects,
         \/ old = None /\ new.uid = born + 1
         \/ old # None /\ new.uid = old.uid /\ new.gen = old.gen + 1,
         NEW cached \in AuthRegistrationObjects \union {None}, CachedOK(old, born, cached)
  PROVE  Passes(cached, new)
  <1>1. CASE cached = None
    BY <1>1 DEF Passes
  <1>2. CASE cached # None
    <2>1. Earlier(old, born, cached) /\ cached.uid \in Nat /\ cached.gen \in Nat
      BY <1>2 DEF CachedOK, AuthRegistrationObjects
    <2>2. CASE old = None /\ new.uid = born + 1
      <3>1. cached.uid # new.uid
        BY <2>1, <2>2 DEF Earlier
      <3> QED BY <3>1 DEF Passes
    <2>3. CASE old # None /\ new.uid = old.uid /\ new.gen = old.gen + 1
      <3>1. old.gen \in Nat
        BY <2>3 DEF AuthRegistrationObjects
      <3>2. cached.uid # new.uid \/ cached.gen # new.gen
        BY <2>1, <2>3, <3>1 DEF Earlier, Same
      <3> QED BY <3>2 DEF Passes
    <2> QED BY <2>2, <2>3
  <1> QED BY <1>1, <1>2

\* What a step does to an AuthRegistration that is there after it.
LEMMA ObjectNews ==
  ASSUME OperatorInv, HoldInv, [Next]_vars, NEW n \in Names, ars'[n] # None
  PROVE  \/ Kept(ars[n], ars'[n])
         \/ /\ UserStep /\ UNCHANGED <<localVars, services, call>>
            /\ \A o \in Operators : Passes(arCache[o][n], ars'[n])
  <1> DEFINE Goal == \/ Kept(ars[n], ars'[n])
                     \/ /\ UserStep /\ UNCHANGED <<localVars, services, call>>
                        /\ \A o \in Operators : Passes(arCache[o][n], ars'[n])
  <1> SUFFICES Goal
    OBVIOUS
  <1>1. /\ ars \in [Names -> AuthRegistrationObjects \union {None}] /\ births \in [Names -> Nat]
        /\ arCache \in [Operators -> [Names -> AuthRegistrationObjects \union {None}]]
        /\ \A o \in Operators : pc[o] # "idle" =>
                job[o].name \in Names /\ job[o].obj \in AuthRegistrationObjects
    BY HoldTypes
  <1>2. CASE ars'[n] = ars[n]
    BY <1>2 DEF Kept
  <1>3. ASSUME NEW m \in Names, NEW new \in AuthRegistrationObjects,
               ars' = [ars EXCEPT ![m] = new], Kept(ars[m], new)
        PROVE  Goal
    <2>1. CASE m # n
      BY <1>1, <1>2, <1>3, <2>1
    <2>2. CASE m = n
      BY <1>1, <1>3, <2>2
    <2> QED BY <2>1, <2>2
  <1>4. ASSUME NEW m \in Names, NEW new \in AuthRegistrationObjects \union {None},
               ars' = [ars EXCEPT ![m] = new],
               UserStep, UNCHANGED <<localVars, services, call>>,
               new # None =>
                \/ ars[m] = None /\ new.uid = births[m] + 1
                \/ ars[m] # None /\ new.uid = ars[m].uid /\ new.gen = ars[m].gen + 1
        PROVE  Goal
    <2>1. CASE m # n
      BY <1>1, <1>2, <1>4, <2>1
    <2>2. CASE m = n
      <3>1. ars'[n] = new /\ new \in AuthRegistrationObjects
        BY <1>1, <1>4, <2>2
      <3>2. /\ LiveOK(ars[n], births[n])
            /\ \A o \in Operators : CachedOK(ars[n], births[n], arCache[o][n])
        BY DEF HoldInv
      <3>3. \A o \in Operators : Passes(arCache[o][n], new)
        BY <1>1, <1>4, <2>2, <3>1, <3>2, NewsPasses
      <3> QED BY <1>4, <3>1, <3>3
    <2> QED BY <2>1, <2>2
  <1>5. ASSUME NEW m \in Names, NEW spec \in UserSpecs[m], UserCreates(m, spec), UserStep
        PROVE  Goal
    <2> DEFINE new == [uid |-> births[m] + 1, gen |-> 1, deleting |-> FALSE,
                       finalizer |-> FALSE, spec |-> spec, status |-> NoStatus]
    <2>1. NoStatus \in Statuses /\ spec \in Specs
      BY OperatorAssumption DEF NoStatus, Statuses, Conditions
    <2>2. new \in AuthRegistrationObjects
      BY <1>1, <2>1 DEF AuthRegistrationObjects
    <2>3. new.uid = births[m] + 1
      OBVIOUS
    <2>4. /\ ars[m] = None /\ ars' = [ars EXCEPT ![m] = new]
          /\ UNCHANGED <<localVars, services, call>>
      BY <1>5 DEF UserCreates, casVars
    <2> HIDE DEF new, Goal
    <2> QED BY <1>4, <1>5, <2>2, <2>3, <2>4
  <1>6. ASSUME NEW m \in Names, NEW spec \in UserSpecs[m], UserEdits(m, spec), UserStep
        PROVE  Goal
    <2> DEFINE obj == ars[m]
               new == [obj EXCEPT !.spec = spec, !.gen = obj.gen + 1]
    <2>1. /\ obj \in AuthRegistrationObjects /\ obj # None
          /\ ars' = [ars EXCEPT ![m] = new] /\ UNCHANGED <<localVars, services, call>>
      BY <1>1, <1>6 DEF UserEdits, casVars
    <2>2. LiveOK(obj, births[m]) /\ births[m] \in Nat /\ spec \in Specs
      BY <1>1, OperatorAssumption DEF HoldInv
    <2>3. new \in AuthRegistrationObjects /\ new.uid = obj.uid
      <3> HIDE DEF obj
      <3> QED BY <2>1, <2>2, EditedLater
    <2>4. new.gen = obj.gen + 1
      BY <2>1 DEF AuthRegistrationObjects
    <2> HIDE DEF new, Goal
    <2> QED BY <1>4, <1>6, <2>1, <2>3, <2>4
  <1>7. ASSUME NEW m \in Names, UserDeletes(m), UserStep
        PROVE  Goal
    <2> DEFINE obj == ars[m]
               new == [obj EXCEPT !.deleting = TRUE, !.gen = obj.gen + 1]
    <2>1. /\ obj \in AuthRegistrationObjects /\ obj # None
          /\ obj.finalizer => ars' = [ars EXCEPT ![m] = new]
          /\ ~obj.finalizer => ars' = [ars EXCEPT ![m] = None]
          /\ UNCHANGED <<localVars, services, call>>
      BY <1>1, <1>7 DEF UserDeletes, casVars
    <2>2. LiveOK(obj, births[m]) /\ births[m] \in Nat
      BY <1>1 DEF HoldInv
    <2>3. obj.finalizer => new \in AuthRegistrationObjects /\ new.uid = obj.uid
      <3> HIDE DEF obj
      <3> QED BY <2>1, <2>2, DeletedLater
    <2>4. new.gen = obj.gen + 1
      BY <2>1 DEF AuthRegistrationObjects
    <2> HIDE DEF new, Goal
    <2> QED BY <1>4, <1>7, <2>1, <2>3, <2>4
  <1>8. CASE UserStep
    <2>1. CASE \/ \E s \in SecretNames :
                    \/ \E data \in UserData, type \in UserSecretTypes :
                            UserWritesSecret(s, data, type)
                    \/ UserDeletesSecret(s)
               \/ \E f \in Fqdns : AdminSetsFqdn(f)
      BY <1>2, <2>1 DEF UserWritesSecret, UserDeletesSecret, AdminSetsFqdn, k8sVars
    <2> HIDE DEF Goal
    <2> QED BY <1>5, <1>6, <1>7, <1>8, <2>1, OperatorAssumption DEF UserStep
  <1>9. ASSUME NEW o \in Operators, Finalize(o)
        PROVE  Goal
    <2> DEFINE m     == job[o].name
               obj   == job[o].obj
               added == [obj EXCEPT !.finalizer = TRUE]
    <2>1. CASE ars' = ars
      BY <1>2, <2>1
    <2>2. CASE ars' # ars
      <3>1. /\ m \in Names /\ obj \in AuthRegistrationObjects
            /\ ars[m] = obj /\ ars' = [ars EXCEPT ![m] = added]
        BY <1>1, <1>9, <2>2 DEF Finalize
      <3> HIDE DEF obj, m
      <3>2. /\ added \in AuthRegistrationObjects
            /\ added.uid = obj.uid /\ added.gen = obj.gen /\ added.spec = obj.spec
        BY <3>1 DEF AuthRegistrationObjects
      <3>3. added.finalizer = TRUE /\ added.deleting = obj.deleting
        BY <3>1 DEF AuthRegistrationObjects
      <3>4. added # None /\ obj # None
        BY <3>1, <3>2, OperatorAssumption
      <3> HIDE DEF added, Goal
      <3>5. Kept(obj, added)
        BY <3>2, <3>3, <3>4 DEF Kept
      <3> QED BY <1>3, <3>1, <3>2, <3>5
    <2> QED BY <2>1, <2>2
  <1>10. ASSUME NEW o \in Operators, Unfinalize(o)
         PROVE  Goal
    <2>1. job[o].name \in Names /\ (ars' = ars \/ ars' = [ars EXCEPT ![job[o].name] = None])
      BY <1>1, <1>10 DEF Unfinalize
    <2>2. ars'[n] = ars[n]
      BY <1>1, <2>1
    <2> QED BY <1>2, <2>2
  <1>11. ASSUME NEW o \in Operators, Patches(o)
         PROVE  Goal
    <2>1. CASE ars' = ars
      BY <1>2, <2>1
    <2>2. CASE ars' # ars
      <3>1. PICK m \in AuthRegistrationObjects :
                /\ job[o].name \in Names
                /\ ars[job[o].name] # None /\ ars' = [ars EXCEPT ![job[o].name] = m]
                /\ m.uid = ars[job[o].name].uid /\ m.gen = ars[job[o].name].gen
                /\ m.deleting = ars[job[o].name].deleting
                /\ m.finalizer = ars[job[o].name].finalizer
                /\ m.spec = ars[job[o].name].spec
        BY <1>11, <2>2, PatchKind
      <3>2. Kept(ars[job[o].name], m)
        BY <3>1, OperatorAssumption DEF Kept
      <3> HIDE DEF Goal
      <3> QED BY <1>3, <3>1, <3>2
    <2> QED BY <2>1, <2>2
  <1>12. ASSUME NEW o \in Operators, WorkerStep(o)
         PROVE  Goal
    <2>1. CASE \/ ReadRegistrationData(o) \/ BackendStep(o) \/ Upserted(o) \/ ReconcileSecret(o)
               \/ CleanupObsoleteGeneratedSecret(o) \/ Deleted(o)
      BY <1>2, <2>1 DEF ReadRegistrationData, BackendStep, Upserted, ReconcileSecret,
                  CleanupObsoleteGeneratedSecret, Deleted, k8sVars
    <2> HIDE DEF Goal
    <2> QED BY <1>9, <1>10, <1>11, <1>12, <2>1 DEF WorkerStep, Patches
  <1>13. ASSUME NEW o \in Operators, OperatorStep(o)
         PROVE  Goal
    <2>1. CASE \/ \E m \in Names : Begin(o, m) \/ SyncAuthRegistration(o, m)
               \/ \E s \in SecretNames : SyncSecret(o, s) \/ ResyncSecret(o, s)
               \/ Crash(o)
      BY <1>2, <2>1 DEF Begin, SyncAuthRegistration, SyncSecret, ResyncSecret, Crash, k8sVars
    <2> HIDE DEF Goal
    <2> QED BY <1>12, <1>13, <2>1 DEF OperatorStep
  <1>14. CASE (\E s \in SecretNames : GarbageCollect(s)) \/ LateWriteArrives \/ UNCHANGED vars
    BY <1>2, <1>14 DEF GarbageCollect, LateWriteArrives, vars, k8sVars
  <1> HIDE DEF Goal
  <1> QED BY <1>8, <1>13, <1>14 DEF Next

\* A call of the worker leaves the services of other consumers as they are.
LEMMA RegistryOthers ==
  ASSUME OperatorInv, UniqueInv, NEW o \in Operators, BackendStep(o),
         NEW s, s.name # call[o].reg.consumer
  PROVE  s \in services' <=> s \in services
  <1> DEFINE service == call[o].service
  <1>1. services \subseteq Services /\ CallOK(call[o]) /\ StageOK(call[o])
    BY DEF OperatorInv, CASInv, CASTypeOK, UniqueInv
  <1>2. CASE UpsertWrite(o) \/ UpsertWriteFails(o)
    <2>1. /\ call[o].at = "write"
          /\ services' = services \/ \E id \in IdsFor(service) : services' = Save(service, id)
      BY <1>2 DEF UpsertWrite, UpsertWriteFails
    <2>2. service \in Services /\ service.name = call[o].reg.consumer
      BY <1>1, <2>1 DEF CallOK
    <2>3. ASSUME NEW id \in IdsFor(service), services' = Save(service, id)
          PROVE  s \in services' <=> s \in services
      <3> DEFINE saved == [service EXCEPT !.id = id]
      <3>1. id \in ServiceIds \union {None}
        BY <2>2, IdsType
      <3>2. saved.name = service.name
        BY <1>1, <2>2, <3>1, SaveType
      <3>3. services' = {t \in services : t.id # id} \union {saved}
        BY <2>3 DEF Save
      <3>4. ASSUME s \in services, s.id = id
            PROVE  FALSE
        <4>1. CASE service.id = None
          BY <3>4, <4>1 DEF IdsFor, UsedIds
        <4>2. CASE service.id # None
          BY <1>1, <2>1, <2>2, <3>4, <4>2 DEF IdsFor, UniqueInv, StageOK
        <4> QED BY <4>1, <4>2
      <3> HIDE DEF saved
      <3> QED BY <2>2, <3>2, <3>3, <3>4
    <2> QED BY <2>1, <2>3
  <1>3. CASE DeleteRemove(o) \/ DeleteRemoveFails(o)
    <2>1. /\ call[o].at = "remove"
          /\ services' = services \/ services' = Removed(service.id)
      BY <1>3 DEF DeleteRemove, DeleteRemoveFails
    <2> QED BY <1>1, <2>1 DEF Removed, StageOK, UniqueInv
  <1>4. CASE \/ \E drawn \in FreshSecrets : UpsertPrepare(o, drawn)
             \/ UpsertRejected(o) \/ UpsertResult(o) \/ UpsertResultFails(o)
             \/ DeleteLookup(o) \/ DeleteRejected(o)
    BY <1>4 DEF UpsertPrepare, UpsertRejected, UpsertResult, UpsertResultFails,
                DeleteLookup, DeleteRejected
  <1> QED BY <1>2, <1>3, <1>4 DEF BackendStep, DeleteStep

\* Hence the registry is the same, before and after a step, for every
\* AuthRegistration but the one the worker has in hand.
LEMMA OthersHold ==
  ASSUME DistinctConsumers, OperatorInv, SpecsInv, CallInv, UniqueInv,
         NEW o \in Operators, BackendStep(o), NEW n \in Names, n # job[o].name,
         NEW spec \in UserSpecs[n], NEW result
  PROVE  Holds(services, spec, result) => Holds(services', spec, result)
  <1> SUFFICES ASSUME Holds(services, spec, result)
               PROVE  Holds(services', spec, result)
    OBVIOUS
  <1>1. /\ pc[o] \in {"upsert", "delete"} /\ job[o].name \in Names
        /\ call[o].at \in {"upsert", "write", "result", "delete", "remove"}
        /\ job[o].obj.spec \in UserSpecs[job[o].name]
    BY HoldTypes, BackendCall DEF BackendStep, SpecsInv
  <1>2. call[o].reg = FromAuthRegistration(job[o].obj.spec)
    BY <1>1 DEF CallInv, Answers
  <1>3. call[o].reg.consumer = job[o].obj.spec.consumer
    BY <1>2 DEF FromAuthRegistration
  <1>4. PICK s \in services :
        /\ s.name = spec.consumer
        /\ s.protocol = spec.protocol
        /\ spec.protocol = "CAS" => result.id = s.name
        /\ spec.protocol # "CAS" =>
            /\ s.clientID = result.id
            /\ s.hash = hashClientSecret(result.secret)
            /\ spec.clientId \in {None, s.clientID}
    BY DEF Holds
  <1>5. s.name # Blank
    BY AbsentAssumption DEF OperatorInv, CASInv, CASTypeOK, Services
  <1>6. s.name # call[o].reg.consumer
    BY <1>1, <1>3, <1>4, <1>5 DEF DistinctConsumers
  <1>7. s \in services'
    BY <1>6, RegistryOthers
  <1> QED BY <1>4, <1>7 DEF Holds

\* What a step does to the Secrets a running operator has seen.
LEMMA SecretNews ==
  ASSUME OperatorInv, [Next]_vars, NEW o \in Operators, OneOperator,
         ~Crash(o), \A s \in SecretNames : ~SyncSecret(o, s)
  PROVE  /\ unseen[o] \subseteq unseen'[o]
         /\ \A s \in SecretNames : secrets'[s] # secrets[s] => s \in unseen'[o]
  <1>1. /\ secrets \in [SecretNames -> Secrets \union {None}]
        /\ \A p \in Operators : p = o
    BY DEF OperatorInv, K8sTypeOK, OneOperator
  <1>2. CASE UNCHANGED <<secrets, unseen, secCache>>
    BY <1>2
  <1>3. CASE \E s \in SecretNames : \E secret : WriteSecret(s, secret) /\ secCache' = secCache
    BY <1>1, <1>3 DEF WriteSecret
  <1>4. CASE \/ \E p \in Operators, s \in SecretNames : SyncSecret(p, s)
             \/ \E p \in Operators : Crash(p)
    BY <1>1, <1>4
  <1> QED BY <1>2, <1>3, <1>4, SecretSteps

LEMMA News ==
  ASSUME OperatorInv, HoldInv, [Next]_vars, NEW o \in Operators, NEW n \in Names
  PROVE  Kept(ars[n], ars'[n]) \/ Passes(arCache[o][n], ars'[n])
  <1>1. CASE ars'[n] = None
    BY <1>1 DEF Passes
  <1>2. CASE ars'[n] # None
    BY <1>2, ObjectNews
  <1> QED BY <1>1, <1>2

-------------------------------------------------------------------------------
(***************************************************************************)
(* What other steps leave as it is                                         *)
(***************************************************************************)

\* An outstanding event stays outstanding.
LEMMA WaitingKept ==
  ASSUME NEW o \in Operators, NEW n \in Names, Waiting(o, n),
         Kept(ars[n], ars'[n]) \/ Passes(arCache[o][n], ars'[n]),
         arCache'[o][n] = arCache[o][n], n \in queue[o] => n \in queue'[o]
  PROVE  Waiting(o, n)'
  <1>1. CASE Passes(arCache[o][n], ars'[n])
    BY <1>1 DEF Waiting
  <1>2. CASE Kept(ars[n], ars'[n])
    <2>1. Passes(arCache[o][n], ars[n]) = Passes(arCache[o][n], ars'[n])
      BY <1>2, PassesKept
    <2> QED BY <2>1 DEF Waiting
  <1> QED BY <1>1, <1>2

\* Whatever changes a Secret announces it: what was settled is settled, or an
\* event will put the AuthRegistration into the queue.
LEMMA CaredForKept ==
  ASSUME OperatorInv, HoldInv, NEW o \in Operators, NEW n \in Names,
         ars[n] # None => CaredFor(o, n),
         ars'[n] # None,
         Kept(ars[n], ars'[n]) \/ Passes(arCache[o][n], ars'[n]),
         arCache'[o][n] = arCache[o][n], n \in queue[o] => n \in queue'[o],
         unseen[o] \subseteq unseen'[o],
         \A s \in SecretNames : secrets'[s] # secrets[s] => s \in unseen'[o],
         \A result : Holds(services, ars[n].spec, result)
                        => Holds(services', ars[n].spec, result)
  PROVE  CaredFor(o, n)'
  <1>1. CASE Passes(arCache[o][n], ars'[n])
    BY <1>1 DEF Waiting, CaredFor
  <1>2. CASE Kept(ars[n], ars'[n])
    <2>1. ars[n] # None /\ ars'[n].spec = ars[n].spec /\ ars'[n].deleting = ars[n].deleting
          /\ (ars[n].finalizer => ars'[n].finalizer)
      BY <1>2 DEF Kept
    <2>2. CASE Waiting(o, n)
      BY <2>2, WaitingKept DEF CaredFor
    <2>3. CASE Announced(o, n)
      BY <2>3 DEF Announced, CaredFor
    <2>4. CASE SettledNow(n) /\ ~Waiting(o, n)
      <3> DEFINE s == ResolveSecretName(n, ars[n].spec)
      <3>1. s \in SecretNames /\ SettledWith(services, ars[n], secrets[s])
        BY <2>4 DEF SettledNow
      <3>2. CASE secrets'[s] = secrets[s]
        <4>1. SettledWith(services', ars'[n], secrets[s])
          BY <2>1, <3>1 DEF SettledWith
        <4>2. SettledNow(n)'
          BY <2>1, <3>1, <3>2, <4>1 DEF SettledNow
        <4> QED BY <4>2 DEF CaredFor
      <3>3. CASE secrets'[s] # secrets[s]
        <4>1. s \in unseen'[o]
          BY <3>1, <3>3
        <4>2. arCache[o][n] # None /\ arCache[o][n].spec = ars[n].spec
          <5>1. /\ ars[n] \in AuthRegistrationObjects
                /\ arCache[o][n] \in AuthRegistrationObjects \union {None}
            BY <2>1, HoldTypes
          <5>2. CachedOK(ars[n], births[n], arCache[o][n]) /\ ~Passes(arCache[o][n], ars[n])
            BY <2>4 DEF HoldInv, Waiting
          <5> QED BY <5>1, <5>2, PassesUnlessSame
        <4> QED BY <4>1, <4>2 DEF Announced, CaredFor
      <3> QED BY <3>2, <3>3
    <2> QED BY <2>1, <2>2, <2>3, <2>4 DEF CaredFor
  <1> QED BY <1>1, <1>2

\* The same for what the worker has derived.
LEMMA CurrentKept ==
  ASSUME OperatorInv, NEW o \in Operators, NEW n \in Names, pc[o] # "idle", n = job[o].name,
         Waiting(o, n) \/ UpToDate(services, pc[o], job[o], ars[n]),
         Kept(ars[n], ars'[n]) \/ Passes(arCache[o][n], ars'[n]),
         arCache'[o][n] = arCache[o][n], n \in queue[o] => n \in queue'[o]
  PROVE  \/ Waiting(o, n)'
         \/ UpToDate(services, pc[o], job[o], ars'[n])
  <1>1. CASE Waiting(o, n)
    BY <1>1, WaitingKept
  <1>2. CASE Passes(arCache[o][n], ars'[n])
    BY <1>2 DEF Waiting
  <1>3. CASE Kept(ars[n], ars'[n]) /\ UpToDate(services, pc[o], job[o], ars[n])
    BY <1>3 DEF Kept, UpToDate
  <1> QED BY <1>1, <1>2, <1>3

-------------------------------------------------------------------------------
(***************************************************************************)
(* The invariant is inductive                                              *)
(***************************************************************************)

LEMMA ConvergeInvInit == Init => ConvergeInv
  <1> SUFFICES ASSUME Init PROVE ConvergeInv
    OBVIOUS
  <1>1. \A n \in Names : ars[n] = None
    BY DEF Init
  <1>2. \A o \in Operators : pc[o] = "idle"
    BY DEF Init
  <1> QED BY <1>1, <1>2 DEF ConvergeInv, Current, Deriving

\* One operator: the invariant is about its queue, caches and worker.
LEMMA OneConverge ==
  ASSUME OneOperator, NEW o \in Operators,
         \A n \in Names : ars'[n] # None => (CaredFor(o, n) \/ Unfinished(o, n))',
         Current(o)'
  PROVE  ConvergeInv'
  BY DEF ConvergeInv, OneOperator

\* Users and the garbage collector.
LEMMA QuietConverges ==
  ASSUME OneOperator, OperatorInv, HoldInv, ConvergeInv, [Next]_vars,
         UNCHANGED <<localVars, services>>, NEW o \in Operators,
         ~Crash(o), \A s \in SecretNames : ~SyncSecret(o, s)
  PROVE  ConvergeInv'
  <1>1. /\ pc'[o] = pc[o] /\ job'[o] = job[o] /\ queue'[o] = queue[o] /\ services' = services
        /\ \A n \in Names : arCache'[o][n] = arCache[o][n]
    BY DEF localVars
  <1>2. \A n \in Names : Kept(ars[n], ars'[n]) \/ Passes(arCache[o][n], ars'[n])
    BY News
  <1>3. /\ unseen[o] \subseteq unseen'[o]
        /\ \A s \in SecretNames : secrets'[s] # secrets[s] => s \in unseen'[o]
    BY SecretNews
  <1>4. ASSUME NEW n \in Names, ars'[n] # None
        PROVE  (CaredFor(o, n) \/ Unfinished(o, n))'
    <2>1. CASE Unfinished(o, n)
      BY <1>1, <2>1 DEF Unfinished
    <2>2. CASE ~Unfinished(o, n)
      <3>1. ars[n] # None => CaredFor(o, n)
        BY <2>2 DEF ConvergeInv
      <3>2. CaredFor(o, n)'
        BY <1>1, <1>2, <1>3, <1>4, <3>1, CaredForKept
      <3> QED BY <3>2
    <2> QED BY <2>1, <2>2
  <1>5. Current(o)'
    <2>1. CASE pc[o] \in Deriving
      <3> DEFINE n == job[o].name
      <3>1. pc[o] # "idle" /\ n \in Names
        BY <2>1, HoldTypes DEF Deriving
      <3>2. Waiting(o, n) \/ UpToDate(services, pc[o], job[o], ars[n])
        BY <2>1 DEF ConvergeInv, Current
      <3>3. Waiting(o, n)' \/ UpToDate(services, pc[o], job[o], ars'[n])
        BY <1>1, <1>2, <3>1, <3>2, CurrentKept
      <3> QED BY <1>1, <3>3 DEF Current
    <2>2. CASE pc[o] \notin Deriving
      BY <1>1, <2>2 DEF Current
    <2> QED BY <2>1, <2>2
  <1> QED BY <1>4, <1>5, OneConverge

\* The informer of the AuthRegistrations: what passes is enqueued, what does not
\* pass changes nothing the predicates look at.
LEMMA SyncAuthRegistrationConverges ==
  ASSUME OneOperator, OperatorInv, HoldInv, ConvergeInv, NEW o \in Operators,
         NEW m \in Names, SyncAuthRegistration(o, m)
  PROVE  ConvergeInv'
  <1>1. /\ queue \in [Operators -> SUBSET Names]
        /\ arCache \in [Operators -> [Names -> AuthRegistrationObjects \union {None}]]
        /\ ars \in [Names -> AuthRegistrationObjects \union {None}]
    BY HoldTypes DEF OperatorInv, LocalTypeOK
  <1>2. /\ arCache'[o][m] = ars[m]
        /\ \A n \in Names : n # m => arCache'[o][n] = arCache[o][n]
    BY <1>1 DEF SyncAuthRegistration
  <1>3. /\ queue[o] \subseteq queue'[o]
        /\ Passes(arCache[o][m], ars[m]) => m \in queue'[o]
    BY <1>1 DEF SyncAuthRegistration
  <1>4. UNCHANGED <<ars, secrets, unseen, services, pc, job>>
    BY DEF SyncAuthRegistration, casVars, k8sVars
  <1>5. ASSUME NEW n \in Names, Waiting(o, n)
        PROVE  Waiting(o, n)'
    BY <1>2, <1>3, <1>4, <1>5 DEF Waiting
  <1>6. ASSUME NEW n \in Names, ars'[n] # None
        PROVE  (CaredFor(o, n) \/ Unfinished(o, n))'
    <2>1. CASE Unfinished(o, n)
      BY <1>4, <2>1 DEF Unfinished
    <2>2. CASE Waiting(o, n)
      BY <1>5, <2>2 DEF CaredFor
    <2>3. CASE SettledNow(n)
      BY <1>4, <2>3 DEF SettledNow, CaredFor
    <2>4. CASE Announced(o, n) /\ ~Waiting(o, n)
      <3>1. CASE n # m
        BY <1>2, <1>4, <2>4, <3>1 DEF Announced, CaredFor
      <3>2. CASE n = m
        <4>1. ars[n] \in AuthRegistrationObjects
          BY <1>1, <1>4, <1>6
        <4>2. CachedOK(ars[n], births[n], arCache[o][n]) /\ ~Passes(arCache[o][n], ars[n])
          BY <2>4 DEF HoldInv, Waiting
        <4>3. arCache[o][n].spec = ars[n].spec /\ ars[n] # None
          BY <1>1, <4>1, <4>2, PassesUnlessSame
        <4> QED BY <1>2, <1>4, <2>4, <3>2, <4>3 DEF Announced, CaredFor
      <3> QED BY <3>1, <3>2
    <2> QED BY <1>4, <1>6, <2>1, <2>2, <2>3, <2>4 DEF ConvergeInv, CaredFor
  <1>7. Current(o)'
    <2>1. pc[o] \in Deriving => job[o].name \in Names
      BY HoldTypes DEF Deriving
    <2> QED BY <1>4, <1>5, <2>1 DEF ConvergeInv, Current
  <1> QED BY <1>6, <1>7, OneConverge

\* The informer of the Secrets, and its resync.
LEMMA SyncSecretConverges ==
  ASSUME OneOperator, OperatorInv, ConvergeInv, NEW o \in Operators,
         NEW s \in SecretNames, SyncSecret(o, s) \/ ResyncSecret(o, s)
  PROVE  ConvergeInv'
  <1>1. queue \in [Operators -> SUBSET Names] /\ unseen \in [Operators -> SUBSET SecretNames]
    BY DEF OperatorInv, LocalTypeOK, K8sTypeOK
  <1>2. queue'[o] = queue[o] \union MapSecretToAuthRegistrations(o, s)
    BY <1>1 DEF SyncSecret, ResyncSecret
  <1>3. UNCHANGED <<ars, arCache, secrets, services, pc, job>>
    BY DEF SyncSecret, ResyncSecret, casVars, k8sVars
  <1>4. \A x \in unseen[o] : x = s \/ x \in unseen'[o]
    BY <1>1 DEF SyncSecret, ResyncSecret, k8sVars
  <1>5. ASSUME NEW n \in Names, Waiting(o, n)
        PROVE  Waiting(o, n)'
    BY <1>2, <1>3, <1>5 DEF Waiting
  <1>6. ASSUME NEW n \in Names, ars'[n] # None
        PROVE  (CaredFor(o, n) \/ Unfinished(o, n))'
    <2>1. CASE Unfinished(o, n)
      BY <1>3, <2>1 DEF Unfinished
    <2>2. CASE Waiting(o, n)
      BY <1>5, <2>2 DEF CaredFor
    <2>3. CASE SettledNow(n)
      BY <1>3, <2>3 DEF SettledNow, CaredFor
    <2>4. CASE Announced(o, n)
      <3>1. CASE ResolveSecretName(n, arCache[o][n].spec) = s
        <4>1. n \in queue'[o]
          BY <1>2, <2>4, <3>1 DEF Announced, MapSecretToAuthRegistrations
        <4> QED BY <4>1 DEF Waiting, CaredFor
      <3>2. CASE ResolveSecretName(n, arCache[o][n].spec) # s
        BY <1>3, <1>4, <2>4, <3>2 DEF Announced, CaredFor
      <3> QED BY <3>1, <3>2
    <2> QED BY <1>3, <1>6, <2>1, <2>2, <2>3, <2>4 DEF ConvergeInv, CaredFor
  <1>7. Current(o)'
    <2>1. pc[o] \in Deriving => job[o].name \in Names
      BY DEF Deriving, OperatorInv, WorkerOK, JobOK
    <2> QED BY <1>3, <1>5, <2>1 DEF ConvergeInv, Current
  <1> QED BY <1>6, <1>7, OneConverge

\* A new process enqueues every AuthRegistration.
LEMMA CrashConverges ==
  ASSUME OneOperator, OperatorInv, NEW o \in Operators, Crash(o)
  PROVE  ConvergeInv'
  <1>1. /\ queue \in [Operators -> SUBSET Names] /\ pc \in [Operators -> Labels]
    BY DEF OperatorInv, LocalTypeOK, WorkerOK
  <1>2. ars' = ars /\ queue'[o] = {n \in Names : ars[n] # None} /\ pc'[o] = "idle"
    BY <1>1 DEF Crash
  <1>3. Current(o)'
    BY <1>2 DEF Current, Deriving
  <1>4. \A n \in Names : ars'[n] # None => (CaredFor(o, n) \/ Unfinished(o, n))'
    BY <1>2 DEF CaredFor, Waiting
  <1> QED BY <1>3, <1>4, OneConverge

\* An item is dropped only when the cache does not have it, and then the event
\* of its creation is outstanding; the handlers start from the cached object.
LEMMA BeginConverges ==
  ASSUME OneOperator, OperatorInv, HoldInv, ConvergeInv, NEW o \in Operators,
         NEW m \in Names, Begin(o, m)
  PROVE  ConvergeInv'
  <1> DEFINE obj == arCache[o][m]
  <1>1. /\ queue \in [Operators -> SUBSET Names] /\ pc \in [Operators -> Labels]
        /\ job \in [Operators -> Jobs]
        /\ ars \in [Names -> AuthRegistrationObjects \union {None}]
        /\ obj \in AuthRegistrationObjects \union {None}
        /\ CachedOK(ars[m], births[m], obj)
    BY HoldTypes DEF OperatorInv, LocalTypeOK, HoldInv
  <1>2. /\ pc[o] = "idle" /\ queue'[o] = queue[o] \ {m}
        /\ UNCHANGED <<ars, secrets, unseen, arCache, services>>
    BY <1>1 DEF Begin, k8sVars, casVars, CallDelete
  <1>3. \/ pc' = pc /\ job' = job /\ (obj # None => obj.deleting /\ ~obj.finalizer)
        \/ pc'[o] \in {"delete", "finalize"} /\ job'[o].name = m
        \/ /\ obj # None /\ ~obj.deleting
           /\ pc'[o] = StartOfReconcile(m, obj) /\ job'[o] = Started(m, obj)
    <2>1. \/ pc' = pc /\ job' = job /\ (obj # None => obj.deleting /\ ~obj.finalizer)
          \/ /\ pc' = [pc EXCEPT ![o] = "delete"] \/ pc' = [pc EXCEPT ![o] = "finalize"]
             /\ job' = [job EXCEPT ![o] = [NoJob EXCEPT !.name = m, !.obj = obj]]
          \/ /\ obj # None /\ ~obj.deleting
             /\ pc' = [pc EXCEPT ![o] = StartOfReconcile(m, obj)]
             /\ job' = [job EXCEPT ![o] = Started(m, obj)]
      BY DEF Begin
    <2>2. [NoJob EXCEPT !.name = m, !.obj = obj].name = m
      BY DEF NoJob
    <2> HIDE DEF obj
    <2> QED BY <1>1, <2>1, <2>2
  <1>4. obj # None => (obj.deleting => obj.finalizer)
    BY <1>1 DEF CachedOK
  <1>5. ASSUME NEW n \in Names, n # m, ars'[n] # None
        PROVE  CaredFor(o, n)'
    <2>1. CaredFor(o, n)
      BY <1>2, <1>5 DEF ConvergeInv, Unfinished
    <2> QED BY <1>2, <1>5, <2>1 DEF CaredFor, Waiting, Announced, SettledNow
  <1>6. /\ Started(m, obj).name = m /\ Started(m, obj).obj = obj
        /\ Started(m, obj).secretName = ResolveSecretName(m, obj.spec)
    BY DEF Started, NoJob
  <1>7. StartOfReconcile(m, obj) \in {"invalidRef", "read"}
    BY DEF StartOfReconcile
  <1>8. (CaredFor(o, m) \/ Unfinished(o, m))'
    <2>1. CASE obj = None
      BY <1>2, <2>1 DEF CaredFor, Waiting, Passes
    <2>2. CASE pc'[o] \in {"delete", "finalize", "invalidRef", "read"} /\ job'[o].name = m
      BY <2>2 DEF Unfinished, Written
    <2> HIDE DEF obj
    <2> QED BY <1>3, <1>4, <1>6, <1>7, <2>1, <2>2
  <1>9. Current(o)'
    <2>1. CASE pc'[o] \notin Deriving
      BY <2>1 DEF Current
    <2>2. CASE pc'[o] \in Deriving
      <3>1. obj # None /\ pc'[o] = "read" /\ job'[o] = Started(m, obj)
        <4> HIDE DEF obj
        <4> QED BY <1>2, <1>3, <1>7, <2>2 DEF Deriving
      <3>2. CASE Passes(obj, ars[m])
        BY <1>2, <1>6, <3>1, <3>2 DEF Current, Waiting
      <3>3. CASE ~Passes(obj, ars[m])
        <4>1. ars[m] \in AuthRegistrationObjects
          BY <1>1, <3>3 DEF Passes
        <4>2. obj.spec = ars[m].spec /\ obj.deleting = ars[m].deleting
          BY <1>1, <3>3, <4>1, PassesUnlessSame
        <4>3. ~obj.deleting
          <5> HIDE DEF obj
          <5> QED BY <1>2, <1>3, <3>1
        <4>4. UpToDate(services', "read", Started(m, obj), ars[m])
          <5> HIDE DEF obj
          <5> QED BY <1>6, <4>2, <4>3 DEF UpToDate
        <4> QED BY <1>2, <1>6, <3>1, <4>4 DEF Current
      <3> QED BY <3>2, <3>3
    <2> QED BY <2>1, <2>2
  <1> QED BY <1>5, <1>8, <1>9, OneConverge

-------------------------------------------------------------------------------
(***************************************************************************)
(* The steps of the worker                                                 *)
(***************************************************************************)

\* What a step of the worker owes the AuthRegistration it has in hand.
InHand(o) ==
    /\ \A n \in Names : n = job[o].name /\ ars'[n] # None =>
            (CaredFor(o, n) \/ Unfinished(o, n))'
    /\ Current(o)'

\* What the steps of the worker have in common.
LEMMA WorkerFrame ==
  ASSUME OperatorInv, NEW o \in Operators, WorkerStep(o)
  PROVE  /\ pc[o] # "idle" /\ job[o].name \in Names
         /\ arCache' = arCache
         /\ queue[o] \subseteq queue'[o]
         /\ ~BackendStep(o) => services' = services
  <1>1. queue \in [Operators -> SUBSET Names]
    BY DEF OperatorInv, LocalTypeOK
  <1>2. \A label, j : Goto(o, label, j) \/ Done(o) \/ Retry(o) => queue[o] \subseteq queue'[o]
    BY <1>1 DEF Goto, Done, Retry
  <1>3. pc[o] # "idle" => job[o].name \in Names
    BY HoldTypes
  <1>4. CASE Patches(o)
    <2>1. pc[o] # "idle"
      BY <1>4, PatchesKind DEF Reconciling, Resolved
    <2>2. PICK after, next : PatchStatus(o, after, next)
      BY <1>4, PatchesKind
    <2>3. queue[o] \subseteq queue'[o]
      BY <1>2, <2>2 DEF PatchStatus, Proceed
    <2>4. arCache' = arCache /\ services' = services
      BY <2>2 DEF PatchStatus
    <2> QED BY <1>3, <2>1, <2>3, <2>4
  <1>5. CASE Finalize(o)
    BY <1>2, <1>3, <1>5 DEF Finalize
  <1>6. CASE Unfinalize(o)
    BY <1>2, <1>3, <1>6 DEF Unfinalize
  <1>7. CASE ReadRegistrationData(o)
    BY <1>2, <1>3, <1>7 DEF ReadRegistrationData, CallUpsert
  <1>8. CASE BackendStep(o)
    BY <1>1, <1>3, <1>8 DEF BackendStep, localVars
  <1>9. CASE Upserted(o) \/ Deleted(o)
    BY <1>2, <1>3, <1>9 DEF Upserted, Deleted, Return
  <1>10. CASE ReconcileSecret(o)
    BY <1>2, <1>3, <1>10 DEF ReconcileSecret
  <1>11. CASE CleanupObsoleteGeneratedSecret(o)
    BY <1>2, <1>3, <1>11 DEF CleanupObsoleteGeneratedSecret
  <1> QED BY <1>4, <1>5, <1>6, <1>7, <1>8, <1>9, <1>10, <1>11 DEF WorkerStep, Patches

\* The other AuthRegistrations.
LEMMA WorkerOthers ==
  ASSUME OneOperator, DistinctConsumers, OperatorInv, HoldInv, SpecsInv, CallInv, UniqueInv,
         ConvergeInv, [Next]_vars, NEW o \in Operators, WorkerStep(o),
         ~Crash(o), \A s \in SecretNames : ~SyncSecret(o, s),
         NEW n \in Names, n # job[o].name, ars'[n] # None
  PROVE  CaredFor(o, n)'
  <1>1. /\ pc[o] # "idle" /\ arCache' = arCache /\ queue[o] \subseteq queue'[o]
        /\ ~BackendStep(o) => services' = services
    BY WorkerFrame
  <1>2. ars[n] # None => CaredFor(o, n)
    BY DEF ConvergeInv, Unfinished
  <1>3. Kept(ars[n], ars'[n]) \/ Passes(arCache[o][n], ars'[n])
    BY News
  <1>4. /\ unseen[o] \subseteq unseen'[o]
        /\ \A s \in SecretNames : secrets'[s] # secrets[s] => s \in unseen'[o]
    BY SecretNews
  <1>5. CASE ars[n] # None
    <2>1. ars[n].spec \in UserSpecs[n]
      BY <1>5 DEF SpecsInv
    <2>2. \A result : Holds(services, ars[n].spec, result)
                        => Holds(services', ars[n].spec, result)
      <3>1. CASE BackendStep(o)
        BY <2>1, <3>1, OthersHold
      <3>2. CASE ~BackendStep(o)
        BY <1>1, <3>2
      <3> QED BY <3>1, <3>2
    <2> QED BY <1>1, <1>2, <1>3, <1>4, <2>2, CaredForKept
  <1>6. CASE ars[n] = None
    BY <1>1, <1>3, <1>6 DEF Kept, CaredFor, Waiting
  <1> QED BY <1>5, <1>6

\* The reconcile has failed and will be tried again.
LEMMA RetryInHand ==
  ASSUME OperatorInv, NEW o \in Operators, Retry(o)
  PROVE  InHand(o)
  <1>1. queue \in [Operators -> SUBSET Names] /\ pc \in [Operators -> Labels]
    BY DEF OperatorInv, LocalTypeOK, WorkerOK
  <1>2. pc'[o] = "idle" /\ job[o].name \in queue'[o]
    BY <1>1 DEF Retry
  <1>3. Current(o)'
    BY <1>2 DEF Current, Deriving
  <1> QED BY <1>2, <1>3 DEF InHand, CaredFor, Waiting

\* The reconcile goes on and has not yet published the credentials.
LEMMA GotoInHand ==
  ASSUME OperatorInv, NEW o \in Operators, NEW label, NEW j, Goto(o, label, j),
         j.name = job[o].name, label \notin Written \union {"idle"},
         label \in Deriving =>
            \/ Waiting(o, j.name)'
            \/ UpToDate(services', label, j, ars'[j.name])
  PROVE  InHand(o)
  <1>1. job \in [Operators -> Jobs] /\ pc \in [Operators -> Labels]
    BY DEF OperatorInv, WorkerOK
  <1>2. pc'[o] = label /\ job'[o] = j
    BY <1>1 DEF Goto
  <1> QED BY <1>2 DEF InHand, Unfinished, Current

\* The credentials are published; what is left does not touch them.
LEMMA WrittenInHand ==
  ASSUME OneOperator, OperatorInv, HoldInv, ConvergeInv, [Next]_vars, NEW o \in Operators,
         WorkerStep(o), ~Crash(o), \A s \in SecretNames : ~SyncSecret(o, s),
         pc[o] \in Written, pc'[o] \notin Deriving
  PROVE  InHand(o)
  <1>1. /\ arCache' = arCache /\ queue[o] \subseteq queue'[o]
        /\ ~BackendStep(o) => services' = services
    BY WorkerFrame
  <1>2. services' = services
    BY <1>1 DEF BackendStep, Written
  <1>3. /\ unseen[o] \subseteq unseen'[o]
        /\ \A s \in SecretNames : secrets'[s] # secrets[s] => s \in unseen'[o]
    BY SecretNews
  <1>4. ASSUME NEW n \in Names, n = job[o].name, ars'[n] # None
        PROVE  CaredFor(o, n)'
    <2>1. ars[n] # None => CaredFor(o, n)
      BY DEF ConvergeInv, Unfinished
    <2>2. Kept(ars[n], ars'[n]) \/ Passes(arCache[o][n], ars'[n])
      BY News
    <2> QED BY <1>1, <1>2, <1>3, <1>4, <2>1, <2>2, CaredForKept
  <1> QED BY <1>4 DEF InHand, Current

\* Where a status patch leads.
LEMMA PatchOutcome ==
  ASSUME OperatorInv, NEW o \in Operators, pc[o] # "idle", NEW after, NEW next,
         PatchStatus(o, after, next)
  PROVE  /\ services' = services
         /\ \/ Retry(o)
            \/ \E j : /\ Proceed(o, next, j)
                      /\ j.name = job[o].name /\ j.secretName = job[o].secretName
                      /\ j.protocol = job[o].protocol /\ j.result = job[o].result
  <1>1. job[o] \in Jobs
    BY DEF OperatorInv, WorkerOK
  <1> DEFINE patched == [ars EXCEPT ![job[o].name] = MergePatch(@, job[o].obj.status, after)]
             j       == [job[o] EXCEPT !.obj = patched[job[o].name]]
  <1>2. /\ j.name = job[o].name /\ j.secretName = job[o].secretName
        /\ j.protocol = job[o].protocol /\ j.result = job[o].result
    BY <1>1 DEF Jobs
  <1>3. Retry(o) \/ Proceed(o, next, job[o]) \/ Proceed(o, next, j)
    BY DEF PatchStatus
  <1>4. services' = services
    BY DEF PatchStatus
  <1> HIDE DEF j
  <1> QED BY <1>2, <1>3, <1>4

\* What the worker knows is current before a step is current after it.
LEMMA StillCurrent ==
  ASSUME OperatorInv, HoldInv, ConvergeInv, [Next]_vars, NEW o \in Operators, WorkerStep(o),
         pc[o] \in Deriving, NEW n \in Names, n = job[o].name
  PROVE  \/ Waiting(o, n)'
         \/ UpToDate(services, pc[o], job[o], ars'[n])
  <1>1. pc[o] # "idle" /\ arCache' = arCache /\ queue[o] \subseteq queue'[o]
    BY WorkerFrame
  <1>2. Waiting(o, n) \/ UpToDate(services, pc[o], job[o], ars[n])
    BY DEF ConvergeInv, Current
  <1>3. Kept(ars[n], ars'[n]) \/ Passes(arCache[o][n], ars'[n])
    BY News
  <1> QED BY <1>1, <1>2, <1>3, CurrentKept

LEMMA FinalizeInHand ==
  ASSUME OperatorInv, HoldInv, NEW o \in Operators, Finalize(o)
  PROVE  InHand(o)
  <1> DEFINE n     == job[o].name
             obj   == job[o].obj
             added == [obj EXCEPT !.finalizer = TRUE]
  <1>1. CASE Retry(o)
    BY <1>1, RetryInHand
  <1>2. CASE /\ ars' = [ars EXCEPT ![n] = added]
             /\ Goto(o, StartOfReconcile(n, added), Started(n, added))
    <2>1. pc[o] = "finalize" /\ services' = services
      BY DEF Finalize
    <2>2. /\ n \in Names /\ obj \in AuthRegistrationObjects
          /\ ars \in [Names -> AuthRegistrationObjects \union {None}]
      BY <2>1, HoldTypes
    <2>3. ~obj.deleting
      BY <2>1 DEF HoldInv, WorkerHolds, JobHolds
    <2>4. ars'[n] = added
      BY <1>2, <2>2
    <2>5. ~added.deleting
      BY <2>2, <2>3 DEF AuthRegistrationObjects
    <2> HIDE DEF added
    <2>6. /\ Started(n, added).name = n /\ Started(n, added).obj = added
          /\ Started(n, added).secretName = ResolveSecretName(n, added.spec)
      BY DEF Started, NoJob
    <2>7. StartOfReconcile(n, added) \in {"invalidRef", "read"}
      BY DEF StartOfReconcile
    <2>8. UpToDate(services', "read", Started(n, added), ars'[n])
      BY <2>4, <2>5, <2>6 DEF UpToDate
    <2>9. StartOfReconcile(n, added) \in Deriving =>
            UpToDate(services', StartOfReconcile(n, added), Started(n, added),
                     ars'[Started(n, added).name])
      BY <2>6, <2>7, <2>8 DEF Deriving
    <2>10. StartOfReconcile(n, added) \notin Written \union {"idle"}
      BY <2>7 DEF Written
    <2>11. ASSUME NEW label, NEW j, Goto(o, label, j), j.name = n,
                  label \notin Written \union {"idle"},
                  label \in Deriving => UpToDate(services', label, j, ars'[j.name])
           PROVE  InHand(o)
      BY <2>11, GotoInHand
    <2> QED BY <1>2, <2>6, <2>9, <2>10, <2>11
  <1> HIDE DEF added
  <1> QED BY <1>1, <1>2 DEF Finalize, added

LEMMA PatchesInHand ==
  ASSUME OneOperator, OperatorInv, HoldInv, ConvergeInv, [Next]_vars, NEW o \in Operators,
         WorkerStep(o), ~Crash(o), \A s \in SecretNames : ~SyncSecret(o, s), Patches(o)
  PROVE  InHand(o)
  <1>1. pc[o] # "idle" /\ job[o].name \in Names /\ pc \in [Operators -> Labels]
    BY WorkerFrame, HoldTypes
  <1>2. ASSUME NEW after, PatchStatus(o, after, "retry")
        PROVE  InHand(o)
    <2>1. Retry(o)
      BY <1>1, <1>2, PatchOutcome DEF Proceed
    <2> QED BY <2>1, RetryInHand
  <1>3. ASSUME NEW after,
               NEW next \in {"invalidPublished", "invalidCompleted", "blocked"},
               PatchStatus(o, after, next)
        PROVE  InHand(o)
    <2>1. \/ Retry(o)
          \/ \E j : Goto(o, next, j) /\ j.name = job[o].name
      BY <1>1, <1>3, PatchOutcome DEF Proceed
    <2>2. next \notin Written \union {"idle"} \union Deriving
      BY DEF Written, Deriving
    <2> QED BY <2>1, <2>2, RetryInHand, GotoInHand
  <1>4. CASE PatchInvalidSpec(o)
    BY <1>2, <1>3, <1>4 DEF PatchInvalidSpec
  <1>5. CASE PatchRegistrationFailed(o)
    BY <1>2, <1>5 DEF PatchRegistrationFailed
  <1>6. CASE PatchSecretReconcileFailed(o)
    BY <1>2, <1>3, <1>6 DEF PatchSecretReconcileFailed
  <1>7. CASE PatchResolvedSecretRef(o)
    <2>1. pc[o] = "patchRef" /\ PatchStatus(o, WithRef(job[o].obj, job[o].secretName), "secret")
      BY <1>7 DEF PatchResolvedSecretRef
    <2>2. CASE Retry(o)
      BY <2>2, RetryInHand
    <2>3. ASSUME NEW j, Goto(o, "secret", j),
                 j.name = job[o].name, j.secretName = job[o].secretName,
                 j.protocol = job[o].protocol, j.result = job[o].result,
                 services' = services
          PROVE  InHand(o)
      <3>1. \/ Waiting(o, j.name)'
            \/ UpToDate(services, "patchRef", job[o], ars'[j.name])
        <4>1. ASSUME NEW n \in Names, n = job[o].name
              PROVE  Waiting(o, n)' \/ UpToDate(services, "patchRef", job[o], ars'[n])
          BY <2>1, <4>1, StillCurrent DEF Deriving
        <4> QED BY <1>1, <2>3, <4>1
      <3>2. UpToDate(services, "patchRef", job[o], ars'[j.name])
                => UpToDate(services', "secret", j, ars'[j.name])
        BY <2>3 DEF UpToDate
      <3> QED BY <2>3, <3>1, <3>2, GotoInHand DEF Written
    <2> QED BY <1>1, <2>1, <2>2, <2>3, PatchOutcome DEF Proceed
  <1>8. CASE PatchCredentialsPublished(o) \/ PatchRegistrationSucceeded(o)
    <2>1. pc[o] \in Written
      BY <1>8 DEF PatchCredentialsPublished, PatchRegistrationSucceeded, Written
    <2>2. \E after : PatchStatus(o, after, "succeeded") \/ PatchStatus(o, after, "done")
      BY <1>8 DEF PatchCredentialsPublished, PatchRegistrationSucceeded
    <2>3. Retry(o) \/ Done(o) \/ \E j : Goto(o, "succeeded", j)
      BY <1>1, <2>2, PatchOutcome DEF Proceed
    <2>4. pc'[o] \notin Deriving
      BY <1>1, <2>3 DEF Retry, Done, Goto, Deriving
    <2> QED BY <2>1, <2>4, WrittenInHand
  <1> QED BY <1>4, <1>5, <1>6, <1>7, <1>8 DEF Patches

\* From the read to the answer of Upsert: what comes back is in the registry.
LEMMA BackendInHand ==
  ASSUME OperatorInv, HoldInv, CallInv, UsableInv, ConvergeInv, [Next]_vars,
         NEW o \in Operators, WorkerStep(o),
         ReadRegistrationData(o) \/ BackendStep(o) \/ Upserted(o) \/ Deleted(o)
  PROVE  InHand(o)
  <1>1. /\ pc[o] # "idle" /\ job[o].name \in Names /\ job[o] \in Jobs
        /\ pc \in [Operators -> Labels]
    BY WorkerFrame, HoldTypes
  <1>2. pc[o] \in Deriving =>
            \A n \in Names : n = job[o].name =>
                Waiting(o, n)' \/ UpToDate(services, pc[o], job[o], ars'[n])
    BY StillCurrent
  <1>3. CASE ReadRegistrationData(o)
    <2>1. pc[o] = "read" /\ Goto(o, "upsert", job[o])
      BY <1>3 DEF ReadRegistrationData
    <2>2. ASSUME NEW j, j = job[o]
          PROVE  Waiting(o, j.name)' \/ UpToDate(services', "upsert", j, ars'[j.name])
      BY <1>1, <1>2, <2>1, <2>2 DEF Deriving, UpToDate
    <2>3. ASSUME NEW j, j = job[o]
          PROVE  InHand(o)
      BY <2>1, <2>2, <2>3, GotoInHand DEF Written
    <2> QED BY <2>3
  <1>4. CASE BackendStep(o)
    <2>1. pc' = pc /\ job' = job /\ pc[o] \in {"upsert", "delete"}
      BY <1>4 DEF BackendStep, localVars
    <2>2. \A n \in Names : n = job[o].name => Unfinished(o, n)'
      BY <2>1 DEF Unfinished, Written
    <2>3. Current(o)'
      BY <1>1, <1>2, <2>1 DEF Current, Deriving, UpToDate
    <2> QED BY <2>2, <2>3 DEF InHand
  <1>5. CASE Upserted(o)
    <2>1. pc[o] = "upsert" /\ services' = services
      BY <1>5 DEF Upserted, Return
    <2>2. CASE Goto(o, "registrationFailed", job[o])
      <3>1. ASSUME NEW j, j = job[o]
            PROVE  InHand(o)
        BY <2>2, <3>1, GotoInHand DEF Written, Deriving
      <3> QED BY <3>1
    <2>3. CASE /\ call[o].at = "ok"
               /\ Goto(o, "patchRef", [job[o] EXCEPT !.protocol = call[o].reg.protocol,
                                                     !.result = call[o].result])
      <3>1. /\ call[o].reg = FromAuthRegistration(job[o].obj.spec)
            /\ call[o].result # None /\ ResultFits(call[o].reg, call[o].result)
        <4>1. call[o].result \in Credentials
          BY <2>1, <2>3 DEF OperatorInv, CallsFit, CallFits
        <4>2. call[o].result # None
          BY <4>1, BackendAssumption
        <4>3. call[o].reg = FromAuthRegistration(job[o].obj.spec)
          BY <2>1, <2>3 DEF CallInv, Answers
        <4> QED BY <2>3, <4>2, <4>3 DEF UsableInv, UsableOK
      <3>2. ASSUME NEW spec, spec = job[o].obj.spec
            PROVE  /\ call[o].reg.protocol = spec.protocol
                   /\ Holds(services, spec, call[o].result)
        <4>1. /\ call[o].reg.protocol = spec.protocol /\ call[o].reg.consumer = spec.consumer
              /\ call[o].reg.clientId = spec.clientId
          BY <3>1, <3>2 DEF FromAuthRegistration
        <4> QED BY <3>1, <4>1 DEF ResultFits, Matches, Holds
      <3>3. ASSUME NEW j, j = [job[o] EXCEPT !.protocol = call[o].reg.protocol,
                                             !.result = call[o].result]
            PROVE  InHand(o)
        <4>1. /\ j.name = job[o].name /\ j.secretName = job[o].secretName
              /\ j.protocol = call[o].reg.protocol /\ j.result = call[o].result
          BY <1>1, <3>3 DEF Jobs
        <4>2. Waiting(o, j.name)' \/ UpToDate(services, "upsert", job[o], ars'[j.name])
          BY <1>1, <1>2, <2>1, <4>1 DEF Deriving
        <4>3. UpToDate(services, "upsert", job[o], ars'[j.name])
                => UpToDate(services', "patchRef", j, ars'[j.name])
          BY <2>1, <3>2, <4>1 DEF UpToDate
        <4>4. Goto(o, "patchRef", j)
          BY <2>3, <3>3
        <4>5. "patchRef" \notin Written \union {"idle"}
          BY DEF Written
        <4> QED BY <4>1, <4>2, <4>3, <4>4, <4>5, GotoInHand
      <3> QED BY <3>3
    <2> QED BY <1>5, <2>2, <2>3 DEF Upserted
  <1>6. CASE Deleted(o)
    <2>1. CASE Retry(o)
      BY <2>1, RetryInHand
    <2>2. CASE Goto(o, "unfinalize", job[o])
      <3>1. ASSUME NEW j, j = job[o]
            PROVE  InHand(o)
        BY <2>2, <3>1, GotoInHand DEF Written, Deriving
      <3> QED BY <3>1
    <2> QED BY <1>6, <2>1, <2>2 DEF Deleted
  <1> QED BY <1>3, <1>4, <1>5, <1>6

LEMMA UnfinalizeInHand ==
  ASSUME OperatorInv, NEW o \in Operators, Unfinalize(o)
  PROVE  InHand(o)
  <1>1. CASE Retry(o)
    BY <1>1, RetryInHand
  <1>2. CASE ars' = [ars EXCEPT ![job[o].name] = None] /\ Done(o)
    <2>1. /\ pc[o] # "idle" /\ pc \in [Operators -> Labels]
          /\ ars \in [Names -> AuthRegistrationObjects \union {None}]
      BY HoldTypes DEF Unfinalize
    <2>2. pc'[o] = "idle"
      BY <1>2, <2>1 DEF Done
    <2> QED BY <1>2, <2>1, <2>2 DEF InHand, Current, Deriving
  <1> QED BY <1>1, <1>2 DEF Unfinalize

LEMMA CleanupInHand ==
  ASSUME OneOperator, OperatorInv, HoldInv, ConvergeInv, [Next]_vars, NEW o \in Operators,
         WorkerStep(o), ~Crash(o), \A s \in SecretNames : ~SyncSecret(o, s),
         CleanupObsoleteGeneratedSecret(o)
  PROVE  InHand(o)
  <1>1. pc[o] \in Written /\ pc \in [Operators -> Labels]
    BY HoldTypes DEF CleanupObsoleteGeneratedSecret, Written
  <1>2. Retry(o) \/ \E j : Goto(o, "published", j)
    BY DEF CleanupObsoleteGeneratedSecret
  <1>3. pc'[o] \notin Deriving
    BY <1>1, <1>2 DEF Retry, Goto, Deriving
  <1> QED BY <1>1, <1>3, WrittenInHand

\* The Secret: after a write its event is outstanding; when no write is needed
\* the cached Secret has the credentials, and either an event about it is
\* outstanding or it is the one in the API server.
LEMMA ReconcileSecretInHand ==
  ASSUME OperatorInv, HoldInv, SeenInv, ConvergeInv, [Next]_vars,
         NEW o \in Operators, WorkerStep(o), ReconcileSecret(o)
  PROVE  InHand(o)
  <1> DEFINE j       == job[o]
             s       == j.secretName
             current == secCache[o][s]
             desired == IF current = None THEN NewSecret(j) ELSE MergedSecret(j, current)
  <1>1. /\ pc[o] = "secret" /\ UNCHANGED <<services, ars, arCache>>
    BY DEF ReconcileSecret
  <1>2. /\ j \in Jobs /\ j.name \in Names /\ j.obj \in AuthRegistrationObjects
        /\ s \in SecretNames /\ j.protocol \in Protocols /\ j.result \in Credentials
        /\ pc \in [Operators -> Labels]
        /\ current \in Secrets \union {None}
        /\ unseen \in [Operators -> SUBSET SecretNames]
    <2>1. JobOK("secret", j) /\ j \in Jobs
      BY <1>1 DEF OperatorInv, WorkerOK
    <2>2. s \in SecretNames
      BY <2>1 DEF JobOK, Resolved
    <2> QED BY <2>1, <2>2 DEF JobOK, OperatorInv, WorkerOK, LocalTypeOK, K8sTypeOK
  <1>3. CASE Goto(o, "secretFailed", j)
    <2>1. ASSUME NEW k, k = job[o]
          PROVE  InHand(o)
      BY <1>3, <2>1, GotoInHand DEF Written, Deriving
    <2> QED BY <2>1
  <1>4. CASE /\ Goto(o, "cleanup", j)
             /\ s \in unseen'[o] \/ (desired = current /\ UNCHANGED <<secrets, unseen>>)
    <2>1. pc'[o] = "cleanup"
      BY <1>2, <1>4 DEF Goto
    <2>2. ASSUME NEW n \in Names, n = j.name, ars'[n] # None
          PROVE  CaredFor(o, n)'
      <3>1. Waiting(o, n)' \/ UpToDate(services, "secret", j, ars'[n])
        BY <1>1, <2>2, StillCurrent DEF Deriving
      <3>2. CASE Waiting(o, n)'
        BY <3>2 DEF CaredFor
      <3>3. CASE UpToDate(services, "secret", j, ars'[n]) /\ ~Waiting(o, n)'
        <4>1. /\ ~ars[n].deleting /\ s = ResolveSecretName(n, ars[n].spec)
              /\ j.protocol = ars[n].spec.protocol /\ Holds(services, ars[n].spec, j.result)
          BY <1>1, <2>2, <3>3 DEF UpToDate
        <4>2. arCache[o][n] # None /\ arCache[o][n].spec = ars[n].spec
          <5>1. /\ ars[n] \in AuthRegistrationObjects
                /\ arCache[o][n] \in AuthRegistrationObjects \union {None}
            BY <1>1, <2>2, HoldTypes
          <5>2. CachedOK(ars[n], births[n], arCache[o][n]) /\ ~Passes(arCache[o][n], ars[n])
            BY <1>1, <3>3 DEF HoldInv, Waiting
          <5> QED BY <5>1, <5>2, PassesUnlessSame
        <4>3. CASE s \in unseen'[o]
          <5>1. Announced(o, n)'
            BY <1>1, <4>1, <4>2, <4>3 DEF Announced
          <5> QED BY <5>1 DEF CaredFor
        <4>4. CASE s \notin unseen'[o]
          <5>1. desired = current /\ secrets' = secrets /\ s \notin unseen[o]
            BY <1>4, <4>4
          <5>2. current # None /\ current = MergedSecret(j, current)
            <6>1. NewSecret(j) # None
              BY <1>2, SecretType, OperatorAssumption
            <6> QED BY <5>1, <6>1
          <5>3. current.data[j.protocol] = j.result /\ j.result # None
            <6>1. current \in Secrets /\ current.data \in RegistrationData
              BY <1>2, <5>2 DEF Secrets
            <6>2. MergedSecret(j, current).data[j.protocol] = j.result
              BY <1>2, <6>1 DEF MergedSecret, RegistrationData
            <6>3. j.result # None
              BY <1>2, BackendAssumption
            <6> HIDE DEF current
            <6> QED BY <5>2, <6>2, <6>3
          <5>4. secrets[s] = current
            BY <1>2, <5>1 DEF SeenInv
          <5>5. ars[n].finalizer
            BY <1>1, <2>2 DEF HoldInv, WorkerHolds, JobHolds, Reconciling, Resolved
          <5>6. SettledWith(services, ars[n], secrets[s])
            <6> HIDE DEF current, j
            <6> QED BY <4>1, <5>2, <5>3, <5>4, <5>5 DEF SettledWith
          <5>7. SettledNow(n)'
            BY <1>1, <1>2, <4>1, <5>1, <5>6 DEF SettledNow
          <5> QED BY <5>7 DEF CaredFor
        <4> QED BY <4>3, <4>4
      <3> QED BY <3>1, <3>2, <3>3
    <2> QED BY <2>1, <2>2 DEF InHand, Current, Deriving
  <1>5. ASSUME Goto(o, "cleanup", j), ~Goto(o, "secretFailed", j)
        PROVE  s \in unseen'[o] \/ (desired = current /\ UNCHANGED <<secrets, unseen>>)
    BY <1>2, <1>5 DEF ReconcileSecret, WriteSecret
  <1>6. Goto(o, "cleanup", j) \/ Goto(o, "secretFailed", j)
    BY DEF ReconcileSecret
  <1> HIDE DEF desired, current
  <1> QED BY <1>3, <1>4, <1>5, <1>6

\* A step of the worker preserves the invariant.
LEMMA WorkerConverges ==
  ASSUME OneOperator, DistinctConsumers, OperatorInv, HoldInv, SpecsInv, CallInv, UniqueInv,
         UsableInv, SeenInv, ConvergeInv, [Next]_vars, NEW o \in Operators, WorkerStep(o),
         ~Crash(o), \A s \in SecretNames : ~SyncSecret(o, s)
  PROVE  ConvergeInv'
  <1>1. InHand(o)
    <2>1. CASE Patches(o)
      BY <2>1, PatchesInHand
    <2>2. CASE Finalize(o)
      BY <2>2, FinalizeInHand
    <2>3. CASE ReadRegistrationData(o) \/ BackendStep(o) \/ Upserted(o) \/ Deleted(o)
      BY <2>3, BackendInHand
    <2>4. CASE ReconcileSecret(o)
      BY <2>4, ReconcileSecretInHand
    <2>5. CASE CleanupObsoleteGeneratedSecret(o)
      BY <2>5, CleanupInHand
    <2>6. CASE Unfinalize(o)
      BY <2>6, UnfinalizeInHand
    <2> QED BY <2>1, <2>2, <2>3, <2>4, <2>5, <2>6 DEF WorkerStep, Patches
  <1>2. \A n \in Names : ars'[n] # None => (CaredFor(o, n) \/ Unfinished(o, n))'
    <2> SUFFICES ASSUME NEW n \in Names, ars'[n] # None
                 PROVE  (CaredFor(o, n) \/ Unfinished(o, n))'
      OBVIOUS
    <2>1. CASE n = job[o].name
      BY <1>1, <2>1 DEF InHand
    <2>2. CASE n # job[o].name
      BY <2>2, WorkerOthers
    <2> QED BY <2>1, <2>2
  <1> QED BY <1>1, <1>2, OneConverge DEF InHand

LEMMA ConvergeInvStep ==
  ASSUME OneOperator, DistinctConsumers, OperatorInv, HoldInv, SpecsInv, CallInv, UniqueInv,
         UsableInv, SeenInv, ConvergeInv, [Next]_vars
  PROVE  ConvergeInv'
  <1>1. CASE Operators = {}
    BY <1>1 DEF ConvergeInv
  <1>2. ASSUME NEW o \in Operators
        PROVE  ConvergeInv'
    <2>1. \A p \in Operators : p = o
      BY DEF OneOperator
    <2>2. CASE Crash(o)
      BY <2>2, CrashConverges
    <2>3. CASE \E s \in SecretNames : SyncSecret(o, s) \/ ResyncSecret(o, s)
      BY <2>3, SyncSecretConverges
    <2>4. CASE \E n \in Names : Begin(o, n) \/ SyncAuthRegistration(o, n)
      BY <2>4, BeginConverges, SyncAuthRegistrationConverges
    <2>5. CASE /\ WorkerStep(o)
               /\ ~Crash(o) /\ \A s \in SecretNames : ~SyncSecret(o, s)
      BY <2>5, WorkerConverges
    <2>6. CASE /\ UserStep \/ (\E s \in SecretNames : GarbageCollect(s)) \/ UNCHANGED vars
               /\ ~Crash(o) /\ \A s \in SecretNames : ~SyncSecret(o, s)
      <3>1. UNCHANGED <<localVars, services>>
        BY <2>6 DEF UserStep, UserCreates, UserEdits, UserDeletes, UserWritesSecret,
                    UserDeletesSecret, AdminSetsFqdn, SetFqdn, GarbageCollect, vars, casVars
      <3> QED BY <2>6, <3>1, QuietConverges
    <2>7. ~LateWriteArrives
      BY DEF LateWriteArrives, ApplyLate, UniqueInv
    <2> QED BY <2>1, <2>2, <2>3, <2>4, <2>5, <2>6, <2>7 DEF Next, OperatorStep
  <1> QED BY <1>1, <1>2

-------------------------------------------------------------------------------
\* QuiescentConsistent is about the rare states in which nothing is left to do;
\* what is inductive says of every state who will take care of what is not yet
\* settled, and rests on all that the other proofs establish of caches, calls,
\* specs and the registry.
RestInv ==
    /\ OperatorInv /\ HoldInv /\ SeenInv /\ SpecsInv
    /\ CallInv /\ UniqueInv /\ UsableInv
    /\ ConvergeInv

LEMMA RestInvInit == Init => RestInv
  <1>1. Init => CASInit
    BY DEF Init
  <1> QED BY <1>1, OperatorInvInit, HoldInvInit, SeenInvInit, SpecsInvInit, CallInvInit,
             UniqueInvInit, UsableInvInit, ConvergeInvInit DEF RestInv

LEMMA RestInvStep ==
  ASSUME OneOperator, LateWrites = FALSE, DistinctConsumers, RestInv, [Next]_vars
  PROVE  RestInv'
  <1>1. OperatorInv' /\ [CASNext]_casVars /\ CASInv
    BY OperatorInvStep DEF RestInv, OperatorInv
  <1>2. UniqueInv' /\ UsableInv'
    BY <1>1, UniqueInvStep, UsableInvStep DEF RestInv
  <1>3. HoldInv' /\ SeenInv' /\ SpecsInv' /\ CallInv'
    BY HoldInvStep, SeenInvStep, SpecsInvStep, CallInvStep DEF RestInv
  <1>4. ConvergeInv'
    BY ConvergeInvStep DEF RestInv
  <1> QED BY <1>1, <1>2, <1>3, <1>4 DEF RestInv

\* No needed reconcile gets lost: whenever worker, queue and informers have come
\* to rest, every AuthRegistration is registered in CAS with exactly the
\* credentials its Secret publishes, however users edit and delete objects and
\* tamper with Secrets, whichever requests fail or lose their answer, wherever
\* the process crashes, and however far the caches lag behind.
THEOREM NoReconcileLost ==
  ASSUME OneOperator, Operators # {}, LateWrites = FALSE, DistinctConsumers
  PROVE  Spec => []QuiescentConsistent
  <1>1. RestInv => QuiescentConsistent
    BY ConvergeInvConsistent DEF RestInv
  <1> QED BY <1>1, RestInvInit, RestInvStep, PTL DEF Spec

================================================================================
