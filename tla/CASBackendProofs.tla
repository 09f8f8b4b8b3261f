---------------------------- MODULE CASBackendProofs ----------------------------
(***************************************************************************)
(* Proofs about CASBackend: for any number of operators, type correctness  *)
(* that an id stays with its consumer, and (without late writes) that a    *)
(* call changes only its consumer's service; for one operator without late *)
(* writes, uniqueness of a consumer's service and usable credentials.      *)
(***************************************************************************)
EXTENDS CASBackend, TLAPS

\* What a call carries at each of its stages.
CallOK(c) ==
    /\ c.at \in {"upsert", "write", "result", "delete", "remove"} => c.reg \in Registrations
    /\ c.at \in {"write", "result"} =>
        /\ ValidRegistration(c.reg)
        /\ c.service \in Services
        /\ c.service.name = c.reg.consumer
    /\ c.at = "remove" => c.service \in Services /\ c.service.name = c.reg.consumer
    /\ c.at = "ok" /\ c.result # None => c.reg.protocol \in Protocols

CASInv ==
    /\ CASTypeOK
    /\ \A o \in Operators : CallOK(call[o])

LEMMA NoCallType == NoCall \in Calls /\ CallOK(NoCall)
  BY DEF NoCall, Calls, CallOK

\* An existing service is one of the registered ones.
LEMMA ExistingType ==
  ASSUME NEW consumer, services \subseteq Services
  PROVE  /\ Existing(consumer) \in Services \union {None}
         /\ Existing(consumer) = None <=> Matches(consumer) = {}
         /\ Existing(consumer) # None => Existing(consumer) \in Matches(consumer)
  <1>1. CASE Matches(consumer) = {}
    BY <1>1 DEF Existing
  <1>2. CASE Matches(consumer) # {}
    <2>1. Existing(consumer) \in Matches(consumer)
      BY <1>2 DEF Existing
    <2>2. Matches(consumer) \subseteq Services
      BY DEF Matches
    <2>3. Existing(consumer) # None
      BY <2>1, <2>2, BackendAssumption
    <2> QED BY <1>2, <2>1, <2>2, <2>3
  <1> QED BY <1>1, <1>2

LEMMA PayloadType ==
  ASSUME NEW reg \in Registrations, ValidRegistration(reg),
         NEW existing \in Services \union {None},
         NEW secret, reg.protocol # "CAS" => secret \in ClientSecrets,
         NEW f \in Fqdns
  PROVE  /\ BuildServicePayload(reg, existing, secret, f) \in Services
         /\ BuildServicePayload(reg, existing, secret, f).name = reg.consumer
         /\ BuildServicePayload(reg, existing, secret, f).id
                = IF existing = None THEN None ELSE existing.id
  <1>1. reg.consumer \in Consumers /\ reg.protocol \in Protocols
    BY DEF Registrations, ValidRegistration
  <1>2. resolveClientID(reg, existing) \in Consumers \union ClientIds
    BY <1>1 DEF resolveClientID, Registrations, Services
  <1>3. reg.protocol # "CAS" => hashClientSecret(secret) \in Hashes
    BY DEF Hashes
  <1>4. (IF existing = None THEN None ELSE existing.id) \in ServiceIds \union {None}
    BY DEF Services
  <1> QED BY <1>1, <1>2, <1>3, <1>4 DEF BuildServicePayload, Services

LEMMA ResultType ==
  ASSUME NEW reg \in Registrations, ValidRegistration(reg), NEW service \in Services,
         NEW secret \in ClientSecrets \union {None}, NEW f \in Fqdns
  PROVE  BuildRegistrationResult(reg, service, secret, f) \in Credentials
  <1>1. reg.protocol \in {"CAS", "OIDC", "OAUTH"}
    BY DEF ValidRegistration, Protocols
  <1>2. /\ service.name \in Consumers
        /\ service.clientID \in Consumers \union ClientIds \union {None}
        /\ service.fqdn \in Fqdns
    BY DEF Services
  <1> QED BY <1>1, <1>2 DEF BuildRegistrationResult, Credentials

LEMMA IdsType ==
  ASSUME NEW service \in Services, NEW id \in IdsFor(service)
  PROVE  id \in ServiceIds \union {None}
  BY DEF IdsFor, Services

LEMMA SaveType ==
  ASSUME services \subseteq Services, NEW service \in Services,
         NEW id \in ServiceIds \union {None}
  PROVE  /\ Save(service, id) \subseteq Services
         /\ [service EXCEPT !.id = id] \in Services
         /\ [service EXCEPT !.id = id].name = service.name
         /\ [service EXCEPT !.id = id].id = id
  BY DEF Save, Services

LEMMA FaultType ==
  ASSUME faults \in 0..MaxFaults, Fault
  PROVE  faults' \in 0..MaxFaults
  BY BackendAssumption DEF Fault

LEMMA FailsType ==
  ASSUME NEW o \in Operators, CASInv, Fails(o)
  PROVE  /\ call' \in [Operators -> Calls]
         /\ \A p \in Operators : CallOK(call'[p])
  <1>1. [NoCall EXCEPT !.at = "failed"] \in Calls /\ CallOK([NoCall EXCEPT !.at = "failed"])
    BY DEF NoCall, Calls, CallOK
  <1> QED BY <1>1 DEF Fails, CASInv, CASTypeOK

LEMMA CASInvInit == CASInit => CASInv
  <1> SUFFICES ASSUME CASInit PROVE CASInv
    OBVIOUS
  <1>1. NoCall \in Calls /\ CallOK(NoCall)
    BY NoCallType
  <1>2. CASTypeOK
    BY <1>1, BackendAssumption DEF CASInit, CASTypeOK
  <1>3. \A o \in Operators : CallOK(call[o])
    BY <1>1 DEF CASInit
  <1> QED BY <1>2, <1>3 DEF CASInv

\* Every step of the backend preserves the shape of the calls; one case per action.
LEMMA CASInvStep == CASInv /\ [CASNext]_casVars => CASInv'
  <1> SUFFICES ASSUME CASInv, [CASNext]_casVars PROVE CASInv'
    OBVIOUS
  <1> USE DEF CASInv, CASTypeOK
  <1>1. ASSUME NEW o \in Operators, NEW reg \in Registrations,
               NEW known \in ClientSecrets \union {None}, CallUpsert(o, reg, known)
        PROVE  CASInv'
    <2>1. [NoCall EXCEPT !.at = "upsert", !.reg = reg, !.known = known] \in Calls
      BY DEF NoCall, Calls
    <2>2. CallOK([NoCall EXCEPT !.at = "upsert", !.reg = reg, !.known = known])
      BY DEF NoCall, CallOK
    <2> QED BY <1>1, <2>1, <2>2 DEF CallUpsert
  <1>2. ASSUME NEW o \in Operators, NEW reg \in Registrations, CallDelete(o, reg)
        PROVE  CASInv'
    <2>1. [NoCall EXCEPT !.at = "delete", !.reg = reg] \in Calls
      BY DEF NoCall, Calls
    <2>2. CallOK([NoCall EXCEPT !.at = "delete", !.reg = reg])
      BY DEF NoCall, CallOK
    <2> QED BY <1>2, <2>1, <2>2 DEF CallDelete
  <1>3. ASSUME NEW o \in Operators, NEW drawn \in ClientSecrets, UpsertPrepare(o, drawn)
        PROVE  CASInv'
    <2> DEFINE reg      == call[o].reg
               existing == Existing(reg.consumer)
               secret   == resolveClientSecret(reg, call[o].known, drawn)
               payload  == BuildServicePayload(reg, existing, secret, fqdn)
               next     == [call[o] EXCEPT !.at = "write", !.known = None,
                                           !.secret = secret, !.service = payload]
    <2>1. call[o] \in Calls /\ CallOK(call[o]) /\ call[o].at = "upsert"
      BY <1>3 DEF UpsertPrepare
    <2>2. reg \in Registrations /\ ValidRegistration(reg)
      BY <1>3, <2>1 DEF UpsertPrepare, CallOK
    <2>3. existing \in Services \union {None}
      BY ExistingType
    <2>4. call[o].known \in ClientSecrets \union {None}
      BY <2>1 DEF Calls
    <2>5. /\ secret \in ClientSecrets \union {None}
          /\ reg.protocol # "CAS" => secret \in ClientSecrets
      BY <2>4 DEF resolveClientSecret
    <2>6. payload \in Services /\ payload.name = reg.consumer
      <3> HIDE DEF reg, existing, secret
      <3> QED BY <2>2, <2>3, <2>5, PayloadType
    <2>7. call' = [call EXCEPT ![o] = next]
      BY <1>3 DEF UpsertPrepare
    <2>8. next \in Calls /\ next.at = "write" /\ next.reg = reg /\ next.service = payload
      <3> HIDE DEF payload, secret
      <3> QED BY <2>1, <2>5, <2>6 DEF Calls
    <2>9. CallOK(next)
      <3> HIDE DEF payload, next, reg
      <3> QED BY <2>2, <2>6, <2>8 DEF CallOK
    <2> HIDE DEF next
    <2> QED BY <1>3, <2>7, <2>8, <2>9 DEF UpsertPrepare
  <1>4. ASSUME NEW o \in Operators, UpsertRejected(o)
        PROVE  CASInv'
    BY <1>4, FailsType, FaultType DEF UpsertRejected
  <1>5. ASSUME NEW o \in Operators, UpsertWrite(o)
        PROVE  CASInv'
    <2>1. PICK id \in IdsFor(call[o].service) :
            /\ services' = Save(call[o].service, id)
            /\ call' = [call EXCEPT ![o] = [@ EXCEPT !.at = "result", !.service.id = id]]
      BY <1>5 DEF UpsertWrite
    <2> DEFINE next == [call[o] EXCEPT !.at = "result", !.service.id = id]
               saved == [call[o].service EXCEPT !.id = id]
    <2>2. call[o] \in Calls /\ CallOK(call[o]) /\ call[o].at = "write"
      BY <1>5 DEF UpsertWrite
    <2>3. /\ call[o].service \in Services
          /\ call[o].reg \in Registrations /\ ValidRegistration(call[o].reg)
          /\ call[o].service.name = call[o].reg.consumer
      BY <2>2 DEF CallOK
    <2>4. id \in ServiceIds \union {None}
      BY <2>1, <2>3, IdsType
    <2>5. /\ Save(call[o].service, id) \subseteq Services
          /\ saved \in Services /\ saved.name = call[o].reg.consumer
      BY <2>3, <2>4, SaveType
    <2>6. /\ next \in Calls /\ next.at = "result" /\ next.reg = call[o].reg
          /\ next.service = saved
      BY <2>2, <2>5 DEF Calls
    <2>7. CallOK(next)
      <3> HIDE DEF next, saved
      <3> QED BY <2>3, <2>5, <2>6 DEF CallOK
    <2>8. call' = [call EXCEPT ![o] = next]
      BY <2>1
    <2> HIDE DEF next
    <2> QED BY <1>5, <2>1, <2>5, <2>6, <2>7, <2>8 DEF UpsertWrite
  <1>6. ASSUME NEW o \in Operators, UpsertWriteFails(o)
        PROVE  CASInv'
    <2>1. call[o].service \in Services
      BY <1>6 DEF UpsertWriteFails, CallOK
    <2>2. \A id \in IdsFor(call[o].service) : Save(call[o].service, id) \subseteq Services
      BY <2>1, IdsType, SaveType
    <2>3. services' \subseteq Services /\ late' \in Services \union {None}
      BY <1>6, <2>1, <2>2 DEF UpsertWriteFails
    <2> QED BY <1>6, <2>3, FailsType, FaultType DEF UpsertWriteFails
  <1>7. ASSUME NEW o \in Operators, UpsertResult(o)
        PROVE  CASInv'
    <2> DEFINE result == BuildRegistrationResult(call[o].reg, call[o].service,
                                                 call[o].secret, fqdn)
               next   == [NoCall EXCEPT !.at = "ok", !.reg = call[o].reg, !.result = result]
    <2>1. call[o] \in Calls /\ CallOK(call[o]) /\ call[o].at = "result"
      BY <1>7 DEF UpsertResult
    <2>2. /\ call[o].reg \in Registrations /\ ValidRegistration(call[o].reg)
          /\ call[o].service \in Services
          /\ call[o].secret \in ClientSecrets \union {None}
      BY <2>1 DEF CallOK, Calls
    <2>3. result \in Credentials
      BY <2>2, ResultType
    <2>4. next \in Calls /\ next.at = "ok" /\ next.reg = call[o].reg
      <3> HIDE DEF result
      <3> QED BY <2>2, <2>3 DEF NoCall, Calls
    <2>5. CallOK(next)
      <3> HIDE DEF next
      <3> QED BY <2>2, <2>4 DEF CallOK, ValidRegistration
    <2>6. call' = [call EXCEPT ![o] = next]
      BY <1>7 DEF UpsertResult
    <2> HIDE DEF next
    <2> QED BY <1>7, <2>4, <2>5, <2>6 DEF UpsertResult
  <1>8. ASSUME NEW o \in Operators, UpsertResultFails(o)
        PROVE  CASInv'
    BY <1>8, FailsType, FaultType DEF UpsertResultFails
  <1>9. ASSUME NEW o \in Operators, DeleteLookup(o)
        PROVE  CASInv'
    <2> DEFINE existing == Existing(call[o].reg.consumer)
               next == IF existing = None
                       THEN [NoCall EXCEPT !.at = "ok", !.reg = call[o].reg]
                       ELSE IF existing.id = None
                            THEN [NoCall EXCEPT !.at = "failed"]
                            ELSE [call[o] EXCEPT !.at = "remove", !.service = existing]
    <2>1. call[o] \in Calls /\ CallOK(call[o]) /\ call[o].at = "delete"
      BY <1>9 DEF DeleteLookup
    <2>2. call[o].reg \in Registrations
      BY <2>1 DEF CallOK
    <2>3. /\ existing \in Services \union {None}
          /\ existing # None => existing.name = call[o].reg.consumer
      BY ExistingType DEF Matches
    <2>4. next \in Calls
      <3> HIDE DEF existing
      <3> QED BY <2>1, <2>2, <2>3 DEF NoCall, Calls
    <2>5. CallOK(next)
      <3> HIDE DEF existing
      <3> QED BY <2>1, <2>2, <2>3 DEF NoCall, Calls, CallOK
    <2>6. call' = [call EXCEPT ![o] = next]
      BY <1>9 DEF DeleteLookup
    <2> HIDE DEF next
    <2> QED BY <1>9, <2>4, <2>5, <2>6 DEF DeleteLookup
  <1>10. ASSUME NEW o \in Operators, DeleteRejected(o)
         PROVE  CASInv'
    BY <1>10, FailsType, FaultType DEF DeleteRejected
  <1>11. ASSUME NEW o \in Operators, DeleteRemove(o)
         PROVE  CASInv'
    <2> DEFINE next == [NoCall EXCEPT !.at = "ok", !.reg = call[o].reg]
    <2>1. call[o] \in Calls /\ CallOK(call[o])
      OBVIOUS
    <2>2. call[o].reg \in Registrations
      BY <1>11, <2>1 DEF CallOK, DeleteRemove
    <2>3. next \in Calls /\ CallOK(next)
      BY <2>2 DEF NoCall, Calls, CallOK
    <2>4. call' = [call EXCEPT ![o] = next]
      BY <1>11 DEF DeleteRemove
    <2>5. services' \subseteq Services
      BY <1>11 DEF DeleteRemove, Removed
    <2> HIDE DEF next
    <2> QED BY <1>11, <2>3, <2>4, <2>5 DEF DeleteRemove
  <1>12. ASSUME NEW o \in Operators, DeleteRemoveFails(o)
         PROVE  CASInv'
    <2>1. services' \subseteq Services
      BY <1>12 DEF DeleteRemoveFails, Removed
    <2> QED BY <1>12, <2>1, FailsType, FaultType DEF DeleteRemoveFails
  <1>13. ASSUME NEW o \in Operators, Return(o) \/ Abandon(o)
         PROVE  CASInv'
    <2>1. call[o] \in Calls
      OBVIOUS
    <2>2. late' \in Services \union {None}
      BY <1>13, <2>1 DEF Return, Abandon, Calls
    <2>3. /\ call' = [call EXCEPT ![o] = NoCall]
          /\ UNCHANGED <<services, fqdn, faults>>
      BY <1>13 DEF Return, Abandon
    <2> QED BY <2>2, <2>3, NoCallType
  <1>14. CASE ApplyLate
    <2>1. late \in Services
      BY <1>14 DEF ApplyLate
    <2>2. services' \subseteq Services
      BY <1>14, <2>1, IdsType, SaveType DEF ApplyLate
    <2> QED BY <1>14, <2>2 DEF ApplyLate
  <1>15. ASSUME NEW f \in Fqdns, SetFqdn(f)
         PROVE  CASInv'
    BY <1>15 DEF SetFqdn
  <1>16. CASE OtherFault
    BY <1>16, FaultType DEF OtherFault
  <1>17. CASE UNCHANGED casVars
    BY <1>17 DEF casVars
  <1> QED
    BY <1>1, <1>2, <1>3, <1>4, <1>5, <1>6, <1>7, <1>8, <1>9, <1>10, <1>11, <1>12,
       <1>13, <1>14, <1>15, <1>16, <1>17
    DEF CASNext, UpsertStep, DeleteStep

\* The backend's state always has its type, for any number of operators, with
\* late writes or without: every stage of an Upsert or Delete finds the
\* registration, payload and credentials it goes on to use.
THEOREM CASTypeCorrect == CASSpec => []CASTypeOK
  <1>1. CASInit => CASInv
    BY CASInvInit
  <1>2. CASInv /\ [CASNext]_casVars => CASInv'
    BY CASInvStep
  <1>3. CASInv => CASTypeOK
    BY DEF CASInv
  <1> QED BY <1>1, <1>2, <1>3, PTL DEF CASSpec

-------------------------------------------------------------------------------
(***************************************************************************)
(* Uniqueness                                                              *)
(***************************************************************************)

\* One operator process with one worker: no leader election is needed.
OneOperator == \A o, p \in Operators : o = p

\* What the registry looks like to a call that has searched it: no other call
\* has changed it since.
StageOK(c) ==
    /\ c.at = "write" =>
        IF c.service.id = None
        THEN Matches(c.reg.consumer) = {}
        ELSE \E s \in services : s.id = c.service.id /\ s.name = c.reg.consumer
    /\ c.at = "remove" =>
        \E s \in services : s.id = c.service.id /\ s.name = c.reg.consumer
    /\ c.at = "ok" /\ c.result = None => Matches(c.reg.consumer) = {}

UniqueInv ==
    /\ late = None
    /\ UniqueService
    /\ \A s, t \in services : s.id = t.id => s = t
    /\ \A s \in services : s.id # None
    /\ \A o \in Operators : StageOK(call[o])

\* Saving a service whose name is new, or under the id its name has, keeps
\* names and ids unique.
LEMMA SaveUnique ==
  ASSUME services \subseteq Services, UniqueInv,
         NEW service \in Services, NEW id \in IdsFor(service),
         IF service.id = None
         THEN Matches(service.name) = {}
         ELSE \E s \in services : s.id = service.id /\ s.name = service.name
  PROVE  LET after == Save(service, id)
         IN  /\ \A s, t \in after : s.name = t.name => s = t
             /\ \A s, t \in after : s.id = t.id => s = t
             /\ \A s \in after : s.id # None
             /\ \E s \in after : s.id = id /\ s.name = service.name
  <1> DEFINE saved == [service EXCEPT !.id = id]
             rest  == {s \in services : s.id # id}
  <1>1. id \in ServiceIds \union {None}
    BY IdsType
  <1>2. saved.name = service.name /\ saved.id = id
    BY <1>1, SaveType
  <1>3. Save(service, id) = rest \union {saved}
    BY DEF Save
  <1>4. id # None /\ \A s \in rest : s.name # service.name
    <2>1. CASE service.id = None
      <3>1. id \in ServiceIds
        BY <2>1 DEF IdsFor
      <3>2. \A s \in services : s.name # service.name
        BY <2>1 DEF Matches
      <3> QED BY <3>1, <3>2, AbsentAssumption
    <2>2. CASE service.id # None
      <3>1. id = service.id
        BY <2>2 DEF IdsFor
      <3>2. PICK e \in services : e.id = service.id /\ e.name = service.name
        BY <2>2
      <3>3. \A s \in rest : s # e
        BY <3>1, <3>2
      <3> QED BY <2>2, <3>1, <3>2, <3>3 DEF UniqueInv, UniqueService
    <2> QED BY <2>1, <2>2
  <1>5. /\ \A s, t \in rest : s.name = t.name => s = t
        /\ \A s, t \in rest : s.id = t.id => s = t
        /\ \A s \in rest : s.id # None
    BY DEF UniqueInv, UniqueService
  <1>6. \A s \in rest : s.id # id
    OBVIOUS
  <1> HIDE DEF saved, rest
  <1> QED BY <1>2, <1>3, <1>4, <1>5, <1>6

\* Removing the one service of a name leaves none.
LEMMA RemovedUnique ==
  ASSUME UniqueInv, NEW id, NEW consumer,
         \E s \in services : s.id = id /\ s.name = consumer
  PROVE  /\ Removed(id) \subseteq services
         /\ \A s \in Removed(id) : s.name # consumer
  BY DEF UniqueInv, UniqueService, Removed

LEMMA UniqueInvStep ==
  ASSUME OneOperator, LateWrites = FALSE, CASInv, UniqueInv, [CASNext]_casVars
  PROVE  UniqueInv'
  <1>1. services \subseteq Services /\ call \in [Operators -> Calls]
    BY DEF CASInv, CASTypeOK
  <1>2. ASSUME services' = services, late' = late,
               \A o \in Operators : StageOK(call'[o])
        PROVE  UniqueInv'
    BY <1>2 DEF UniqueInv, UniqueService, StageOK, Matches
  <1>3. ASSUME NEW o \in Operators, NEW c, call' = [call EXCEPT ![o] = c]
        PROVE  \A p \in Operators : call'[p] = c
    BY <1>1, <1>3 DEF OneOperator
  <1>4. StageOK(NoCall) /\ StageOK([NoCall EXCEPT !.at = "failed"])
    BY DEF StageOK, NoCall
  <1>6. ASSUME NEW o \in Operators, NEW reg \in Registrations,
               NEW known \in ClientSecrets \union {None}, CallUpsert(o, reg, known)
        PROVE  UniqueInv'
    <2> DEFINE c == [NoCall EXCEPT !.at = "upsert", !.reg = reg, !.known = known]
    <2>1. StageOK(c)
      BY DEF StageOK, NoCall
    <2>2. call' = [call EXCEPT ![o] = c]
      BY <1>6 DEF CallUpsert
    <2> HIDE DEF c
    <2> QED BY <1>2, <1>3, <1>6, <2>1, <2>2 DEF CallUpsert
  <1>7. ASSUME NEW o \in Operators, NEW reg \in Registrations, CallDelete(o, reg)
        PROVE  UniqueInv'
    <2> DEFINE c == [NoCall EXCEPT !.at = "delete", !.reg = reg]
    <2>1. StageOK(c)
      BY DEF StageOK, NoCall
    <2>2. call' = [call EXCEPT ![o] = c]
      BY <1>7 DEF CallDelete
    <2> HIDE DEF c
    <2> QED BY <1>2, <1>3, <1>7, <2>1, <2>2 DEF CallDelete
  <1>8. ASSUME NEW o \in Operators, NEW drawn \in ClientSecrets, UpsertPrepare(o, drawn)
        PROVE  UniqueInv'
    <2> DEFINE reg      == call[o].reg
               existing == Existing(reg.consumer)
               secret   == resolveClientSecret(reg, call[o].known, drawn)
               payload  == BuildServicePayload(reg, existing, secret, fqdn)
               c        == [call[o] EXCEPT !.at = "write", !.known = None,
                                           !.secret = secret, !.service = payload]
    <2>1. call' = [call EXCEPT ![o] = c] /\ call[o] \in Calls
      BY <1>1, <1>8 DEF UpsertPrepare
    <2>2. c.at = "write" /\ c.reg = reg /\ c.service = payload
      BY <2>1 DEF Calls
    <2>3. payload.id = IF existing = None THEN None ELSE existing.id
      BY DEF BuildServicePayload
    <2>4. /\ existing = None <=> Matches(reg.consumer) = {}
          /\ existing # None => existing \in Matches(reg.consumer)
      BY <1>1, ExistingType
    <2> HIDE DEF c, payload, existing, reg
    <2>5. StageOK(c)
      BY <2>2, <2>3, <2>4 DEF StageOK, Matches, UniqueInv
    <2> QED BY <1>2, <1>3, <1>8, <2>1, <2>5 DEF UpsertPrepare
  <1>9. ASSUME NEW o \in Operators, UpsertWrite(o)
        PROVE  UniqueInv'
    <2>1. PICK id \in IdsFor(call[o].service) :
            /\ services' = Save(call[o].service, id)
            /\ call' = [call EXCEPT ![o] = [@ EXCEPT !.at = "result", !.service.id = id]]
      BY <1>9 DEF UpsertWrite
    <2> DEFINE c == [call[o] EXCEPT !.at = "result", !.service.id = id]
    <2>2. /\ call[o] \in Calls /\ CallOK(call[o]) /\ StageOK(call[o])
          /\ call[o].at = "write"
      BY <1>1, <1>9 DEF UpsertWrite, CASInv, UniqueInv
    <2>3. /\ call[o].service \in Services /\ call[o].service.name = call[o].reg.consumer
          /\ IF call[o].service.id = None
             THEN Matches(call[o].service.name) = {}
             ELSE \E s \in services : s.id = call[o].service.id
                                       /\ s.name = call[o].service.name
      BY <2>2 DEF CallOK, StageOK
    <2>4. /\ \A s, t \in services' : s.name = t.name => s = t
          /\ \A s, t \in services' : s.id = t.id => s = t
          /\ \A s \in services' : s.id # None
      BY <1>1, <2>1, <2>3, SaveUnique
    <2>5. call' = [call EXCEPT ![o] = c] /\ c.at = "result"
      BY <2>1, <2>2 DEF Calls
    <2> HIDE DEF c
    <2>6. \A p \in Operators : StageOK(call[p])'
      BY <1>3, <2>5 DEF StageOK
    <2>7. late' = None
      BY <1>9 DEF UpsertWrite, UniqueInv
    <2> QED BY <2>4, <2>6, <2>7 DEF UniqueInv, UniqueService
  <1>10. ASSUME NEW o \in Operators, UpsertWriteFails(o)
         PROVE  UniqueInv'
    <2>1. /\ CallOK(call[o]) /\ StageOK(call[o]) /\ call[o].at = "write"
          /\ call' = [call EXCEPT ![o] = [NoCall EXCEPT !.at = "failed"]]
          /\ late' = None
      BY <1>10 DEF UpsertWriteFails, Fails, CASInv, UniqueInv
    <2>2. \A p \in Operators : call'[p] = [NoCall EXCEPT !.at = "failed"]
      BY <1>3, <2>1
    <2>3. \A p \in Operators : StageOK(call[p])'
      BY <2>2 DEF StageOK, NoCall
    <2>4. CASE services' = services
      BY <2>1, <2>3, <2>4 DEF UniqueInv, UniqueService
    <2>5. CASE \E id \in IdsFor(call[o].service) : services' = Save(call[o].service, id)
      <3>1. /\ call[o].service \in Services /\ call[o].service.name = call[o].reg.consumer
            /\ IF call[o].service.id = None
               THEN Matches(call[o].service.name) = {}
               ELSE \E s \in services : s.id = call[o].service.id
                                         /\ s.name = call[o].service.name
        BY <2>1 DEF CallOK, StageOK
      <3>2. /\ \A s, t \in services' : s.name = t.name => s = t
            /\ \A s, t \in services' : s.id = t.id => s = t
            /\ \A s \in services' : s.id # None
        BY <1>1, <2>5, <3>1, SaveUnique
      <3> QED BY <2>1, <2>3, <3>2 DEF UniqueInv, UniqueService
    <2> QED BY <1>10, <2>4, <2>5 DEF UpsertWriteFails
  <1>11. ASSUME NEW o \in Operators, UpsertResult(o)
         PROVE  UniqueInv'
    <2> DEFINE result == BuildRegistrationResult(call[o].reg, call[o].service,
                                                 call[o].secret, fqdn)
               c == [NoCall EXCEPT !.at = "ok", !.reg = call[o].reg, !.result = result]
    <2>1. call[o] \in Calls /\ CallOK(call[o]) /\ call[o].at = "result" /\ fqdn \in Fqdns
      BY <1>1, <1>11 DEF UpsertResult, CASInv, CASTypeOK
    <2>2. result \in Credentials
      BY <2>1, ResultType DEF CallOK, Calls
    <2>3. c.at = "ok" /\ c.result # None
      <3> HIDE DEF result
      <3> QED BY <2>2, BackendAssumption DEF NoCall
    <2>4. call' = [call EXCEPT ![o] = c]
      BY <1>11 DEF UpsertResult
    <2> HIDE DEF c
    <2>5. StageOK(c)
      BY <2>3 DEF StageOK
    <2> QED BY <1>2, <1>3, <1>11, <2>4, <2>5 DEF UpsertResult
  <1>12. ASSUME NEW o \in Operators,
                UpsertRejected(o) \/ UpsertResultFails(o) \/ DeleteRejected(o)
         PROVE  UniqueInv'
    <2>1. services' = services /\ late' = late /\ Fails(o)
      BY <1>12 DEF UpsertRejected, UpsertResultFails, DeleteRejected
    <2> QED BY <1>2, <1>3, <1>4, <2>1 DEF Fails
  <1>13. ASSUME NEW o \in Operators, DeleteLookup(o)
         PROVE  UniqueInv'
    <2> DEFINE existing == Existing(call[o].reg.consumer)
               c == IF existing = None
                    THEN [NoCall EXCEPT !.at = "ok", !.reg = call[o].reg]
                    ELSE IF existing.id = None
                         THEN [NoCall EXCEPT !.at = "failed"]
                         ELSE [call[o] EXCEPT !.at = "remove", !.service = existing]
    <2>1. call' = [call EXCEPT ![o] = c] /\ call[o] \in Calls
      BY <1>1, <1>13 DEF DeleteLookup
    <2>2. /\ existing = None <=> Matches(call[o].reg.consumer) = {}
          /\ existing # None => existing \in Matches(call[o].reg.consumer)
      BY <1>1, ExistingType
    <2> HIDE DEF existing
    <2>3. ASSUME existing = None
          PROVE  StageOK(c)
      <3>1. c.at = "ok" /\ c.reg = call[o].reg
        BY <2>3 DEF NoCall
      <3> HIDE DEF c
      <3> QED BY <2>2, <2>3, <3>1 DEF StageOK
    <2>4. ASSUME existing # None, existing.id = None
          PROVE  StageOK(c)
      <3>1. c.at = "failed"
        BY <2>4 DEF NoCall
      <3> HIDE DEF c
      <3> QED BY <3>1 DEF StageOK
    <2>5. ASSUME existing # None, existing.id # None
          PROVE  StageOK(c)
      <3>1. c.at = "remove" /\ c.service = existing /\ c.reg = call[o].reg
        BY <2>1, <2>5 DEF Calls
      <3> HIDE DEF c
      <3> QED BY <2>2, <2>5, <3>1 DEF StageOK, Matches
    <2> HIDE DEF c
    <2>6. StageOK(c)
      BY <2>3, <2>4, <2>5
    <2>7. \A p \in Operators : call'[p] = c
      BY <1>3, <2>1
    <2> QED BY <1>2, <1>13, <2>6, <2>7 DEF DeleteLookup
  <1>14. ASSUME NEW o \in Operators, DeleteRemove(o)
         PROVE  UniqueInv'
    <2> DEFINE c == [NoCall EXCEPT !.at = "ok", !.reg = call[o].reg]
    <2>1. \E s \in services : s.id = call[o].service.id /\ s.name = call[o].reg.consumer
      BY <1>14 DEF DeleteRemove, UniqueInv, StageOK
    <2>2. /\ services' \subseteq services
          /\ \A s \in services' : s.name # call[o].reg.consumer
      BY <1>14, <2>1, RemovedUnique DEF DeleteRemove
    <2>3. c.at = "ok" /\ c.reg = call[o].reg
      BY DEF NoCall
    <2>4. call' = [call EXCEPT ![o] = c]
      BY <1>14 DEF DeleteRemove
    <2> HIDE DEF c
    <2>5. \A p \in Operators : call'[p] = c
      BY <1>3, <2>4
    <2>6. \A p \in Operators : StageOK(call[p])'
      BY <2>2, <2>3, <2>5 DEF StageOK, Matches
    <2> QED BY <1>14, <2>2, <2>6 DEF DeleteRemove, UniqueInv, UniqueService
  <1>15. ASSUME NEW o \in Operators, DeleteRemoveFails(o)
         PROVE  UniqueInv'
    <2>1. services' \subseteq services /\ late' = late
      BY <1>15 DEF DeleteRemoveFails, Removed
    <2>2. \A p \in Operators : call'[p] = [NoCall EXCEPT !.at = "failed"]
      BY <1>3, <1>15 DEF DeleteRemoveFails, Fails
    <2>3. \A p \in Operators : StageOK(call[p])'
      BY <2>2 DEF StageOK, NoCall
    <2> QED BY <2>1, <2>3 DEF UniqueInv, UniqueService
  <1>16. ASSUME NEW o \in Operators, Return(o) \/ Abandon(o)
         PROVE  UniqueInv'
    BY <1>2, <1>3, <1>4, <1>16 DEF Return, Abandon
  <1>17. CASE ApplyLate
    BY <1>17 DEF ApplyLate, UniqueInv
  <1>18. ASSUME NEW f \in Fqdns, SetFqdn(f)
         PROVE  UniqueInv'
    BY <1>2, <1>18 DEF SetFqdn, UniqueInv
  <1>19. CASE OtherFault
    BY <1>2, <1>19 DEF OtherFault, UniqueInv
  <1>20. CASE UNCHANGED casVars
    BY <1>2, <1>20 DEF casVars, UniqueInv
  <1> QED
    BY <1>6, <1>7, <1>8, <1>9, <1>10, <1>11, <1>12, <1>13, <1>14, <1>15, <1>16, <1>17,
       <1>18, <1>19, <1>20
    DEF CASNext, UpsertStep, DeleteStep

LEMMA UniqueInvInit == CASInit => UniqueInv
  BY DEF CASInit, UniqueInv, UniqueService, StageOK, NoCall

\* With one operator, no consumer ever gets a second CAS service, whatever
\* requests fail or lose their answer, and whenever calls are cut off and
\* retried: the search before every write is still valid when it is sent.
THEOREM ServicesUnique ==
  ASSUME OneOperator, LateWrites = FALSE
  PROVE  CASSpec => []UniqueService
  <1>1. CASInit => CASInv /\ UniqueInv
    BY CASInvInit, UniqueInvInit
  <1>2. CASInv /\ UniqueInv /\ [CASNext]_casVars => (CASInv /\ UniqueInv)'
    BY CASInvStep, UniqueInvStep
  <1>3. UniqueInv => UniqueService
    BY DEF UniqueInv
  <1> QED BY <1>1, <1>2, <1>3, PTL DEF CASSpec

-------------------------------------------------------------------------------
(***************************************************************************)
(* Usable credentials                                                      *)
(***************************************************************************)

\* The service is what the registration and the client secret ask for.
ServiceFits(service, reg, secret) ==
    /\ service.name = reg.consumer
    /\ service.protocol = reg.protocol
    /\ reg.protocol # "CAS" =>
        /\ service.hash = hashClientSecret(secret)
        /\ reg.clientId \in {None, service.clientID}

\* What a successful call has left behind in the registry.
ResultFits(reg, result) ==
    \E s \in Matches(reg.consumer) :
        /\ s.protocol = reg.protocol
        /\ s.protocol = "CAS" => result.id = s.name
        /\ s.protocol # "CAS" =>
            /\ s.clientID = result.id
            /\ s.hash = hashClientSecret(result.secret)
            /\ reg.clientId \in {None, s.clientID}

UsableOK(c) ==
    /\ c.at \in {"write", "result"} => ServiceFits(c.service, c.reg, c.secret)
    /\ c.at = "result" => c.service \in services
    /\ c.at = "ok" /\ c.result # None => ResultFits(c.reg, c.result)

\* A call that promises nothing about the registry.
Harmless(c) == c.at \notin {"write", "result"} /\ (c.at = "ok" => c.result = None)

UsableInv == late = None /\ \A o \in Operators : UsableOK(call[o])

LEMMA UsableInvStep ==
  ASSUME OneOperator, LateWrites = FALSE, CASInv, UsableInv, [CASNext]_casVars
  PROVE  UsableInv'
  <1>1. services \subseteq Services /\ call \in [Operators -> Calls]
    BY DEF CASInv, CASTypeOK
  <1>2. ASSUME NEW o \in Operators, NEW c, call' = [call EXCEPT ![o] = c]
        PROVE  \A p \in Operators : call'[p] = c
    BY <1>1, <1>2 DEF OneOperator
  <1>3. ASSUME services' = services, late' = late,
               \A o \in Operators : UsableOK(call'[o])
        PROVE  UsableInv'
    BY <1>3 DEF UsableInv, UsableOK, ResultFits, Matches
  <1>4. ASSUME NEW o \in Operators, NEW c, call' = [call EXCEPT ![o] = c],
               Harmless(c), late' = None
        PROVE  UsableInv'
    <2>1. \A p \in Operators : call'[p] = c
      BY <1>2, <1>4
    <2> QED BY <1>4, <2>1 DEF UsableInv, UsableOK, Harmless
  <1>5. late = None
    BY DEF UsableInv
  <1>6. ASSUME NEW o \in Operators, Fails(o), late' = None
        PROVE  UsableInv'
    <2> DEFINE c == [NoCall EXCEPT !.at = "failed"]
    <2>1. call' = [call EXCEPT ![o] = c] /\ Harmless(c)
      BY <1>6 DEF Fails, NoCall, Harmless
    <2> HIDE DEF c
    <2> QED BY <1>4, <1>6, <2>1
  <1>7. ASSUME NEW o \in Operators, NEW reg \in Registrations,
               NEW known \in ClientSecrets \union {None}, CallUpsert(o, reg, known)
        PROVE  UsableInv'
    <2> DEFINE c == [NoCall EXCEPT !.at = "upsert", !.reg = reg, !.known = known]
    <2>1. call' = [call EXCEPT ![o] = c] /\ Harmless(c) /\ late' = None
      BY <1>5, <1>7 DEF CallUpsert, NoCall, Harmless
    <2> HIDE DEF c
    <2> QED BY <1>4, <2>1
  <1>8. ASSUME NEW o \in Operators, NEW reg \in Registrations, CallDelete(o, reg)
        PROVE  UsableInv'
    <2> DEFINE c == [NoCall EXCEPT !.at = "delete", !.reg = reg]
    <2>1. call' = [call EXCEPT ![o] = c] /\ Harmless(c) /\ late' = None
      BY <1>5, <1>8 DEF CallDelete, NoCall, Harmless
    <2> HIDE DEF c
    <2> QED BY <1>4, <2>1
  <1>9. ASSUME NEW o \in Operators, NEW drawn \in ClientSecrets, UpsertPrepare(o, drawn)
        PROVE  UsableInv'
    <2> DEFINE reg     == call[o].reg
               secret  == resolveClientSecret(reg, call[o].known, drawn)
               payload == BuildServicePayload(reg, Existing(reg.consumer), secret, fqdn)
               c       == [call[o] EXCEPT !.at = "write", !.known = None,
                                          !.secret = secret, !.service = payload]
    <2>1. call' = [call EXCEPT ![o] = c] /\ call[o] \in Calls
      BY <1>1, <1>9 DEF UpsertPrepare
    <2>2. c.at = "write" /\ c.reg = reg /\ c.service = payload /\ c.secret = secret
      BY <2>1 DEF Calls
    <2>3. ServiceFits(payload, reg, secret)
      BY DEF ServiceFits, BuildServicePayload, resolveClientID
    <2> HIDE DEF c, payload, secret, reg
    <2>4. UsableOK(c)
      BY <2>2, <2>3 DEF UsableOK
    <2>5. \A p \in Operators : call'[p] = c
      BY <1>2, <2>1
    <2> QED BY <1>3, <1>9, <2>4, <2>5 DEF UpsertPrepare
  <1>10. ASSUME NEW o \in Operators, UpsertWrite(o)
         PROVE  UsableInv'
    <2>1. PICK id \in IdsFor(call[o].service) :
            /\ services' = Save(call[o].service, id)
            /\ call' = [call EXCEPT ![o] = [@ EXCEPT !.at = "result", !.service.id = id]]
      BY <1>10 DEF UpsertWrite
    <2> DEFINE saved == [call[o].service EXCEPT !.id = id]
               c     == [call[o] EXCEPT !.at = "result", !.service.id = id]
    <2>2. /\ call[o] \in Calls /\ call[o].at = "write"
          /\ call[o].service \in Services
          /\ ServiceFits(call[o].service, call[o].reg, call[o].secret)
      BY <1>1, <1>10 DEF UpsertWrite, CASInv, CallOK, UsableInv, UsableOK
    <2>3. /\ call' = [call EXCEPT ![o] = c] /\ c.at = "result" /\ c.service = saved
          /\ c.reg = call[o].reg /\ c.secret = call[o].secret
      BY <2>1, <2>2 DEF Calls
    <2>4. saved \in services' /\ ServiceFits(saved, call[o].reg, call[o].secret)
      BY <2>1, <2>2 DEF Save, ServiceFits, Services
    <2>5. late' = None
      BY <1>5, <1>10 DEF UpsertWrite
    <2> HIDE DEF c, saved
    <2>6. \A p \in Operators : call'[p] = c
      BY <1>2, <2>3
    <2> QED BY <2>3, <2>4, <2>5, <2>6 DEF UsableInv, UsableOK
  <1>11. ASSUME NEW o \in Operators, UpsertResult(o)
         PROVE  UsableInv'
    <2> DEFINE reg     == call[o].reg
               service == call[o].service
               result  == BuildRegistrationResult(reg, service, call[o].secret, fqdn)
               c       == [NoCall EXCEPT !.at = "ok", !.reg = reg, !.result = result]
    <2>1. /\ call[o].at = "result" /\ service \in services
          /\ ServiceFits(service, reg, call[o].secret)
      BY <1>11 DEF UpsertResult, UsableInv, UsableOK
    <2>2. call' = [call EXCEPT ![o] = c] /\ c.at = "ok" /\ c.reg = reg /\ c.result = result
      BY <1>11 DEF UpsertResult, NoCall
    <2>3. /\ reg.protocol = "CAS" => result.id = service.name
          /\ reg.protocol # "CAS" => result.id = service.clientID /\ result.secret = call[o].secret
      BY DEF BuildRegistrationResult
    <2>4. ResultFits(reg, result)
      <3> HIDE DEF result
      <3>1. service \in Matches(reg.consumer)
        BY <2>1 DEF Matches, ServiceFits
      <3> QED BY <2>1, <2>3, <3>1 DEF ResultFits, ServiceFits
    <2> HIDE DEF c, result, service, reg
    <2>5. UsableOK(c)
      BY <2>2, <2>4 DEF UsableOK
    <2>6. \A p \in Operators : call'[p] = c
      BY <1>2, <2>2
    <2> QED BY <1>3, <1>11, <2>5, <2>6 DEF UpsertResult
  <1>12. ASSUME NEW o \in Operators,
                \/ UpsertRejected(o) \/ UpsertWriteFails(o) \/ UpsertResultFails(o)
                \/ DeleteRejected(o) \/ DeleteRemoveFails(o)
         PROVE  UsableInv'
    BY <1>5, <1>6, <1>12
    DEF UpsertRejected, UpsertWriteFails, UpsertResultFails, DeleteRejected, DeleteRemoveFails
  <1>13. ASSUME NEW o \in Operators, DeleteLookup(o)
         PROVE  UsableInv'
    <2> DEFINE existing == Existing(call[o].reg.consumer)
               c == IF existing = None
                    THEN [NoCall EXCEPT !.at = "ok", !.reg = call[o].reg]
                    ELSE IF existing.id = None
                         THEN [NoCall EXCEPT !.at = "failed"]
                         ELSE [call[o] EXCEPT !.at = "remove", !.service = existing]
    <2>1. call' = [call EXCEPT ![o] = c] /\ call[o] \in Calls /\ late' = None
      BY <1>1, <1>5, <1>13 DEF DeleteLookup
    <2>2. Harmless(c)
      <3> HIDE DEF existing
      <3>1. CASE existing = None
        BY <3>1 DEF NoCall, Harmless
      <3>2. CASE existing # None /\ existing.id = None
        BY <3>2 DEF NoCall, Harmless
      <3>3. CASE existing # None /\ existing.id # None
        BY <2>1, <3>3 DEF Calls, Harmless
      <3> QED BY <3>1, <3>2, <3>3
    <2> HIDE DEF c
    <2> QED BY <1>4, <2>1, <2>2
  <1>14. ASSUME NEW o \in Operators, DeleteRemove(o)
         PROVE  UsableInv'
    <2> DEFINE c == [NoCall EXCEPT !.at = "ok", !.reg = call[o].reg]
    <2>1. /\ call' = [call EXCEPT ![o] = c] /\ late' = None
          /\ Harmless(c)
      BY <1>5, <1>14 DEF DeleteRemove, NoCall, Harmless
    <2> HIDE DEF c
    <2> QED BY <1>4, <2>1
  <1>15. ASSUME NEW o \in Operators, Return(o) \/ Abandon(o)
         PROVE  UsableInv'
    <2>1. call' = [call EXCEPT ![o] = NoCall] /\ late' = None /\ Harmless(NoCall)
      BY <1>5, <1>15 DEF Return, Abandon, NoCall, Harmless
    <2> QED BY <1>4, <2>1
  <1>16. CASE ApplyLate
    BY <1>5, <1>16 DEF ApplyLate
  <1>17. CASE (\E f \in Fqdns : SetFqdn(f)) \/ OtherFault \/ UNCHANGED casVars
    BY <1>3, <1>17 DEF SetFqdn, OtherFault, casVars, UsableInv
  <1> QED
    BY <1>7, <1>8, <1>9, <1>10, <1>11, <1>12, <1>13, <1>14, <1>15, <1>16, <1>17
    DEF CASNext, UpsertStep, DeleteStep

LEMMA UsableInvInit == CASInit => UsableInv
  BY DEF CASInit, UsableInv, UsableOK, NoCall

\* With one operator, what a successful Upsert returns is what CAS accepts:
\* nothing has come between its write and its answer.
THEOREM ResultsUsable ==
  ASSUME OneOperator, LateWrites = FALSE
  PROVE  CASSpec => []ResultUsable
  <1>1. CASInit => CASInv /\ UsableInv
    BY CASInvInit, UsableInvInit
  <1>2. CASInv /\ UsableInv /\ [CASNext]_casVars => (CASInv /\ UsableInv)'
    BY CASInvStep, UsableInvStep
  <1>3. UsableInv => ResultUsable
    BY DEF UsableInv, UsableOK, ResultFits, ResultUsable
  <1> QED BY <1>1, <1>2, <1>3, PTL DEF CASSpec

-------------------------------------------------------------------------------
(***************************************************************************)
(* Numeric ids                                                             *)
(***************************************************************************)

\* Whatever bears an id that CAS may still be asked to write under: registered
\* services, the service a call works on, and a late write.
Bearers ==
    (services \union {call[o].service : o \in Operators} \union {late}) \ {None}

\* All bearers of an id carry one name.  The registry alone is not enough: a
\* write in flight brings its name back after the service has been removed.
IdInv ==
    /\ \A a, b \in Bearers : (a.id # None /\ a.id = b.id) => a.name = b.name
    /\ \A s \in services : s.id # None

IdStep == \A s \in services, t \in services' : s.id = t.id => s.name = t.name

\* b has no id, an id and a name that go together, or those of a bearer.
Accounted(b, id, name) ==
    \/ b.id = None
    \/ b.id = id /\ b.name = name
    \/ \E a \in Bearers : a.id = b.id /\ a.name = b.name

LEMMA ServicesBear ==
  ASSUME services \subseteq Services
  PROVE  services \subseteq Bearers
  BY BackendAssumption DEF Bearers

LEMMA IdSpread ==
  ASSUME IdInv, services \subseteq Bearers, (services \subseteq Bearers)',
         NEW id, NEW name,
         \A a \in Bearers : a.id = id => a.name = name,
         \A b \in Bearers' : Accounted(b, id, name),
         \A s \in services' : s.id # None
  PROVE  IdInv' /\ IdStep
  <1>1. \A a \in Bearers, b \in Bearers' : (b.id # None /\ a.id = b.id) => a.name = b.name
    BY DEF IdInv, Accounted
  <1>2. \A a, b \in Bearers' : (a.id # None /\ a.id = b.id) => a.name = b.name
    <2> SUFFICES ASSUME NEW a \in Bearers', NEW b \in Bearers', a.id # None, a.id = b.id
                 PROVE  a.name = b.name
      OBVIOUS
    <2>1. CASE \E c \in Bearers : c.id = a.id /\ c.name = a.name
      BY <1>1, <2>1
    <2>2. CASE \E c \in Bearers : c.id = b.id /\ c.name = b.name
      BY <1>1, <2>2
    <2>3. CASE a.id = id /\ a.name = name /\ b.id = id /\ b.name = name
      BY <2>3
    <2> QED BY <2>1, <2>2, <2>3 DEF Accounted
  <1>3. IdStep
    BY <1>1 DEF IdStep
  <1> QED BY <1>2, <1>3 DEF IdInv

\* A step that brings nothing new.
LEMMA IdShrink ==
  ASSUME IdInv, services \subseteq Bearers, services' \subseteq services,
         Bearers' \subseteq Bearers
  PROVE  IdInv' /\ IdStep
  BY DEF IdInv, IdStep

\* CAS saves a bearer: an assigned id was borne by nobody, a given one keeps
\* its name.
LEMMA IdSave ==
  ASSUME IdInv, services \subseteq Services, (services \subseteq Bearers)',
         NEW service \in Bearers, service \in Services, NEW id \in IdsFor(service),
         services' = Save(service, id),
         \A b \in Bearers' \ services' :
            b \in Bearers \/ b = [service EXCEPT !.id = id]
  PROVE  IdInv' /\ IdStep
  <1> DEFINE saved == [service EXCEPT !.id = id]
  <1>1. services \subseteq Bearers
    BY ServicesBear
  <1>2. saved.id = id /\ saved.name = service.name
    BY SaveType, IdsType
  <1>3. services' = {s \in services : s.id # id} \union {saved}
    BY DEF Save
  <1>4. id # None /\ \A a \in Bearers : a.id = id => a.name = service.name
    <2>1. CASE service.id # None
      <3>1. id = service.id
        BY <2>1 DEF IdsFor
      <3> QED BY <2>1, <3>1 DEF IdInv
    <2>2. CASE service.id = None
      <3>1. id \in ServiceIds \ UsedIds
        BY <2>2 DEF IdsFor
      <3>2. \A a \in Bearers : a.id \in UsedIds
        BY DEF Bearers, UsedIds
      <3> QED BY <3>1, <3>2, AbsentAssumption
    <2> QED BY <2>1, <2>2
  <1> HIDE DEF saved
  <1>5. \A b \in Bearers' : Accounted(b, id, service.name)
    <2> SUFFICES ASSUME NEW b \in Bearers' PROVE Accounted(b, id, service.name)
      OBVIOUS
    <2>1. b \in Bearers \/ b = saved
      BY <1>1, <1>3 DEF saved
    <2> QED BY <1>2, <2>1 DEF Accounted
  <1>6. \A s \in services' : s.id # None
    BY <1>2, <1>3, <1>4 DEF IdInv
  <1> QED BY <1>1, <1>4, <1>5, <1>6, IdSpread

\* One case per action; what an action adds to the bearers decides.
LEMMA IdInvStep ==
  ASSUME CASInv, CASInv', IdInv, [CASNext]_casVars
  PROVE  IdInv' /\ IdStep
  <1>1. services \subseteq Services /\ call \in [Operators -> Calls]
    BY DEF CASInv, CASTypeOK
  <1>2. services \subseteq Bearers /\ (services \subseteq Bearers)'
    <2>1. services' \subseteq Services
      BY DEF CASInv, CASTypeOK
    <2> QED BY <1>1, <2>1, BackendAssumption DEF Bearers
  <1>3. ASSUME NEW o \in Operators, NEW c, call' = [call EXCEPT ![o] = c],
               services' \subseteq services,
               c.service \in Bearers \union {None},
               late' \in Bearers \union {None}
        PROVE  IdInv' /\ IdStep
    <2>1. \A p \in Operators : call'[p].service \in Bearers \union {None}
      BY <1>1, <1>3 DEF Bearers
    <2>2. Bearers' \subseteq Bearers
      BY <1>2, <1>3, <2>1 DEF Bearers
    <2> QED BY <1>2, <1>3, <2>2, IdShrink
  <1>4. late \in Bearers \union {None}
    BY DEF Bearers
  <1>5. \A o \in Operators : call[o].service \in Bearers \union {None}
    BY DEF Bearers
  <1>6. NoCall.service = None
    BY DEF NoCall
  <1>7. ASSUME NEW o \in Operators, Fails(o), services' \subseteq services,
               late' \in Bearers \union {None}
        PROVE  IdInv' /\ IdStep
    <2> DEFINE c == [NoCall EXCEPT !.at = "failed"]
    <2>1. call' = [call EXCEPT ![o] = c] /\ c.service = None
      BY <1>7 DEF Fails, NoCall
    <2> HIDE DEF c
    <2> QED BY <1>3, <1>7, <2>1
  <1>8. ASSUME NEW o \in Operators, NEW reg \in Registrations,
               NEW known \in ClientSecrets \union {None}, CallUpsert(o, reg, known)
        PROVE  IdInv' /\ IdStep
    <2> DEFINE c == [NoCall EXCEPT !.at = "upsert", !.reg = reg, !.known = known]
    <2>1. call' = [call EXCEPT ![o] = c] /\ c.service = None
      BY <1>8 DEF CallUpsert, NoCall
    <2> HIDE DEF c
    <2> QED BY <1>3, <1>4, <1>8, <2>1 DEF CallUpsert
  <1>9. ASSUME NEW o \in Operators, NEW reg \in Registrations, CallDelete(o, reg)
        PROVE  IdInv' /\ IdStep
    <2> DEFINE c == [NoCall EXCEPT !.at = "delete", !.reg = reg]
    <2>1. call' = [call EXCEPT ![o] = c] /\ c.service = None
      BY <1>9 DEF CallDelete, NoCall
    <2> HIDE DEF c
    <2> QED BY <1>3, <1>4, <1>9, <2>1 DEF CallDelete
  <1>10. ASSUME NEW o \in Operators, NEW drawn \in ClientSecrets, UpsertPrepare(o, drawn)
         PROVE  IdInv' /\ IdStep
    <2> DEFINE reg      == call[o].reg
               existing == Existing(reg.consumer)
               secret   == resolveClientSecret(reg, call[o].known, drawn)
               payload  == BuildServicePayload(reg, existing, secret, fqdn)
               c        == [call[o] EXCEPT !.at = "write", !.known = None,
                                           !.secret = secret, !.service = payload]
    <2>1. call' = [call EXCEPT ![o] = c] /\ call[o] \in Calls
      BY <1>1, <1>10 DEF UpsertPrepare
    <2>2. c.service = payload
      BY <2>1 DEF Calls
    <2>3. payload.name = reg.consumer
          /\ payload.id = IF existing = None THEN None ELSE existing.id
      BY DEF BuildServicePayload
    <2>4. existing # None => existing \in services /\ existing.name = reg.consumer
      BY <1>1, ExistingType DEF Matches
    <2> HIDE DEF c, payload, secret, existing, reg
    <2>5. Accounted(payload, None, None)
      BY <1>2, <2>3, <2>4 DEF Accounted
    <2>6. services' = services /\ late' = late
      BY <1>10 DEF UpsertPrepare
    <2>7. \A b \in Bearers' : b \in Bearers \/ b = payload
      BY <1>1, <2>1, <2>2, <2>6 DEF Bearers
    <2>8. \A b \in Bearers : Accounted(b, None, None)
      BY DEF Accounted
    <2>9. \A b \in Bearers' : Accounted(b, None, None)
      BY <2>5, <2>7, <2>8
    <2>10. \A a, b \in Bearers' : (a.id # None /\ a.id = b.id) => a.name = b.name
      BY <2>9 DEF Accounted, IdInv
    <2>11. IdStep
      BY <1>2, <2>6 DEF IdInv, IdStep
    <2> QED BY <2>6, <2>10, <2>11 DEF IdInv
  <1>11. ASSUME NEW o \in Operators, UpsertWrite(o)
         PROVE  IdInv' /\ IdStep
    <2>1. PICK id \in IdsFor(call[o].service) :
            /\ services' = Save(call[o].service, id)
            /\ call' = [call EXCEPT ![o] = [@ EXCEPT !.at = "result", !.service.id = id]]
      BY <1>11 DEF UpsertWrite
    <2> DEFINE saved == [call[o].service EXCEPT !.id = id]
               c     == [call[o] EXCEPT !.at = "result", !.service.id = id]
    <2>2. call[o] \in Calls /\ call[o].service \in Services
      BY <1>1, <1>11 DEF UpsertWrite, CASInv, CallOK
    <2>3. call[o].service \in Bearers
      BY <1>5, <2>2, BackendAssumption
    <2>4. call' = [call EXCEPT ![o] = c] /\ c.service = saved
      BY <2>1, <2>2 DEF Calls
    <2>5. late' = late
      BY <1>11 DEF UpsertWrite
    <2> HIDE DEF c
    <2>6. \A b \in Bearers' \ services' : b \in Bearers \/ b = saved
      <3> HIDE DEF saved
      <3> QED BY <1>1, <2>4, <2>5 DEF Bearers
    <2> QED BY <1>1, <1>2, <2>1, <2>2, <2>3, <2>6, IdSave
  <1>12. ASSUME NEW o \in Operators, UpsertWriteFails(o)
         PROVE  IdInv' /\ IdStep
    <2>1. CASE services' = services /\ late' \in {late, call[o].service}
      BY <1>4, <1>5, <1>7, <1>12, <2>1 DEF UpsertWriteFails
    <2>2. ASSUME NEW id \in IdsFor(call[o].service),
                 services' = Save(call[o].service, id), late' = late
          PROVE  IdInv' /\ IdStep
      <3>1. call[o].service \in Services
        BY <1>12 DEF UpsertWriteFails, CASInv, CallOK
      <3>2. call[o].service \in Bearers
        BY <1>5, <3>1, BackendAssumption
      <3> DEFINE c == [NoCall EXCEPT !.at = "failed"]
      <3>3. call' = [call EXCEPT ![o] = c] /\ c.service = None
        BY <1>12 DEF UpsertWriteFails, Fails, NoCall
      <3> HIDE DEF c
      <3>4. \A b \in Bearers' \ services' : b \in Bearers
        BY <1>1, <2>2, <3>3 DEF Bearers
      <3> QED BY <1>1, <1>2, <2>2, <3>1, <3>2, <3>4, IdSave
    <2> QED BY <1>12, <2>1, <2>2 DEF UpsertWriteFails
  <1>13. ASSUME NEW o \in Operators, UpsertResult(o)
         PROVE  IdInv' /\ IdStep
    <2> DEFINE c == [NoCall EXCEPT !.at = "ok", !.reg = call[o].reg,
                        !.result = BuildRegistrationResult(call[o].reg, call[o].service,
                                                           call[o].secret, fqdn)]
    <2>1. call' = [call EXCEPT ![o] = c] /\ c.service = None
      BY <1>13 DEF UpsertResult, NoCall
    <2> HIDE DEF c
    <2> QED BY <1>3, <1>4, <1>13, <2>1 DEF UpsertResult
  <1>14. ASSUME NEW o \in Operators,
                UpsertRejected(o) \/ UpsertResultFails(o) \/ DeleteRejected(o)
         PROVE  IdInv' /\ IdStep
    BY <1>4, <1>7, <1>14 DEF UpsertRejected, UpsertResultFails, DeleteRejected
  <1>15. ASSUME NEW o \in Operators, DeleteLookup(o)
         PROVE  IdInv' /\ IdStep
    <2> DEFINE existing == Existing(call[o].reg.consumer)
               c == IF existing = None
                    THEN [NoCall EXCEPT !.at = "ok", !.reg = call[o].reg]
                    ELSE IF existing.id = None
                         THEN [NoCall EXCEPT !.at = "failed"]
                         ELSE [call[o] EXCEPT !.at = "remove", !.service = existing]
    <2>1. call' = [call EXCEPT ![o] = c] /\ call[o] \in Calls
      BY <1>1, <1>15 DEF DeleteLookup
    <2>2. existing \in services \union {None}
      BY <1>1, ExistingType DEF Matches
    <2>3. c.service \in {None, existing}
      <3> HIDE DEF existing
      <3> QED BY <2>1 DEF NoCall, Calls
    <2>4. services' = services /\ late' = late
      BY <1>15 DEF DeleteLookup
    <2> HIDE DEF c, existing
    <2> QED BY <1>2, <1>3, <1>4, <2>1, <2>2, <2>3, <2>4
  <1>16. ASSUME NEW o \in Operators, DeleteRemove(o)
         PROVE  IdInv' /\ IdStep
    <2> DEFINE c == [NoCall EXCEPT !.at = "ok", !.reg = call[o].reg]
    <2>1. call' = [call EXCEPT ![o] = c] /\ c.service = None
      BY <1>16 DEF DeleteRemove, NoCall
    <2> HIDE DEF c
    <2> QED BY <1>3, <1>4, <1>16, <2>1 DEF DeleteRemove, Removed
  <1>17. ASSUME NEW o \in Operators, DeleteRemoveFails(o)
         PROVE  IdInv' /\ IdStep
    BY <1>4, <1>7, <1>17 DEF DeleteRemoveFails, Removed
  <1>18. ASSUME NEW o \in Operators, Return(o) \/ Abandon(o)
         PROVE  IdInv' /\ IdStep
    BY <1>3, <1>4, <1>5, <1>6, <1>18 DEF Return, Abandon
  <1>19. CASE ApplyLate
    <2>1. PICK id \in IdsFor(late) : services' = Save(late, id)
      BY <1>19 DEF ApplyLate
    <2>2. late \in Services /\ late \in Bearers
      BY <1>4, <1>19 DEF ApplyLate, CASInv, CASTypeOK
    <2>3. \A b \in Bearers' \ services' : b \in Bearers
      BY <1>19 DEF ApplyLate, Bearers
    <2> QED BY <1>1, <1>2, <2>1, <2>2, <2>3, IdSave
  <1>20. CASE (\E f \in Fqdns : SetFqdn(f)) \/ OtherFault \/ UNCHANGED casVars
    <2>1. UNCHANGED <<services, late, call>>
      BY <1>20 DEF SetFqdn, OtherFault, casVars
    <2> QED BY <1>2, <2>1, IdShrink DEF Bearers
  <1> QED
    BY <1>8, <1>9, <1>10, <1>11, <1>12, <1>13, <1>14, <1>15, <1>16, <1>17, <1>18,
       <1>19, <1>20
    DEF CASNext, UpsertStep, DeleteStep

LEMMA IdInvInit == CASInit => IdInv
  BY DEF CASInit, IdInv, Bearers, NoCall

\* A numeric id never passes from one consumer to another, for any number of
\* operators and whatever writes overtake each other or arrive late: the id a
\* PUT or DELETE is addressed to was found under the consumer's own name, and
\* CAS hands out no id that is still in somebody's hands.
THEOREM IdsKeepConsumer == CASSpec => IdKeepsConsumer
  <1>1. CASInit => CASInv /\ IdInv
    BY CASInvInit, IdInvInit
  <1>2. CASInv /\ IdInv /\ [CASNext]_casVars => (CASInv /\ IdInv)' /\ IdStep
    BY CASInvStep, IdInvStep
  <1>3. IdStep => [\A s \in services, t \in services' : s.id = t.id => s.name = t.name]_casVars
    BY DEF IdStep
  <1> QED BY <1>1, <1>2, <1>3, PTL DEF CASSpec, IdKeepsConsumer

\* What WritesOwnService says of a step.
OwnStep ==
    \A s \in services \ services' :
        \E o \in Operators :
            /\ call[o].at \in {"write", "remove"}
            /\ call[o].reg.consumer = s.name

OwnInv == CASInv /\ IdInv /\ late = None

\* Only a save and a removal take a service out of the registry, and the id they
\* are addressed to belongs to the consumer of the call.
LEMMA OwnInvStep ==
  ASSUME LateWrites = FALSE, CASInv, IdInv, late = None, [CASNext]_casVars
  PROVE  OwnStep /\ (late = None)'
  <1>1. services \subseteq Services /\ call \in [Operators -> Calls]
    BY DEF CASInv, CASTypeOK
  <1>2. services \subseteq Bearers
    BY <1>1, ServicesBear
  <1>3. ASSUME NEW o \in Operators, call[o].service \in Services,
               NEW s \in services, s.id = call[o].service.id
        PROVE  s.name = call[o].service.name
    <2>1. call[o].service \in Bearers
      BY <1>3, BackendAssumption DEF Bearers
    <2> QED BY <1>2, <1>3, <2>1 DEF IdInv
  <1>4. ASSUME NEW o \in Operators, call[o].at = "write",
               NEW id \in IdsFor(call[o].service), services' = Save(call[o].service, id)
        PROVE  OwnStep
    <2> DEFINE service == call[o].service
    <2>1. service \in Services /\ service.name = call[o].reg.consumer
      BY <1>4 DEF CASInv, CallOK
    <2>2. \A s \in services \ services' : s.id = id
      BY <1>4 DEF Save
    <2>3. ASSUME service.id = None
          PROVE  \A s \in services : s.id # id
      <3>1. id \notin UsedIds
        BY <2>3 DEF IdsFor
      <3> QED BY <3>1 DEF UsedIds
    <2>4. ASSUME service.id # None
          PROVE  id = service.id
      BY <2>4 DEF IdsFor
    <2> QED BY <1>3, <1>4, <2>1, <2>2, <2>3, <2>4 DEF OwnStep
  <1>5. ASSUME NEW o \in Operators, call[o].at = "remove",
               services' = Removed(call[o].service.id)
        PROVE  OwnStep
    <2>1. call[o].service \in Services /\ call[o].service.name = call[o].reg.consumer
      BY <1>5 DEF CASInv, CallOK
    <2>2. \A s \in services \ services' : s.id = call[o].service.id
      BY <1>5 DEF Removed
    <2> QED BY <1>3, <1>5, <2>1, <2>2 DEF OwnStep
  <1>6. ASSUME services' = services
        PROVE  OwnStep
    BY <1>6 DEF OwnStep
  <1>7. ASSUME NEW o \in Operators, UpsertStep(o)
        PROVE  OwnStep /\ late' = None
    <2>1. CASE UpsertWrite(o)
      BY <1>4, <2>1 DEF UpsertWrite
    <2>2. CASE UpsertWriteFails(o)
      BY <1>4, <1>6, <2>2 DEF UpsertWriteFails
    <2>3. CASE ~(UpsertWrite(o) \/ UpsertWriteFails(o))
      BY <1>6, <1>7, <2>3
      DEF UpsertStep, UpsertPrepare, UpsertRejected, UpsertResult, UpsertResultFails
    <2> QED BY <2>1, <2>2, <2>3
  <1>8. ASSUME NEW o \in Operators, DeleteStep(o)
        PROVE  OwnStep /\ late' = None
    BY <1>5, <1>6, <1>8
    DEF DeleteStep, DeleteLookup, DeleteRejected, DeleteRemove, DeleteRemoveFails
  <1>9. CASE \E o \in Operators :
                \/ \E reg \in Registrations, known \in ClientSecrets \union {None} :
                        CallUpsert(o, reg, known)
                \/ \E reg \in Registrations : CallDelete(o, reg)
                \/ Return(o)
                \/ Abandon(o)
    BY <1>6, <1>9 DEF CallUpsert, CallDelete, Return, Abandon
  <1>10. CASE ApplyLate
    BY <1>10 DEF ApplyLate
  <1>11. CASE (\E f \in Fqdns : SetFqdn(f)) \/ OtherFault \/ UNCHANGED casVars
    BY <1>6, <1>11 DEF SetFqdn, OtherFault, casVars
  <1> QED BY <1>7, <1>8, <1>9, <1>10, <1>11 DEF CASNext

\* However many operators share the registry, a step changes or removes only a
\* service of the consumer its call is for: between the search that found the id
\* and the PUT or DELETE addressed to it, the id has not gone to anybody else.
THEOREM WritesStayOwn ==
  ASSUME LateWrites = FALSE
  PROVE  CASSpec => WritesOwnService
  <1>1. CASInit => OwnInv
    BY CASInvInit, IdInvInit DEF CASInit, OwnInv
  <1>2. OwnInv /\ [CASNext]_casVars => OwnInv' /\ OwnStep
    BY CASInvStep, IdInvStep, OwnInvStep DEF OwnInv
  <1>3. OwnStep => [\A s \in services \ services' :
                        \E o \in Operators :
                            /\ call[o].at \in {"write", "remove"}
                            /\ call[o].reg.consumer = s.name]_casVars
    BY DEF OwnStep
  <1> QED BY <1>1, <1>2, <1>3, PTL DEF CASSpec, WritesOwnService

================================================================================
