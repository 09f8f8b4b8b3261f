------------------------------ MODULE CASBackend ------------------------------
(***************************************************************************)
(* CASServiceRegistrationBackend on top of the REST client: Upsert and     *)
(* Delete as the sequences of HTTP requests they are, and the CAS service  *)
(* registry (external) they act on.                                        *)
(*                                                                         *)
(* A request can fail without effect, or take effect and lose its answer.  *)
(* With LateWrites a POST or PUT whose client has given up, or has ended,  *)
(* may also be carried out by CAS later (one such write at a time).        *)
(***************************************************************************)
EXTENDS AuthRegistrations

CONSTANTS
    Operators,        \* running operator processes; each has one worker
    LateWrites,       \* may a timed-out write still be in flight?
    MaxFaults         \* bound: failing requests in one behaviour

ASSUME BackendAssumption ==
    /\ LateWrites \in BOOLEAN
    /\ MaxFaults \in Nat
    /\ None \notin Services \union Credentials
    /\ None \notin Operators

VARIABLES
    services,         \* the CAS service registry
    late,             \* a timed-out write still in flight, or None
    call,             \* call[o]: the backend call operator o is in
    fqdn,             \* global config key "fqdn"
    faults            \* remaining request failures

casVars == <<services, late, call, fqdn, faults>>

NoCall ==
    [at |-> "idle", reg |-> None, known |-> None, service |-> None,
     secret |-> None, result |-> None]

Calls ==
    [at      : {"idle", "upsert", "write", "result", "delete", "remove", "ok", "failed"},
     reg     : Registrations \union {None},
     known   : ClientSecrets \union {None},
     service : Services \union {None},
     secret  : ClientSecrets \union {None},
     result  : Credentials \union {None}]

CASTypeOK ==
    /\ services \subseteq Services
    /\ late \in Services \union {None}
    /\ call \in [Operators -> Calls]
    /\ fqdn \in Fqdns
    /\ faults \in 0..MaxFaults

CASInit ==
    /\ services = {}
    /\ late = None
    /\ call = [o \in Operators |-> NoCall]
    /\ fqdn \in Fqdns
    /\ faults = MaxFaults

-------------------------------------------------------------------------------
\* Faulty: the name is not compared.
MatchesAny(consumer) == services

\* findServiceByConsumer: the services whose "ServiceName" is the consumer.
\* More than one is the error "multiple Cas services found for consumer".
Matches(consumer) == {s \in services : s.name = consumer}

Ambiguous(consumer) == \E s, t \in Matches(consumer) : s # t

Existing(consumer) ==
    IF Matches(consumer) = {} THEN None ELSE CHOOSE s \in Matches(consumer) : TRUE

\* resolveClientSecret: known is the client secret found in the existing data,
\* drawn the value the random generator would return.
resolveClientSecret(reg, known, drawn) ==
    CASE reg.protocol = "CAS"                   -> None
      [] reg.protocol # "CAS" /\ known # None   -> known
      [] OTHER                                  -> drawn

Fails(o) == call' = [call EXCEPT ![o] = [NoCall EXCEPT !.at = "failed"]]

\* A request fails (connection, timeout, unexpected status, undecodable body).
Fault == faults > 0 /\ faults' = faults - 1

\* What CAS does with a POST (no id yet) or a PUT (save under its id).
Save(service, id) ==
    {s \in services : s.id # id} \union {[service EXCEPT !.id = id]}

\* Ids of registered services, and those a PUT in flight refers to.
UsedIds ==
    {s.id : s \in services}
        \union {call[p].service.id : p \in {q \in Operators : call[q].service # None}}
        \union (IF late = None THEN {} ELSE {late.id})

\* The id the service is saved under.  CAS never reuses an id; which unused
\* one it assigns does not matter, so one representative is taken.
IdsFor(service) ==
    IF service.id # None THEN {service.id}
    ELSE LET free == ServiceIds \ UsedIds
         IN  IF free = {} THEN {} ELSE {CHOOSE i \in free : TRUE}

-------------------------------------------------------------------------------
(***************************************************************************)
(* Upsert                                                                  *)
(***************************************************************************)

\* Of the existing data the backend looks only at the client secret.
CallUpsert(o, reg, known) ==
    /\ call[o].at = "idle"
    /\ call' = [call EXCEPT ![o] = [NoCall EXCEPT !.at = "upsert", !.reg = reg, !.known = known]]
    /\ UNCHANGED <<services, late, fqdn, faults>>

\* Everything before the write only reads: validation, GET of all services,
\* search, client secret, payload.
UpsertPrepare(o, drawn) ==
    LET reg      == call[o].reg
        existing == Existing(reg.consumer)
        secret   == resolveClientSecret(reg, call[o].known, drawn)
    IN  /\ call[o].at = "upsert"
        /\ ValidRegistration(reg)
        /\ ~Ambiguous(reg.consumer)
        /\ call' = [call EXCEPT ![o] =
                [@ EXCEPT !.at = "write", !.known = None, !.secret = secret,
                          !.service = BuildServicePayload(reg, existing, secret, fqdn)]]
        /\ UNCHANGED <<services, late, fqdn, faults>>

UpsertRejected(o) ==
    /\ call[o].at = "upsert"
    /\ \/ ~ValidRegistration(call[o].reg) /\ UNCHANGED faults
       \/ ValidRegistration(call[o].reg) /\ Ambiguous(call[o].reg.consumer) /\ UNCHANGED faults
       \/ Fault       \* GET, global config or random source fails
    /\ Fails(o)
    /\ UNCHANGED <<services, late, fqdn>>

\* CreateService or UpdateService with its answer received.
UpsertWrite(o) ==
    /\ call[o].at = "write"
    /\ \E id \in IdsFor(call[o].service) :
        /\ services' = Save(call[o].service, id)
        /\ call' = [call EXCEPT ![o] = [@ EXCEPT !.at = "result", !.service.id = id]]
    /\ UNCHANGED <<late, fqdn, faults>>

\* Faulty: a write that failed is sent again without a new list.
UpsertWriteFailsResent(o) ==
    /\ call[o].at = "write"
    /\ Fault
    /\ \/ UNCHANGED services
       \/ \E id \in IdsFor(call[o].service) : services' = Save(call[o].service, id)
    /\ UNCHANGED <<call, late, fqdn>>

\* The write is reported as failed; it may have been carried out all the same,
\* or, when the client gave up on it, be carried out later.
UpsertWriteFails(o) ==
    /\ call[o].at = "write"
    /\ Fault
    /\ Fails(o)
    /\ \/ UNCHANGED <<services, late>>
       \/ /\ \E id \in IdsFor(call[o].service) : services' = Save(call[o].service, id)
          /\ UNCHANGED late
       \/ /\ LateWrites
          /\ late = None
          /\ late' = call[o].service
          /\ UNCHANGED services
    /\ UNCHANGED fqdn

\* BuildRegistrationResult reads the global config a second time.
UpsertResult(o) ==
    /\ call[o].at = "result"
    /\ call' = [call EXCEPT ![o] =
            [NoCall EXCEPT !.at = "ok",
                !.reg = call[o].reg,
                !.result = BuildRegistrationResult(call[o].reg, call[o].service,
                                                   call[o].secret, fqdn)]]
    /\ UNCHANGED <<services, late, fqdn, faults>>

UpsertResultFails(o) ==
    /\ call[o].at = "result"
    /\ Fault
    /\ Fails(o)
    /\ UNCHANGED <<services, late, fqdn>>

-------------------------------------------------------------------------------
(***************************************************************************)
(* Delete                                                                  *)
(***************************************************************************)

CallDelete(o, reg) ==
    /\ call[o].at = "idle"
    /\ call' = [call EXCEPT ![o] = [NoCall EXCEPT !.at = "delete", !.reg = reg]]
    /\ UNCHANGED <<services, late, fqdn, faults>>

\* GET of all services and search.
DeleteLookup(o) ==
    LET consumer == call[o].reg.consumer
        existing == Existing(consumer)
    IN  /\ call[o].at = "delete"
        /\ consumer # Blank
        /\ ~Ambiguous(consumer)
        /\ call' = [call EXCEPT ![o] =
                IF existing = None
                THEN [NoCall EXCEPT !.at = "ok", !.reg = call[o].reg]
                ELSE IF existing.id = None
                     THEN [NoCall EXCEPT !.at = "failed"]
                     ELSE [@ EXCEPT !.at = "remove", !.service = existing]]
        /\ UNCHANGED <<services, late, fqdn, faults>>

DeleteRejected(o) ==
    /\ call[o].at = "delete"
    /\ \/ call[o].reg.consumer = Blank /\ UNCHANGED faults
       \/ call[o].reg.consumer # Blank /\ Ambiguous(call[o].reg.consumer) /\ UNCHANGED faults
       \/ Fault       \* GET fails
    /\ Fails(o)
    /\ UNCHANGED <<services, late, fqdn>>

Removed(id) == {s \in services : s.id # id}

\* DELETE by id; 404 counts as success.
DeleteRemove(o) ==
    /\ call[o].at = "remove"
    /\ services' = Removed(call[o].service.id)
    /\ call' = [call EXCEPT ![o] = [NoCall EXCEPT !.at = "ok", !.reg = call[o].reg]]
    /\ UNCHANGED <<late, fqdn, faults>>

DeleteRemoveFails(o) ==
    /\ call[o].at = "remove"
    /\ Fault
    /\ Fails(o)
    /\ services' \in {services, Removed(call[o].service.id)}
    /\ UNCHANGED <<late, fqdn>>

-------------------------------------------------------------------------------
\* The caller takes the outcome.
Return(o) ==
    /\ call[o].at \in {"ok", "failed"}
    /\ call' = [call EXCEPT ![o] = NoCall]
    /\ UNCHANGED <<services, late, fqdn, faults>>

\* The process ends in the middle of a call; a write it has sent may still be
\* carried out.
Abandon(o) ==
    /\ call' = [call EXCEPT ![o] = NoCall]
    /\ \/ UNCHANGED late
       \/ /\ LateWrites
          /\ call[o].at = "write"
          /\ late = None
          /\ late' = call[o].service
    /\ UNCHANGED <<services, fqdn, faults>>

\* CAS carries out a write whose client has given up (external).
ApplyLate ==
    /\ late # None
    /\ \E id \in IdsFor(late) : services' = Save(late, id)
    /\ late' = None
    /\ UNCHANGED <<call, fqdn, faults>>

\* An administrator changes the global config (external); nothing watches it.
SetFqdn(f) ==
    /\ f # fqdn
    /\ fqdn' = f
    /\ UNCHANGED <<services, late, call, faults>>

\* A request that does not go to CAS fails; all requests share one bound.
OtherFault ==
    /\ Fault
    /\ UNCHANGED <<services, late, call, fqdn>>

UpsertStep(o) ==
    \/ \E drawn \in ClientSecrets : UpsertPrepare(o, drawn)
    \/ UpsertRejected(o)
    \/ UpsertWrite(o)
    \/ UpsertWriteFails(o)
    \/ UpsertResult(o)
    \/ UpsertResultFails(o)

DeleteStep(o) ==
    \/ DeleteLookup(o)
    \/ DeleteRejected(o)
    \/ DeleteRemove(o)
    \/ DeleteRemoveFails(o)

\* The backend under callers that may ask for anything at any time.
CASNext ==
    \/ \E o \in Operators :
        \/ \E reg \in Registrations, known \in ClientSecrets \union {None} :
                CallUpsert(o, reg, known)
        \/ \E reg \in Registrations : CallDelete(o, reg)
        \/ UpsertStep(o)
        \/ DeleteStep(o)
        \/ Return(o)
        \/ Abandon(o)
    \/ ApplyLate
    \/ \E f \in Fqdns : SetFqdn(f)
    \/ OtherFault

CASSpec == CASInit /\ [][CASNext]_casVars

-------------------------------------------------------------------------------
(***************************************************************************)
(* Properties                                                              *)
(***************************************************************************)

\* At most one CAS service carries a consumer's name, whatever requests fail,
\* are retried or are cut off by a crash.  findServiceByConsumer relies on it:
\* with two such services every further Upsert and Delete of the consumer fails.
UniqueService == \A s, t \in services : s.name = t.name => s = t

\* The credentials a successful Upsert returns are the ones CAS accepts: the
\* registered service has that client id and the hash of that client secret.
ResultUsable ==
    \A o \in Operators :
        (call[o].at = "ok" /\ call[o].result # None) =>
            \E s \in Matches(call[o].reg.consumer) :
                /\ s.protocol = call[o].reg.protocol
                /\ s.protocol # "CAS" =>
                    /\ s.clientID = call[o].result.id
                    /\ s.hash = hashClientSecret(call[o].result.secret)

\* A step changes or removes only a service of the consumer it was called for;
\* the write addresses CAS by the numeric id found earlier in the list.
WritesOwnService ==
    [][\A s \in services \ services' :
        \E o \in Operators :
            /\ call[o].at \in {"write", "remove"}
            /\ call[o].reg.consumer = s.name]_casVars

\* A numeric service id never passes from one consumer to another, not even
\* when writes of several operators or timed-out writes overtake each other.
IdKeepsConsumer ==
    [][\A s \in services, t \in services' : s.id = t.id => s.name = t.name]_casVars

================================================================================
