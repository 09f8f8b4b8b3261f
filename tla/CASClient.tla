------------------------------- MODULE CASClient -------------------------------
(***************************************************************************)
(* The backend down to the wire: the REST client, the JSON codec of        *)
(* types.go and the payload of the service mapper, against a CAS registry  *)
(* that holds JSON documents, some of them not written by the operator.    *)
(* One worker, one request per step.                                       *)
(*                                                                         *)
(* A JSON value is a record whose only field names its kind.  The zero     *)
(* value of a Go string and of an int64 is None, and so is a nil pointer.  *)
(***************************************************************************)
EXTENDS AuthRegistrations, Sequences, SequencesExt

CONSTANTS
    Error,            \* a decoder's error
    Worker,           \* the worker
    Requests,         \* registrations with their params [scopes, audience]
    ForeignServices,  \* documents others put into the registry
    MaxFaults         \* bound: failing requests in one behaviour

\* A part of a parameter is a string that is not the decoder's error.
ASSUME RequestAssumption ==
    /\ MaxFaults \in Nat
    /\ None \notin Requests
    /\ \A reg \in Requests :
        /\ [protocol |-> reg.protocol, consumer |-> reg.consumer, clientId |-> reg.clientId]
                \in Registrations
        /\ \A parts \in {reg.params.scopes, reg.params.audience} \ {None} :
                parts \in Seq(ToSet(parts)) /\ Error \notin ToSet(parts)

VARIABLES
    registry,         \* the documents in the CAS service registry
    call,             \* the backend call in progress
    fqdn,             \* global config key "fqdn"
    faults            \* remaining request failures

vars == <<registry, call, fqdn, faults>>

-------------------------------------------------------------------------------
(***************************************************************************)
(* JSON and the Go decoder: null, like a missing key, leaves the zero      *)
(* value; a value of another kind than the target is an error.             *)
(***************************************************************************)

Null   == [null |-> TRUE]
Str(s) == [str |-> s]
Num(n) == [num |-> n]
Arr(s) == [arr |-> s]
Obj(f) == [obj |-> f]

Is(kind, j) == DOMAIN j = {kind}

Field(j, key) == IF key \in DOMAIN j.obj THEN j.obj[key] ELSE Null

StringOf(j) ==
    CASE Is("null", j) -> None
      [] Is("str", j)  -> j.str
      [] OTHER         -> Error

IdOf(j) ==
    CASE Is("null", j) -> None
      [] Is("num", j)  -> j.num
      [] OTHER         -> Error

\* A slice of what Element decodes.
SliceOf(j, Element(_)) ==
    LET elements == [i \in DOMAIN j.arr |-> Element(j.arr[i])]
    IN  CASE Is("null", j) -> <<>>
          [] Is("arr", j) /\ \A i \in DOMAIN j.arr : elements[i] # Error -> elements
          [] OTHER -> Error

\* A Java collection is encoded as [className, values].
IsWrapper(j) ==
    Is("arr", j) /\ Len(j.arr) = 2 /\ StringOf(j.arr[1]) # Error

-------------------------------------------------------------------------------
(***************************************************************************)
(* types.go                                                                *)
(***************************************************************************)

hashSetClass       == "HashSet"
linkedHashSetClass == "LinkedHashSet"
collectionFields   == {"scopes", "audience"}

NewStringCollection(class, values) == [class |-> class, values |-> values]

MarshalStringCollection(c) ==
    Arr(<<Str(IF c.class = None THEN hashSetClass ELSE c.class),
          Arr([i \in DOMAIN c.values |-> Str(c.values[i])])>>)

UnmarshalStringCollection(j) ==
    LET values == SliceOf(IF IsWrapper(j) THEN j.arr[2] ELSE j, StringOf)
    IN  CASE Is("null", j)  -> NewStringCollection(None, <<>>)
          [] ~Is("null", j) /\ values = Error -> Error
          [] OTHER -> NewStringCollection(
                        IF IsWrapper(j) THEN StringOf(j.arr[1]) ELSE hashSetClass, values)

\* A property; its class is read and not used.
UnmarshalProperty(j) ==
    LET values == UnmarshalStringCollection(Field(j, "values"))
    IN  CASE Is("null", j) -> <<>>
          [] Is("obj", j) /\ StringOf(Field(j, "@class")) # Error /\ values # Error
                           -> values.values
          [] OTHER         -> Error

\* The entries: the values of each property by its name.
UnmarshalProperties(j) ==
    LET entries == [k \in DOMAIN j.obj \ {"@class"} |-> UnmarshalProperty(j.obj[k])]
    IN  CASE Is("null", j) -> None
          [] Is("obj", j) /\ StringOf(Field(j, "@class")) # Error
                /\ \A k \in DOMAIN entries : entries[k] # Error -> entries
          [] OTHER         -> Error

MarshalProperties(entries) ==
    LET collection(values) ==
            MarshalStringCollection(NewStringCollection(linkedHashSetClass, values))
        property(values) ==
            [f \in {"@class", "values"} |->
                IF f = "values" THEN collection(values)
                ELSE Str("DefaultRegisteredServiceProperty")]
    IN  Obj([k \in DOMAIN entries \union {"@class"} |->
                IF k = "@class" THEN Str("HashMap") ELSE Obj(property(entries[k]))])

GetFirstValue(entries, key) ==
    CASE entries = None                                     -> None
      [] entries # None /\ key \notin DOMAIN entries        -> None
      [] entries # None /\ key \in DOMAIN entries ->
            IF entries[key] = <<>> THEN None ELSE entries[key][1]

\* RegisteredService.  templateName, name, logoutUrl and the properties nobody
\* reads are left out; scopes stands for the sets OIDC and OAuth have in common.
EmptyService ==
    [class |-> None, id |-> None, serviceID |-> None, properties |-> None,
     clientID |-> None, clientSecret |-> None, scopes |-> None, audience |-> None]

serviceKeys ==
    {"@class", "id", "serviceId", "properties", "clientId", "clientSecret", "scopes", "audience"}

\* A pointer to a collection: null and a missing key are nil.
UnmarshalOptional(j) == IF Is("null", j) THEN None ELSE UnmarshalStringCollection(j)

UnmarshalService(j) ==
    LET decoded ==
            [class        |-> StringOf(Field(j, "@class")),
             id           |-> IdOf(Field(j, "id")),
             serviceID    |-> StringOf(Field(j, "serviceId")),
             properties   |-> UnmarshalProperties(Field(j, "properties")),
             clientID     |-> StringOf(Field(j, "clientId")),
             clientSecret |-> StringOf(Field(j, "clientSecret")),
             scopes       |-> UnmarshalOptional(Field(j, "scopes")),
             audience     |-> UnmarshalOptional(Field(j, "audience"))]
    IN  CASE Is("null", j) -> EmptyService
          [] Is("obj", j) /\ \A f \in DOMAIN decoded : decoded[f] # Error -> decoded
          [] OTHER         -> Error

\* Fields with a zero value are omitted, except the class.
MarshalService(s) ==
    LET string(x) == IF x = None THEN Null ELSE Str(x)
        set(c)    == IF c = None THEN Null ELSE MarshalStringCollection(c)
        encoded(key) ==
            CASE key = "@class"       -> Str(s.class)
              [] key = "id"           -> IF s.id = None THEN Null ELSE Num(s.id)
              [] key = "serviceId"    -> string(s.serviceID)
              [] key = "properties"   -> MarshalProperties(s.properties)
              [] key = "clientId"     -> string(s.clientID)
              [] key = "clientSecret" -> string(s.clientSecret)
              [] key = "scopes"       -> set(s.scopes)
              [] key = "audience"     -> set(s.audience)
    IN  Obj([k \in {key \in serviceKeys : ~Is("null", encoded(key))} |-> encoded(k)])

\* Faulty: every array of two elements is a Java collection.
UnmarshalServicesEager(j) ==
    CASE Is("null", j) -> <<>>
      [] Is("arr", j) /\ Len(j.arr) = 2 -> SliceOf(j.arr[2], UnmarshalService)
      [] Is("obj", j) /\ ~Is("null", Field(j, "services"))
                       -> SliceOf(Field(j, "services"), UnmarshalService)
      [] OTHER         -> SliceOf(j, UnmarshalService)

\* Faulty: what is not an array of services is taken for an empty list.
UnmarshalServicesLenient(j) ==
    LET list == SliceOf(IF IsWrapper(j) THEN j.arr[2] ELSE j, UnmarshalService)
    IN  IF list = Error THEN <<>> ELSE list

\* registeredServicesList: a Java collection, an object {"services": [...]}, or
\* an array.  An object whose list cannot be decoded falls through to the array,
\* which fails.
UnmarshalServices(j) ==
    LET object == SliceOf(Field(j, "services"), UnmarshalService)
    IN  CASE Is("null", j) -> <<>>
          [] IsWrapper(j)  -> SliceOf(j.arr[2], UnmarshalService)
          [] Is("obj", j) /\ ~Is("null", Field(j, "services")) /\ object # Error -> object
          [] OTHER         -> SliceOf(j, UnmarshalService)

-------------------------------------------------------------------------------
(***************************************************************************)
(* Payload                                                                 *)
(***************************************************************************)

serviceClass ==
    [p \in Protocols |->
        CASE p = "CAS"   -> "CasRegisteredService"
          [] p = "OIDC"  -> "OidcRegisteredService"
          [] p = "OAUTH" -> "OAuthRegisteredService"]

\* Faulty: white space between two commas becomes a scope.
newSetParamUntrimmed(parts) ==
    IF parts = None THEN None ELSE NewStringCollection(hashSetClass, parts)

\* newSetParam: parts is the parameter split at its commas, None a missing one;
\* collected[n] is what the loop has collected after n parts.
newSetParam(parts) ==
    LET collected[n \in 0..Len(parts)] ==
            IF n = 0 THEN <<>>
            ELSE IF parts[n] = Blank THEN collected[n - 1]
                 ELSE Append(collected[n - 1], parts[n])
        values == collected[Len(parts)]
    IN  IF parts = None THEN None
        ELSE IF values = <<>> THEN None ELSE NewStringCollection(hashSetClass, values)

addOIDCFields(service, reg, existing, secret) ==
    [service EXCEPT !.clientID = resolveClientID(reg, existing),
                    !.clientSecret = hashClientSecret(secret),
                    !.scopes = newSetParam(reg.params.scopes)]

addOAuthFields(service, reg, existing, secret) ==
    [addOIDCFields(service, reg, existing, secret) EXCEPT
                    !.audience = newSetParam(reg.params.audience)]

\* BuildServicePayload.
NewRegisteredService(reg, existing, secret, domain) ==
    LET service == [EmptyService EXCEPT
                        !.class = serviceClass[reg.protocol],
                        !.id = IF existing = None THEN None ELSE existing.id,
                        !.serviceID = <<domain, reg.consumer>>,
                        !.properties = [ServiceName |-> <<reg.consumer>>]]
    IN  CASE reg.protocol = "CAS"   -> service
          [] reg.protocol = "OIDC"  -> addOIDCFields(service, reg, existing, secret)
          [] reg.protocol = "OAUTH" -> addOAuthFields(service, reg, existing, secret)

-------------------------------------------------------------------------------
(***************************************************************************)
(* CAS (external)                                                          *)
(***************************************************************************)

IsJavaCollection(j) ==
    /\ Is("arr", j) /\ Len(j.arr) = 2
    /\ Is("str", j.arr[1]) /\ Is("arr", j.arr[2])
    /\ \A i \in DOMAIN j.arr[2].arr : Is("str", j.arr[2].arr[i])

\* CAS accepts a document whose collections carry their class.
Accepts(j) ==
    /\ Is("str", Field(j, "@class"))
    /\ \A k \in collectionFields \intersect DOMAIN j.obj : IsJavaCollection(j.obj[k])
    /\ \A p \in DOMAIN j.obj["properties"].obj \ {"@class"} :
            IsJavaCollection(j.obj["properties"].obj[p].obj["values"])

\* What is kept of a set is its members; CAS lists them in any order.
Listed(j, reversed) ==
    IF IsJavaCollection(j)
    THEN LET members == SetToSeq({j.arr[2].arr[i] : i \in DOMAIN j.arr[2].arr})
         IN  Arr(<<j.arr[1], Arr(IF reversed THEN Reverse(members) ELSE members)>>)
    ELSE j

Document(j, reversed) ==
    Obj([k \in DOMAIN j.obj |->
            IF k \in collectionFields THEN Listed(j.obj[k], reversed) ELSE j.obj[k]])

\* The stored form of a document, under its id.
Stored(j, id) ==
    Obj([k \in DOMAIN j.obj \union {"id"} |->
            IF k = "id" THEN Num(id) ELSE Document(j, FALSE).obj[k]])

Id(j) == j.obj["id"].num

Without(id) == {d \in registry : Id(d) # id}

\* The ways a GET can be answered with the whole registry.
ListForms == {"collection", "object", "array", "null"}

ListBody(form, reversed) ==
    LET docs == SetToSeq({Document(d, reversed) : d \in registry})
        list == Arr(IF reversed THEN Reverse(docs) ELSE docs)
    IN  CASE form = "collection" -> Arr(<<Str("ArrayList"), list>>)
          [] form = "object"     -> Obj([services |-> list])
          [] form = "array"      -> list
          [] form = "null"       -> IF registry = {} THEN Null ELSE list

\* The id a document is saved under: its own, or an unused one, as long as there
\* is one.
AssignedIds(service) ==
    LET free == ServiceIds \ {Id(d) : d \in registry}
    IN  IF service.id # None THEN {service.id}
        ELSE IF free = {} THEN {} ELSE {CHOOSE i \in free : TRUE}

\* The decoder's error is none of the values that occur in the operator's documents.
ASSUME ErrorAssumption ==
    Error \notin {None} \union Consumers \union ClientIds \union ServiceIds
        \union {serviceClass[p] : p \in Protocols}
        \union {hashSetClass, linkedHashSetClass, "HashMap", "DefaultRegisteredServiceProperty",
                "ArrayList"}

\* Others have their services under ids of their own, and none that can be decoded
\* carries the name of a consumer.
ASSUME ForeignAssumption ==
    \A d \in ForeignServices :
        /\ Is("obj", d) /\ "id" \in DOMAIN d.obj
        /\ Is("num", d.obj["id"]) /\ Id(d) \notin ServiceIds
        /\ UnmarshalService(d) # Error =>
                GetFirstValue(UnmarshalService(d).properties, "ServiceName") \notin Consumers
        /\ \A k \in collectionFields :
                IsJavaCollection(Field(d, k)) =>
                    \A values \in {Field(d, k).arr, Field(d, k).arr[2].arr} :
                        values \in Seq(ToSet(values))

-------------------------------------------------------------------------------
(***************************************************************************)
(* Backend calls                                                           *)
(***************************************************************************)

NoCall ==
    [at |-> "idle", reg |-> None, known |-> None, service |-> None,
     secret |-> None, result |-> None]

Init ==
    /\ registry = {}
    /\ call = NoCall
    /\ fqdn \in Fqdns
    /\ faults = MaxFaults

Fault == faults > 0 /\ faults' = faults - 1
Fails == call' = [NoCall EXCEPT !.at = "failed"]

\* findServiceByConsumer: the positions of the consumer's services in a list.
Matching(list, consumer) ==
    {i \in DOMAIN list : GetFirstValue(list[i].properties, "ServiceName") = consumer}

Ambiguous(list, consumer) == \E i, j \in Matching(list, consumer) : i # j

findServiceByConsumer(list, consumer) ==
    IF Matching(list, consumer) = {} THEN None
    ELSE list[CHOOSE i \in Matching(list, consumer) : TRUE]

CallUpsert(reg, known) ==
    /\ call.at = "idle"
    /\ call' = [NoCall EXCEPT !.at = "upsert", !.reg = reg, !.known = known]
    /\ UNCHANGED <<registry, fqdn, faults>>

CallDelete(reg) ==
    /\ call.at = "idle"
    /\ call' = [NoCall EXCEPT !.at = "delete", !.reg = reg]
    /\ UNCHANGED <<registry, fqdn, faults>>

Accepted(at, reg) ==
    IF at = "upsert" THEN ValidRegistration(reg) ELSE reg.consumer # Blank

\* Upsert and Delete start with ListServices and the search; Upsert goes on to
\* the client secret and the payload.  A list that cannot be decoded counts as a
\* request that fails.
ListServices(form, reversed, drawn) ==
    LET reg      == call.reg
        list     == UnmarshalServices(ListBody(form, reversed))
        existing == findServiceByConsumer(list, reg.consumer)
        secret   == CASE reg.protocol = "CAS" -> None
                      [] reg.protocol # "CAS" /\ call.known # None -> call.known
                      [] OTHER -> drawn
    IN  /\ call.at \in {"upsert", "delete"}
        /\ \/ ~Accepted(call.at, reg) /\ Fails /\ UNCHANGED faults
           \/ Fault /\ Fails
           \/ /\ Accepted(call.at, reg) /\ list # Error
              /\ Ambiguous(list, reg.consumer)
              /\ Fails
              /\ UNCHANGED faults
           \/ /\ Accepted(call.at, reg) /\ list # Error
              /\ ~Ambiguous(list, reg.consumer)
              /\ UNCHANGED faults
              /\ call' =
                    CASE call.at = "upsert" ->
                            [call EXCEPT !.at = "write", !.known = None, !.secret = secret,
                                !.service = NewRegisteredService(reg, existing, secret, fqdn)]
                      [] call.at = "delete" /\ existing = None ->
                            [NoCall EXCEPT !.at = "ok", !.reg = reg]
                      [] call.at = "delete" /\ existing # None /\ existing.id = None ->
                            [NoCall EXCEPT !.at = "failed"]
                      [] OTHER -> [call EXCEPT !.at = "remove", !.service = existing]
        /\ UNCHANGED <<registry, fqdn>>

\* CreateService or UpdateService: CAS saves the document, unless it rejects it,
\* and answers with it or with an empty body.  The request may also be reported
\* as failed, carried out or not.
WriteService(reversed) ==
    LET payload     == MarshalService(call.service)
        saved(id)   == Stored(payload, id)
        written(id) == Without(id) \union {saved(id)}
        answers(id) == {call.service, UnmarshalService(Document(saved(id), reversed))}
        persist(s)  == call' = [call EXCEPT !.at = "result", !.service = s]
    IN  /\ call.at = "write"
        /\ \/ ~Accepts(payload) /\ Fails /\ UNCHANGED <<registry, faults>>
           \/ /\ Accepts(payload)
              /\ \E id \in AssignedIds(call.service) :
                    /\ registry' = written(id)
                    /\ \E s \in answers(id) : IF s = Error THEN Fails ELSE persist(s)
              /\ UNCHANGED faults
           \/ /\ Fault
              /\ Fails
              /\ \/ UNCHANGED registry
                 \/ /\ Accepts(payload)
                    /\ \E id \in AssignedIds(call.service) : registry' = written(id)
        /\ UNCHANGED fqdn

\* BuildRegistrationResult on the service the answer carried.
UpsertResult ==
    LET persisted == [name |-> call.service.serviceID[2], fqdn |-> call.service.serviceID[1],
                      clientID |-> call.service.clientID]
    IN  /\ call.at = "result"
        /\ \/ /\ call' = [NoCall EXCEPT !.at = "ok", !.reg = call.reg,
                    !.result = BuildRegistrationResult(call.reg, persisted, call.secret, fqdn)]
              /\ UNCHANGED faults
           \/ Fault /\ Fails
        /\ UNCHANGED <<registry, fqdn>>

\* DeleteService: 200, 204 and 404 are success.
DeleteService ==
    LET removed == Without(call.service.id)
    IN  /\ call.at = "remove"
        /\ \/ /\ registry' = removed
              /\ call' = [NoCall EXCEPT !.at = "ok", !.reg = call.reg]
              /\ UNCHANGED faults
           \/ Fault /\ Fails /\ registry' \in {registry, removed}
        /\ UNCHANGED fqdn

\* The caller takes the outcome.
Return ==
    /\ call.at \in {"ok", "failed"}
    /\ call' = NoCall
    /\ UNCHANGED <<registry, fqdn, faults>>

\* Somebody else registers or removes a service of theirs (external).
ForeignWrite(d) ==
    /\ registry' \in {registry \union {d}, registry \ {d}}
    /\ UNCHANGED <<call, fqdn, faults>>

Next ==
    \/ \E reg \in Requests, known \in ClientSecrets \union {None} : CallUpsert(reg, known)
    \/ \E reg \in Requests : CallDelete(reg)
    \/ \E form \in ListForms, reversed \in BOOLEAN, drawn \in ClientSecrets :
            ListServices(form, reversed, drawn)
    \/ \E reversed \in BOOLEAN : WriteService(reversed)
    \/ UpsertResult
    \/ DeleteService
    \/ Return
    \/ \E d \in ForeignServices : ForeignWrite(d)

Spec == Init /\ [][Next]_vars

-------------------------------------------------------------------------------
(***************************************************************************)
(* Properties                                                              *)
(***************************************************************************)

Own == registry \ ForeignServices

\* The registry, the call and its service as the backend's specification sees
\* them: documents become services, and of a registration the parameters that
\* only reach the document are dropped.
AsService(id, class, serviceID, clientID, hash) ==
    [id |-> id, name |-> serviceID[2], clientID |-> clientID, hash |-> hash, fqdn |-> serviceID[1],
     protocol |-> CHOOSE p \in Protocols : serviceClass[p] = class]

ServiceIn(d) ==
    AsService(Id(d), d.obj["@class"].str, d.obj["serviceId"].str,
              StringOf(Field(d, "clientId")), StringOf(Field(d, "clientSecret")))

SavedId(serviceID) == Id(CHOOSE d \in Own : d.obj["serviceId"].str = serviceID)

BackendCall ==
    [call EXCEPT
        !.reg = IF @ = None THEN None
                ELSE [protocol |-> @.protocol, consumer |-> @.consumer, clientId |-> @.clientId],
        !.service = IF @ = None THEN None
                    ELSE AsService(IF call.at = "result" THEN SavedId(@.serviceID) ELSE @.id,
                                   @.class, @.serviceID, @.clientID, @.clientSecret)]

Backend ==
    INSTANCE CASBackend WITH
        services <- {ServiceIn(d) : d \in Own},
        call <- [o \in {Worker} |-> BackendCall],
        late <- None,
        Operators <- {Worker},
        LateWrites <- FALSE

\* On the wire the backend does what its specification says of sets of services:
\* whichever of its forms CAS gives a list, and whatever else is in it, the
\* search finds the consumer's service and no other; every payload is accepted;
\* an answer with and one without a body lead to the same credentials.
ImplementsBackend == Backend!CASSpec

\* What the operator writes never makes the list undecodable.  ListServices fails
\* as a whole on one bad service, and then no consumer can be registered or
\* removed any more.
ListDecodable ==
    (\A d \in registry \intersect ForeignServices : UnmarshalService(d) # Error) =>
        \A form \in ListForms, reversed \in BOOLEAN :
            UnmarshalServices(ListBody(form, reversed)) # Error

\* After a successful Upsert, CAS allows exactly the scopes and audiences that
\* the parameters name, also when an earlier registration named others.
ParamsRegistered ==
    (call.at = "ok" /\ call.result # None) =>
        \A d \in Own : d.obj["serviceId"].str[2] = call.reg.consumer =>
            \A k \in collectionFields :
                LET named == IF call.reg.protocol = "CAS" \/ call.reg.params[k] = None
                                \/ (k = "audience" /\ call.reg.protocol # "OAUTH")
                             THEN {} ELSE ToSet(call.reg.params[k]) \ {Blank}
                IN  IF named = {} THEN k \notin DOMAIN d.obj
                    ELSE ToSet(d.obj[k].arr[2].arr) = {Str(x) : x \in named}

================================================================================
