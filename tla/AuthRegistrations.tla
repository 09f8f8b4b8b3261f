--------------------------- MODULE AuthRegistrations ---------------------------
(***************************************************************************)
(* The data of the operator: AuthRegistration resources, credentials       *)
(* Secrets, CAS services, and the pure functions that map one to another.  *)
(* The CRD types and the types of the Kubernetes API are external to the   *)
(* repository; they are modelled from the fields the operator reads and    *)
(* writes.                                                                 *)
(*                                                                         *)
(* Strings are abstract.  Blank is a string of white space only (what      *)
(* strings.TrimSpace turns into ""); None is an absent value (nil pointer, *)
(* missing key, empty string or empty slot, as the context says).          *)
(***************************************************************************)
EXTENDS Naturals

CONSTANTS
    None,             \* an absent value
    Blank,            \* a white-space-only string
    Names,            \* names of AuthRegistrations (one namespace)
    Consumers,        \* non-blank values of spec.consumer
    ClientIds,        \* non-blank values of spec.params["clientId"]
    SecretNames,      \* names of Secrets
    DefaultSecret,    \* [Names -> SecretNames]: name \o "-credentials"
    ClientSecrets,    \* values generateClientSecret can draw
    Fqdns,            \* values of the global config key "fqdn"
    ServiceIds        \* numeric ids CAS assigns (never 0)

ASSUME DefaultSecretAssumption ==
    /\ DefaultSecret \in [Names -> SecretNames]
    /\ \A m, n \in Names : DefaultSecret[m] = DefaultSecret[n] => m = n

ASSUME AbsentAssumption ==
    /\ None # Blank
    /\ {None, Blank} \cap (Names \union Consumers \union ClientIds \union SecretNames
            \union ClientSecrets \union Fqdns \union ServiceIds) = {}

-------------------------------------------------------------------------------
(***************************************************************************)
(* AuthRegistration                                                        *)
(***************************************************************************)

Protocols == {"CAS", "OIDC", "OAUTH"}

\* "unsupported" stands for every protocol the backend does not know.
Specs ==
    [protocol  : Protocols \union {"unsupported"},
     consumer  : Consumers \union {Blank},
     secretRef : SecretNames \union {None, Blank},
     clientId  : ClientIds \union {None}]

\* A condition's status follows from its reason, so only the reason is kept;
\* its message is left out.
PublishedReasons == {"InvalidSpec", "SecretReconcileFailed", "SecretReconciled"}
CompletedReasons == {"InvalidSpec", "Blocked", "RegistrationFailed", "RegistrationSucceeded"}

Condition(reason, generation) == [reason |-> reason, gen |-> generation]

Conditions(reasons) == [reason : reasons, gen : Nat] \union {None}

\* status.resolvedSecretRef and the two entries of status.conditions.
Statuses ==
    [ref   : SecretNames \union {None},
     conds : [published : Conditions(PublishedReasons),
              completed : Conditions(CompletedReasons)]]

NoStatus == [ref |-> None, conds |-> [published |-> None, completed |-> None]]

AuthRegistrationObjects ==
    [uid : Nat, gen : Nat, deleting : BOOLEAN, finalizer : BOOLEAN,
     spec : Specs, status : Statuses]

\* resolveSecretName: None is the error "spec.secretRef must not be empty".
ResolveSecretName(n, spec) ==
    CASE spec.secretRef = None  -> DefaultSecret[n]
      [] spec.secretRef = Blank -> None
      [] OTHER                  -> spec.secretRef

IsControllerManaged(spec) == spec.secretRef = None

-------------------------------------------------------------------------------
(***************************************************************************)
(* Registration model and credentials                                      *)
(***************************************************************************)

Registrations ==
    [protocol : Protocols \union {"unsupported"},
     consumer : Consumers \union {Blank},
     clientId : ClientIds \union {None}]

FromAuthRegistration(spec) ==
    [protocol |-> spec.protocol, consumer |-> spec.consumer, clientId |-> spec.clientId]

\* The keys one protocol contributes to a Secret: the client id (for CAS the
\* consumer inside the service-id pattern), the client secret (none for CAS),
\* and the FQDN the URLs are built from (none for OIDC, whose issuer is a path).
Credentials ==
    [id     : Consumers \union ClientIds \union {Blank, None},
     secret : ClientSecrets \union {None},
     fqdn   : Fqdns \union {None}]

RegistrationData == [Protocols -> Credentials \union {None}]

NoData == [p \in Protocols |-> None]

\* Faulty: the client secret is never found again.
ClientSecretForgotten(data, protocol) == None

\* RegistrationData.ClientSecret: None is a missing or blank key.
ClientSecret(data, protocol) ==
    IF protocol \in {"OIDC", "OAUTH"} /\ data[protocol] # None
    THEN data[protocol].secret
    ELSE None

-------------------------------------------------------------------------------
(***************************************************************************)
(* CAS services and the service mapper                                     *)
(***************************************************************************)

hashClientSecret(secret) == <<"sha256", secret>>

Hashes == {hashClientSecret(s) : s \in ClientSecrets}

\* name is the property "ServiceName", protocol the service class, fqdn what
\* serviceId and the Fqdn property are built from.
Services ==
    [id       : ServiceIds \union {None},
     name     : Consumers,
     protocol : Protocols,
     clientID : Consumers \union ClientIds \union {None},
     hash     : Hashes \union {None},
     fqdn     : Fqdns]

ValidRegistration(reg) == reg.consumer # Blank /\ reg.protocol \in Protocols

resolveClientID(reg, existing) ==
    CASE reg.clientId # None -> reg.clientId
      [] reg.clientId = None /\ existing # None /\ existing.clientID # None
                             -> existing.clientID
      [] OTHER               -> reg.consumer

\* Faulty: the client secret is stored in plain text.
BuildServicePayloadUnhashed(reg, existing, secret, fqdn) ==
    [id       |-> IF existing = None THEN None ELSE existing.id,
     name     |-> reg.consumer,
     protocol |-> reg.protocol,
     clientID |-> IF reg.protocol = "CAS" THEN None ELSE resolveClientID(reg, existing),
     hash     |-> secret,
     fqdn     |-> fqdn]

BuildServicePayload(reg, existing, secret, fqdn) ==
    [id       |-> IF existing = None THEN None ELSE existing.id,
     name     |-> reg.consumer,
     protocol |-> reg.protocol,
     clientID |-> IF reg.protocol = "CAS" THEN None ELSE resolveClientID(reg, existing),
     hash     |-> IF reg.protocol = "CAS" THEN None ELSE hashClientSecret(secret),
     fqdn     |-> fqdn]

\* Faulty: the consumer is published as client id.
BuildRegistrationResultConsumer(reg, service, secret, fqdn) ==
    [id |-> reg.consumer, secret |-> IF reg.protocol = "CAS" THEN None ELSE secret,
     fqdn |-> fqdn]

\* BuildRegistrationResult followed by GetRegistrationData.
BuildRegistrationResult(reg, service, secret, fqdn) ==
    [id     |-> IF reg.protocol = "CAS" THEN service.name ELSE service.clientID,
     secret |-> IF reg.protocol = "CAS" THEN None ELSE secret,
     fqdn   |-> CASE reg.protocol = "CAS"   -> service.fqdn
                  [] reg.protocol = "OIDC"  -> None
                  [] reg.protocol = "OAUTH" -> fqdn]

================================================================================
