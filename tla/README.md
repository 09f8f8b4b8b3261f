# Verification of k8s-auth-registration-operator

The operator watches `AuthRegistration` resources and, for each of them, registers a service in CAS
(Apereo CAS REST registry), publishes the credentials in a Secret and reports the progress in the
status. This directory holds a TLA+ model of it, the TLC runs that check it on small instances, and
proofs checked by TLAPS.

## 1. The system

| Part | Source | State it keeps | Operations |
|---|---|---|---|
| controller | `internal/controller/authregistration_controller.go`, `deletion_timestamp_changed_predicate.go` | work queue, informer caches (controller-runtime) | `Reconcile`, predicates, `mapSecretToAuthRegistrations` |
| reconciler | `internal/controller/authregistration_reconciler.go` | locals of one reconcile | `handleReconcile`, `handleDeletion`, `cleanupObsoleteGeneratedSecret` |
| Secret reconciler | `internal/controller/secret_reconciler.go` | none; writes the Secret | `Reconcile` |
| status patcher | `internal/controller/authregistration_status_patcher.go` | none; writes the status | `Patch...` |
| registration model | `internal/domain/registration.go` | none | conversions |
| CAS backend | `internal/registration/cas/cas_service_registration_backend.go` | none; writes CAS | `Upsert`, `Delete` |
| service mapper | `internal/registration/cas/mapper.go` | none | `BuildServicePayload`, `BuildRegistrationResult` |
| REST client, JSON types | `internal/registration/cas/client.go`, `types.go` | settings | `NewClient`, `ListServices`, `CreateService`, `UpdateService`, `DeleteService`, encoding and decoding |
| configuration | `internal/config/config.go`, `logger.go` | `Stage`, settings read once | `ConfigureLogger`, `NewOperatorConfig` |
| start, shutdown | `cmd/main.go` | contexts, error channel, timer | `startManager`, `startManagerWithGracefulShutdown` |

One worker per process takes names from the queue. A reconcile reads from the informer caches, which
lag behind the API server, and writes to three places that share no transaction: CAS (list, decide,
write), the Secret (Create or Update with optimistic locking), and the AuthRegistration (Update of the
finalizer with optimistic locking, merge patches of the status without). Secret events come back through
a watch and enqueue the AuthRegistrations that resolve to the Secret; status writes do not.

What makes this hard: every decision is taken on cached copies; each of up to nine requests of one
reconcile can fail, or succeed and lose its answer; the process can end between any two of them; users
edit, delete and re-create objects and Secrets meanwhile; the garbage collector works by owner uid; and
nothing but the `ServiceName` property ties a CAS service to its AuthRegistration.

Correct means: a consumer has one CAS service; no service without an AuthRegistration protected by the
finalizer; the published credentials are the ones CAS knows whenever the operator comes to rest; a
published Secret is not lost; deletion completes; rejections are reported; a changed FQDN is adopted. On the
wire: the list of services is understood in every form CAS gives it, and stays decodable. As a process: it
ends after SIGTERM, reports success only after a clean end, and no unanswered request blocks the worker.

## 2. Modules

| Module | Models | Extends |
|---|---|---|
| `AuthRegistrations` | the data and the pure functions (domain, mapper, `resolveSecretName`) | |
| `CASBackend` | `Upsert` and `Delete` request by request, the CAS registry, failing, answerless and late requests | `AuthRegistrations` |
| `CASClient` | the same calls down to JSON documents: client, codec of `types.go`, payload of the mapper; refines `CASBackend` | `AuthRegistrations` |
| `Operator` | controller, reconciler, Secret reconciler, status patcher, with API server, informers, queue, garbage collector, users and crashes around them | `CASBackend` |
| `RegistrationLifecycle` | abstract specification: what is promised about registration, finalizer and withdrawal | |
| `OperatorLifecycle` | the refinement mapping from `Operator` to it | `Operator` |
| `OperatorProcess` | configuration, start and graceful shutdown of the process | |
| `MCCASClient`, `MCOperator`, `MCOperatorProcess` | values for the constants | |
| `CASBackendProofs` | theorems on the backend | `CASBackend` |
| `OperatorProofs` | types of the whole system, its use of the backend | `Operator`, `CASBackendProofs` |
| `StalenessProofs` | what a reconcile can rely on although it works on copies; control of Secrets | `OperatorProofs` |
| `LifecycleProofs` | no service left behind; refinement of `RegistrationLifecycle` | `StalenessProofs`, `OperatorLifecycle` |
| `ConvergenceProofs` | consistent at rest | `LifecycleProofs` |
| `SecretProofs` | published Secrets stay | `LifecycleProofs` |
| `OperatorProcessProofs` | the exit code | `OperatorProcess` |
| `CASClientProofs` | documents survive encoding, storing, listing and decoding; parameters; refinement of `CASBackend` | `CASClient` |

Definitions named after what goes wrong in them and introduced by a comment `Faulty: ...` are not used by
the specifications. They are plausible mistakes; putting one in the place of the definition after it makes
TLC report a violation, which shows that a property can fail.

### State and actions of `Operator`

`ars` and `secrets` are the API server, `arCache` and `secCache` the caches of one process, `queue` its
work queue, `pc` and `job` the position and the locals of its worker, `call` (of `CASBackend`) the backend
call it is in. `job[o].obj` is the in-memory `AuthRegistration`, which every API answer refreshes: after a
status patch it carries a spec and a generation that were not reconciled, as in the code.

- `Begin` is `Reconcile` up to the first request; `Finalize` the Update that adds the finalizer.
- `ReadRegistrationData`, `BackendStep`, `Upserted`, `PatchResolvedSecretRef`, `ReconcileSecret`,
  `CleanupObsoleteGeneratedSecret`, `PatchCredentialsPublished`, `PatchRegistrationSucceeded` are the lines of
  `handleReconcile`; `PatchInvalidSpec`, `PatchRegistrationFailed` and `PatchSecretReconcileFailed` its error
  paths. `Deleted` and `Unfinalize` are `handleDeletion`.
- One step makes one request. A cached read is part of the step that uses it.
- `PatchStatus` sends what differs between two in-memory copies (conditions as one list) and nothing when
  they agree; there is no resourceVersion in it.
- `SyncAuthRegistration`, `SyncSecret`, `ResyncSecret` are the watches. An informer delivers the latest
  version; versions in between are conflated. `Passes` are the predicates.
- `WriteSecret` marks the Secret as unseen by every informer. A cached Secret has the current
  resourceVersion exactly when it is not marked, which decides whether an Update is accepted. For an
  AuthRegistration the object itself stands for its resourceVersion: two versions with equal contents would
  need a field to be set and set back within one lifetime of the cache entry.
- `queue` is a set, as the work queue drops duplicates; an item that waits for its retry and the same item added by an
  event are one member.
- `SetControllerReference` compares the owner's kind and name, not its uid (`AlreadyOwned`); the type of an
  existing Secret cannot be changed.
- `Crash` ends the process at any moment and restarts it with fresh caches and every name enqueued.

### State and actions of `CASClient`

`registry` holds JSON documents, those of the operator and those of others (`ForeignServices`), `call` the
backend call in progress. A JSON value is a record whose only field names its kind, so that decoding has the
cases the Go decoder has: null or a missing key leaves the zero value, a value of another kind is an error.
`ListServices`, `WriteService`, `UpsertResult` and `DeleteService` are the requests; the first one also stands
for the search, the client secret and the payload, which follow it without another request to CAS. CAS answers a
GET with a Java collection, an object, an array or null, its sets in either order, and a write with the saved
document or with an empty body. A document is saved under the id it carries or, without one, under an unused id;
when `ServiceIds` is used up the write does not happen. `newSetParam` is the loop of the code. The refinement mapping reads the operator's documents back as the services of
`CASBackend`, so `ImplementsBackend` says that codec and search lose nothing the backend relies on.
A list that cannot be decoded counts as a failing request of `CASBackend`, and is limited with them by `MaxFaults`.
Foreign services are limited to documents that do not carry a consumer's `ServiceName`; one of them is a set
written as a plain array of two strings, which the decoder takes for a Java collection and rejects: every
`Upsert` and `Delete` fails while it is there, and `ListDecodable` is about the documents of the operator only.

### State and actions of `OperatorProcess`

`env` is one string per class the code tells apart for every variable of the environment. `ConfigureLogger`,
`NewOperatorConfig`, `startManager`, `awaitEndOrSignal` and `awaitManagerOrTimeout` are the main goroutine;
manager, worker, timer, SIGTERM and SIGKILL are actors of their own. Time is not counted: timer and kubelet act
at any moment after the signal, so every order of the 15 s timer (`main.go:32`) and the 10 s grace period of
the pod occurs.

### Left out

Because no property depends on it: messages, transition times, labels other than the name label,
annotations, template names and logout URLs. `scopes` stands for the three sets OIDC and OAuth share. Errors of cached reads are left out
because a cached Get fails only with NotFound. The delay of the rate limiter (1 s to 2 min) becomes "some
time later".

External behaviour is modelled from how the code uses it: CAS saves a PUT under its id whether or not the
id exists, assigns unused ids, and answers a DELETE of an unknown id with 404, which the client takes for
success.

## 3. Runs

| Run | Bounds | Shows |
|---|---|---|
| `late_writes` | 1 resource that moves between 2 consumers, 1 failing request, late writes; no resync | ids never change consumer; types of the backend |
| `cas_client` | 2 consumers, 7 registrations with parameters, 3 foreign services, 3 ids, 1 failing request | refinement of `CASBackend`, list stays decodable, parameters registered as given |
| `process` | every combination of the classes of 7 variables | clean success, shutdown ends, requests end |
| `switch_secret` | 1 resource, 1 edit, 1 failing request, 2 Secrets | usable credentials, no orphaned service, consistent at rest |
| `recreate` | 1 resource created twice, 1 failing request, 1 crash | unique service, published Secret kept, consistent at rest, refinement of `RegistrationLifecycle` |
| `tamper` | fair; 1 edit of protocol and owner management, 1 change of the Secret by hand, 1 crash; no resync | consistent at rest; everything settles unless outdated Secrets are read for ever |
| `two_resources` | 2 resources with own consumers, the first one deleted; own Secrets or a shared one; no resync | writes stay within the consumer, an owner's control is not taken over, consistent at rest |
| `live` | fair; 1 edit among a valid and two rejected specs, 1 change of the FQDN | deletion completes, FQDN followed, rejection reported; types |

Bounds. Most hazards need one concurrent change (edit, deletion, failure, crash) against one reconcile that
works on stale copies; one or two of each, with the caches free to lag arbitrarily, give every such pairing.
`ClientSecrets` has more members than can be in use at the same time, so that a fresh one always exists;
`ServiceIds` likewise. `Resyncs` is FALSE in `two_resources`, `tamper` and `late_writes`: behaviours shorter than the resync
period of ten hours. `Deletable` leaves out the second resource in `two_resources`, where the deletion of either one
against the other gives six times the states; what follows when the owner of a shared Secret goes is the case that is
kept. Two operators are beyond the runs of `Operator`; what holds for them is proved (section 4). A failing request under fairness is not
in `live` or `tamper` (the state space is too large for the liveness check). In `tamper` a crash cuts a reconcile off
at any point instead, also between the write to CAS and the Secret; together with the change by hand it leaves up to
three client secrets, in CAS, in the Secret and in the cache. That no failing request makes a reconcile get lost is
`QuiescentConsistent` of `switch_secret` and `recreate`. `tamper` has Secrets of type Opaque only: of another type, the
Update is refused and the item retried until somebody removes the Secret. `CHECK_DEADLOCK FALSE` in the runs of `Operator`: an operator at rest may stay there
once the bounds on users, failures and crashes are used up, and a process that has ended stays so.

Fairness (`Fairness`). The worker goes on, informers and garbage collector catch up, late writes arrive
(weak fairness). Taking an item is strongly fair per name, because the work queue is first-in first-out. Nothing
is assumed of the speed of an informer against the worker, which run side by side.

`EventuallySettled` therefore has two cases: everything settles for good, or the worker reads an outdated Secret
infinitely often. The second case is real (`alternating_secret` below), so that the first one alone is violated. What the
property says is that nothing else prevents convergence, neither lost client secrets nor stale AuthRegistrations,
conflicts or edits: as soon as `readRegistrationData` finds the Secret as it is, the operator is done.

`FqdnFollowed` has the fairness of the resync as a hypothesis of its own, so that the other properties do not
profit from it: the informers call the Secret handler for every cached Secret every ten hours, and nothing else
notices a change of the global config.

`OperatorProcess` assumes that the main goroutine goes on, that an armed timer fires, and that the HTTP client
keeps a timeout it has. Nothing is assumed of CAS, the API server, the manager or the kubelet.

### Disagreements between code and documents

These runs check one property each and end in a violation.

| Run | Property | What happens |
|---|---|---|
| `obsolete_secret` | `ObsoleteSecretRemoved` | `status.resolvedSecretRef` is written before the cleanup that needs its old value, and the old value comes from the cache: a retry or a stale read leaves the previous generated Secret behind. |
| `shared_consumer` | `QuiescentConsistent` | Two resources with the same consumer, as the tutorials create them, share one CAS service. Deleting one withdraws the service of the other. |
| `explicit_secret` | `PublishedSecretKept` | A Secret named by `spec.secretRef` is created with an owner reference that is never refreshed; after re-creation of the resource the garbage collector takes the published Secret. |
| `alternating_secret` | `SecretUpdatesEnd` | The client secret to register is read from the cached Secret before the CAS requests, the Secret to compare with after them. When the event of the last Update arrives in between, the older client secret is registered and written over the newer one. The same event has queued the item again, so the next reconcile starts at once, before the event of the new Update, and is again one version behind: the status patches are skipped as equal, and there is no backoff. One edit during the first reconcile starts it, and an event that takes longer than the way from the Update to the next cached read, and less than the requests to CAS, keeps it going. |

Other constants show more of the same kind: with two members of `Operators` (two replicas, or the old and the new
pod of a rolling update; leader election is off by default and commented out in the chart) `UniqueService` fails; with a blank consumer `DeletionCompletes` fails, because
`Delete` rejects what `Upsert` never registered while the finalizer is there; with `LateWrites` it fails too,
because two services of a consumer make every later `Delete` an error.

Four more observations, without a run:

- `patchStatus` compares with the cached copy: a retry that starts before a failure condition has reached the cache
  skips the success condition. The resource is then registered and published, and at rest, and reports a failure.
- `main` configures the logger before the stage is read (`main.go:48`, `config.go:55`): in `OperatorProcess`,
  `logger.development` is FALSE in every state, whatever `STAGE` says.
- `url.ParseRequestURI` accepts an absolute path, so `CAS_BASE_URL=/cas` passes `NewClient` and the manager starts,
  although `docs/operations/reference/operator_configuration_en.md` says that the operator fails to start when the
  variable is invalid.
- Two resources that resolve to one Secret never come to rest: each writes its name into the label
  `k8s.cloudogu.com/auth-registration`, and every write enqueues both. `two_resources` reaches this cycle; its
  `QuiescentConsistent` is about the other behaviours.

## 4. Proofs

Everything here holds for all constants that satisfy the named assumptions: any number of resources,
consumers, Secrets, specs, edits, failing requests and crashes.

| Theorem | States | Assumes |
|---|---|---|
| `CASTypeCorrect` | `CASSpec => []CASTypeOK` | |
| `IdsKeepConsumer` | `CASSpec => IdKeepsConsumer` | |
| `WritesStayOwn` | `CASSpec => WritesOwnService` | no late writes |
| `ServicesUnique` | `CASSpec => []UniqueService` | one operator, no late writes |
| `ResultsUsable` | `CASSpec => []ResultUsable` | one operator, no late writes |
| `TypeCorrect` | `Spec => []TypeOK` | |
| `UsesBackendAsSpecified` | `Spec => CASSpec` | |
| `OperatorIdsKeepConsumer` | `Spec => IdKeepsConsumer` | |
| `OperatorWritesStayOwn` | `Spec => WritesOwnService` | no late writes |
| `OperatorServicesUnique` | `Spec => []UniqueService` | one operator, no late writes |
| `OperatorResultsUsable` | `Spec => []ResultUsable` | one operator, no late writes |
| `FinalizerHolds` | `Spec => []HoldInv` | one operator |
| `ControlKept` | `Spec => ControlNotStolen` | one operator |
| `NoServiceLeftBehind` | `Spec => []NoOrphanedService` | one operator, no late writes, fixed consumers |
| `LifecycleImplemented` | `Spec => ImplementsLifecycle` | one operator, no late writes, fixed and distinct consumers |
| `NoReconcileLost` | `Spec => []QuiescentConsistent` | one operator, no late writes, distinct consumers |
| `PublishedSecretStays` | `Spec => PublishedSecretKept` | one operator, default Secrets |
| `ExitCodeHonest` | `Spec => []SuccessIsClean` (`OperatorProcess`) | |
| `ListsStayDecodable` | `Spec => []ListDecodable` (`CASClient`) | atoms apart |
| `ParametersRegistered` | `Spec => []ParamsRegistered` (`CASClient`) | atoms apart |
| `BackendImplemented` | `Spec => ImplementsBackend` (`CASClient`) | atoms apart |

### The hypotheses

They are hypotheses of the theorems that need them, not assumptions on the constants, and each one but the last
marks a limit of the code.

- *One operator* (`OneOperator`; `NoReconcileLost` also asks that there is one, since nothing is at rest in a
  system without a process that watches it). The chart asks for one replica. A rolling update starts the new pod
  before the old one has ended, and leader election is off: for that time only the theorems without the
  hypothesis hold.
- *No late writes* (`LateWrites = FALSE`). A POST or PUT the client has given up is not carried out later. The code
  does not guarantee it; `late_writes` and `IdsKeepConsumer` say what holds without it. Failing requests and lost
  answers are not excluded.
- *Fixed consumers* (`FixedConsumers`). Nobody edits `spec.consumer` of an AuthRegistration, nor re-creates it
  with another one. Otherwise the service of the old consumer is left behind (hazard at
  `authregistration_reconciler.go:54`).
- *Distinct consumers* (`DistinctConsumers`). No two AuthRegistrations have one consumer. `shared_consumer` violates
  `QuiescentConsistent` without it.
- *Default Secrets* (`DefaultSecrets`). No spec has a `secretRef`, so the owner reference is maintained.
  `explicit_secret` violates `PublishedSecretKept` without it.
- *Atoms apart* (`AtomsApart`). `None` and `Error` are neither records nor sequences, so a JSON value is not mistaken
  for a missing one or for the decoder's error. It says nothing about the code. It is a hypothesis rather than an
  `ASSUME` because TLC cannot evaluate it on model values, which satisfy it by what they are.

The constants of `CASClient` have assumptions of their own, which the run evaluates. A request projects to a
registration of `CASBackend`, and its parameters are sequences of parts (`RequestAssumption`). `Error` is none of the
values that occur in the operator's documents (`ErrorAssumption`). Foreign services have ids of their own, and those that can
be decoded carry no consumer's name (`ForeignAssumption`); they may otherwise be of any shape, decodable or not.

### The arguments

- *Types of the backend.* `CASTypeOK` is not inductive: a step reads the registration and the service of the
  call it continues. `CASInv` adds `CallOK`, what a call carries at each stage (from "write" on a valid
  registration, and a service named after its consumer).
- *Ids.* That registered services agree on the names of their ids is not inductive: a PUT or a late write in
  flight brings an id back after its service has been deleted. `IdInv` says it of all `Bearers` of an id, registered
  services, calls and the late write. A new bearer either takes id and name from a registered service
  (`UpsertPrepare`, `DeleteLookup`), or is given an id nobody bears (`IdsFor`). `WritesStayOwn` follows: the id a write or
  removal is addressed to belongs to the consumer of the call, also when the list it was found in is outdated
  (`OwnInv`). A late write is left out because it has no call any more.
- *Uniqueness.* `UniqueInv` adds that ids are unique and set, and `StageOK`: at "write" without an id no service
  has the consumer's name; at "write" with an id and at "remove" a registered service has this id and the
  consumer's name; after a successful `Delete` the consumer has none. With one operator nothing moves between
  the list and the write, so the lookup stays valid. A write that fails may have been carried out, but the
  next call starts with a new list.
- *Usable credentials.* `UsableInv` follows protocol, client id and hash from the payload through the registry
  into the result (`ServiceFits`, `ResultFits`).
- *The operator.* `OperatorInv` says which locals are set at which label (`JobOK`) and which stages of a
  backend call belong to which label (`CallFits`). One lemma per action shows that the action keeps it, and
  that it is a step of `CASNext` or leaves the backend alone. `TypeCorrect` and `UsesBackendAsSpecified` follow,
  and the theorems about the backend carry over without another look at the operator.
- *Stale copies.* `HoldInv` relates the live object, the cached one and the one in the worker's hands. Every copy
  is `Earlier`: of the same uid, what was set in it (finalizer, deletion) is still set, and equal generations mean
  equal specs. The cache knows every object with the finalizer, and one it shows finalized and not deleted is
  still there, because only this operator removes the finalizer and only for an object it has seen deleted.
  Hence an object in `handleReconcile` is there with its finalizer, and `handleDeletion` never holds an object
  whose name has been finalized anew.
- *Control of Secrets.* `SeenInv`: a cached Secret no event is outstanding for is the Secret. An accepted Update is
  therefore decided on the owner that is there. `AlreadyOwned` compares names only; by `HoldInv` the object being
  reconciled is alive with its uid, so an owner of its name that is alive is itself.
- *No service left behind.* `CallInv` adds that a call is for the consumer of the worker's object, and that at
  "unfinalize" the consumer has no service; `SpecsInv` that every copy has a spec users have written. A service
  is written only from `handleReconcile`, whose object has the finalizer by `HoldInv`; the finalizer goes only at
  "unfinalize". A second AuthRegistration with the same consumer does no harm here.
- *Refinement.* `LifecycleImplemented` shows it step by step: a change of `services` is an Upsert or a withdrawal of
  the one consumer concerned, a change of `ars` is one of the kinds of `ObjectStep`, and no step changes both.
- *Consistent at rest.* `QuiescentConsistent` speaks of states at rest only and says nothing inductive. `ConvergeInv`
  says of every state who will take care of an AuthRegistration: it is queued, or an outstanding event passes the
  predicates (`Waiting`), or an event for its Secret is outstanding (`Announced`), or everything is as it should be
  (`SettledNow`), or a reconcile of it has yet to write the Secret (`Unfinished`). Of such a reconcile `Current` says
  that the name is waiting again or that what it has derived from the spec is what the live spec asks for and
  what CAS holds. The hard steps are the edit of a spec under a running reconcile (the generation changes, so the event
  passes), the merge patch that refreshes the worker's object in the middle of a reconcile, the Update of a
  stale Secret (refused, the name is queued again), and the change of the service by a second reconcile after
  the Secret was written from the cache one version behind (the Secret's event is still outstanding).
- *Published Secrets.* `KeepInv`: the owner of a default Secret is its AuthRegistration, in this life or an
  earlier one, and a cached owner is never younger than the real one; every copy of the present object that
  reports the Secret as published speaks of a Secret it owns, and `resolvedSecretRef` is never another name. A new
  object under an old name reports nothing until its own reconcile has taken the Secret over, so the garbage
  collector, which comes for the earlier uid, never takes a Secret that is reported; the cleanup has nothing to remove,
  because the previous name is the present one.
- *Exit code.* `ProcessInv`: the manager is off until it is started, the error channel is filled only by its return, and with
  a clean value only when the worker has come to rest, and nothing moves after the end.
- *The wire.* First the codec, without any state: a Java set is the same set after CAS has listed it in either order
  (`JavaSetListed`, `JavaSetDecoded`); a stored payload decodes to its consumer, id, client id, hash and class, and
  to a service that is not an error (`PayloadStored`, `OwnDecoded`); a foreign document decodes alike in both orders
  (`ForeignDecoded`); and a list decodes, in each of its forms, exactly when each of its documents does (`ListDecoded`). Then
  the search: over such a list `findServiceByConsumer` finds the consumer's document if there is one and is never
  ambiguous (`SearchFinds`). `ClientInv` is inductive: `RegistryInv` says that the registry is finite and that its own
  documents are well-formed and unique by consumer and by id; `CallInv` what a call has in its hands at each stage, in
  particular that a payload about to be written replaces the consumer's document or that there is none
  (`ReadyToWrite`), and that the document written describes the request (`Written`). `ParamsRegistered` is not inductive
  without the latter: at "ok" the parameters are compared with a document written two steps earlier.
- *The loop of* `newSetParam`. That it collects exactly the parts that are not blank needs induction over their number, and
  the library's induction theorems cannot be instantiated here. `LeastElement` (the order on the naturals is well-founded)
  replaces them: the least number of parts at which the loop had gone wrong would come from one less.
- *Refinement of the backend.* `BackendImplemented` goes request by request: a list is `UpsertPrepare` or `DeleteLookup` of
  the mapped services, with the same match, the same error and the same payload (`ListMapped`); saving a document changes
  the mapped services as `CASBackend` does (`SaveMapped`, `WriteMapped`); the rest is `ResultMapped`, `DeleteMapped` and, for
  steps of others, `UnseenMapped`.

`HoldInv`, `ConvergeInv` and `KeepInv` were model-checked on the instances of the runs before they were proved.
`ClientInv` speaks of unbounded sets of sequences, which TLC does not enumerate; the run checks the three properties that follow
from it.

### Only model-checked

- Liveness: `DeletionCompletes`, `EventuallySettled`, `FqdnFollowed`, `RejectionReported`, `ShutdownCompletes`,
  `RequestsEnd`. Fairness and ENABLED are out of TLAPS's reach.

Every invariant and action property of a passing run, and both refinements, are theorems.

## 5. Not modelled

`internal/config/controller.go` and `flags.go` copy flags into options of the metrics server, the webhook server,
the probe and TLS once, at start; there is no state and no decision to get wrong in an order of steps. Template
names, logout URLs and the escaping in the service-id pattern are strings nobody reads back. The helm chart and
the vendored modules have no behaviour of their own here; leader election is off and not modelled.

Known and not covered by a property: the cleanup judges the previous Secret by its cached copy and deletes
without a precondition (`authregistration_reconciler.go:134`), and an edited `spec.consumer` leaves the service of
the old consumer behind (`authregistration_reconciler.go:54`); no document says what should happen.

## 6. Plan

1. Done: data, backend, operator, lifecycle, their runs; theorems on the backend and on its use by the
   operator.
2. Done: the wire (`CASClient`) and the process (`OperatorProcess`); the FQDN; late writes; ids for any number of
   operators.
3. Done: every safety property of `CASBackend`, `CASClient`, `Operator` and `OperatorProcess` that a passing run
   checks, as a theorem.
4. Left: `PublishedSecretKept` under a weaker hypothesis than default Secrets (explicit names in one life of an
   AuthRegistration).
