--------------------------- MODULE OperatorLifecycle ---------------------------
(***************************************************************************)
(* Operator implements RegistrationLifecycle: the phase is read off the    *)
(* AuthRegistration in the API server, the registration off CAS.           *)
(***************************************************************************)
EXTENDS Operator

PhaseOf(a) ==
    CASE a = None                                -> "absent"
      [] a # None /\ ~a.finalizer                -> "unprotected"
      [] a # None /\ a.finalizer /\ ~a.deleting  -> "protected"
      [] OTHER                                   -> "terminating"

IsRegistered(n) ==
    \E s \in services, spec \in UserSpecs[n] : s.name = spec.consumer

Lifecycle == INSTANCE RegistrationLifecycle WITH
    phase      <- [n \in Names |-> PhaseOf(ars[n])],
    registered <- {n \in Names : IsRegistered(n)}

\* The operator keeps the promise of RegistrationLifecycle: with stale caches,
\* failing requests, retries, crashes and quick re-creation of the object, CAS
\* never holds a service for an AuthRegistration without finalizer, never loses
\* one that is not being deleted, and never keeps one of an object that is gone.
ImplementsLifecycle == Lifecycle!LifecycleSpec

================================================================================
