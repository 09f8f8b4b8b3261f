------------------------- MODULE RegistrationLifecycle -------------------------
(***************************************************************************)
(* What the operator promises about the life of a registration: a service  *)
(* is registered only for an AuthRegistration that is protected by the     *)
(* finalizer, it is withdrawn only when that AuthRegistration is being     *)
(* deleted, and the object disappears only after the withdrawal.           *)
(***************************************************************************)

CONSTANT Names

VARIABLES
    phase,            \* phase[n]: where the AuthRegistration n is in its life
    registered        \* the names whose consumer has a service in CAS

lifecycleVars == <<phase, registered>>

Phases == {"absent", "unprotected", "protected", "terminating"}

LifecycleInit ==
    /\ phase = [n \in Names |-> "absent"]
    /\ registered = {}

Moves(n, from, to) ==
    /\ phase[n] = from
    /\ phase' = [phase EXCEPT ![n] = to]
    /\ UNCHANGED registered

Create(n) == Moves(n, "absent", "unprotected")

\* Deleted before the operator saw it.
Discard(n) == Moves(n, "unprotected", "absent")

Protect(n) == Moves(n, "unprotected", "protected")

Terminate(n) == Moves(n, "protected", "terminating")

Vanish(n) == n \notin registered /\ Moves(n, "terminating", "absent")

Register(n) ==
    /\ phase[n] \in {"protected", "terminating"}
    /\ registered' = registered \union {n}
    /\ UNCHANGED phase

Withdraw(n) ==
    /\ phase[n] = "terminating"
    /\ registered' = registered \ {n}
    /\ UNCHANGED phase

LifecycleNext ==
    \E n \in Names :
        \/ Create(n) \/ Discard(n) \/ Protect(n)
        \/ Register(n) \/ Terminate(n) \/ Withdraw(n) \/ Vanish(n)

LifecycleSpec == LifecycleInit /\ [][LifecycleNext]_lifecycleVars

================================================================================
