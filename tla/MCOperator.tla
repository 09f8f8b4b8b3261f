------------------------------- MODULE MCOperator -------------------------------
(***************************************************************************)
(* Values of the constants of Operator for TLC.                            *)
(***************************************************************************)
EXTENDS OperatorLifecycle

CONSTANTS r1, r2, c1, c2, x1, k1, k2, e1, p1

\* r1-credentials is k1, r2-credentials is k2; e1 is a name users choose.
MCDefaultSecret == [n \in Names |-> IF n = r1 THEN k1 ELSE k2]

UserSpec(protocol, consumer, secretRef, clientId) ==
    [protocol |-> protocol, consumer |-> consumer, secretRef |-> secretRef,
     clientId |-> clientId]

\* One AuthRegistration that moves between the generated and an explicit Secret.
SwitchSecretSpecs ==
    [n \in Names |-> {UserSpec("OIDC", c1, None, None), UserSpec("OIDC", c1, e1, x1)}]

\* One AuthRegistration that never changes.
OneSpec == [n \in Names |-> {UserSpec("OIDC", c1, None, None)}]

\* One AuthRegistration that is given a client id.
ClientIdSpecs ==
    [n \in Names |-> {UserSpec("OIDC", c1, None, None), UserSpec("OIDC", c1, None, x1)}]

\* Protocol, owner management and client id change on one Secret.
MixedSpecs ==
    [n \in Names |-> {UserSpec("OIDC", c1, k1, None), UserSpec("CAS", c1, None, None)}]

\* A valid spec, and specs rejected for the secretRef and for the protocol.
LiveSpecs ==
    [n \in Names |->
        {UserSpec("OAUTH", c1, None, None), UserSpec("OIDC", c1, Blank, None),
         UserSpec("unsupported", c1, None, None)}]

\* One AuthRegistration with an explicit Secret.
ExplicitSpec == [n \in Names |-> {UserSpec("OIDC", c1, k1, None)}]

\* Two AuthRegistrations for one consumer, as in the tutorials.
SharedConsumerSpecs ==
    [n \in Names |-> {UserSpec("OIDC", c1, None, None)}]

\* Two AuthRegistrations with a consumer of their own; r2 publishes into its own
\* Secret or into the one that is r1's by default.
PairSpecs ==
    [n \in Names |-> IF n = r1 THEN {UserSpec("CAS", c1, None, None)}
                     ELSE {UserSpec("OIDC", c2, None, None), UserSpec("CAS", c2, k1, None)}]

\* One AuthRegistration that moves from one consumer to another.
MovingSpecs ==
    [n \in Names |-> {UserSpec("OIDC", c1, None, None), UserSpec("CAS", c2, None, None)}]

\* Secrets tampered with: emptied, or given a client secret by hand.
TamperedData == {NoData,
    [NoData EXCEPT !["OIDC"] = [id |-> c1, secret |-> p1, fqdn |-> None]]}

================================================================================
