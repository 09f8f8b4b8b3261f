------------------------------ MODULE MCCASClient ------------------------------
(***************************************************************************)
(* Values of the constants of CASClient for TLC.                           *)
(***************************************************************************)
EXTENDS CASClient

CONSTANTS a1, a2, c1, c2, j1, j2, j3

\* The backend never looks at the names of Secrets.
MCDefaultSecret == [n \in Names |-> CHOOSE s \in SecretNames : TRUE]

Request(protocol, consumer, scopes, audience) ==
    [protocol |-> protocol, consumer |-> consumer, clientId |-> None,
     params |-> [scopes |-> scopes, audience |-> audience]]

\* Parameters: none, one value, two in either order with white space or a
\* repetition between the commas, and commas only.
MCRequests ==
    {Request("CAS", c1, <<a1>>, None),
     Request("OIDC", c1, <<a2, Blank, a1>>, <<a1>>),
     Request("OIDC", c1, <<a1, a2, a1>>, None),
     Request("OAUTH", c1, <<Blank, Blank>>, <<a1, a2>>),
     Request("OAUTH", c2, <<a1>>, None),
     Request("OIDC", Blank, None, None),
     Request("unsupported", c1, None, None)}

Foreign(id, fields) == Obj(("id" :> Num(id)) @@ ("@class" :> Str("RegexRegisteredService")) @@ fields)

\* Services not written by the operator: without properties and with a plain
\* array, with properties that have no name or no values, and one with a plain
\* array of two, which the decoder takes for a Java collection and rejects.
MCForeignServices ==
    {Foreign(j1, "scopes" :> Arr(<<Str(a1)>>)),
     Foreign(j2, "properties" :> Obj([ServiceName |-> Obj([values |-> Null]), Other |-> Null])),
     Foreign(j3, "scopes" :> Arr(<<Str(a1), Str(a2)>>))}

================================================================================
