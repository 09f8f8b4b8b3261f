--------------------------- MODULE MCOperatorProcess ---------------------------
(***************************************************************************)
(* Values of the constants of OperatorProcess for TLC: one string of every *)
(* class the code tells apart, for every variable.                         *)
(***************************************************************************)
EXTENDS OperatorProcess

MCEnvironments ==
    [STAGE        : {None, "development", "production"},
     LOG_LEVEL    : {None, "debug", "?"},
     NAMESPACE    : {None, "ecosystem"},
     CAS_BASE_URL : {None, "", " ", "/", "?", "/cas", "https://host/cas"},
     CAS_USERNAME : {None, " ", "user"},
     CAS_PASSWORD : {None, " ", "pass"},
     CAS_TIMEOUT  : {None, "", "?", "-5s", "0s", "5s"}]

================================================================================
