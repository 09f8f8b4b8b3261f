---------------------------- MODULE OperatorProcess ----------------------------
(***************************************************************************)
(* The operator as a process: configuration from the environment, start    *)
(* of the manager, and the graceful shutdown, in which the main goroutine, *)
(* the manager's goroutine, its worker, a timer and the kubelet meet.      *)
(*                                                                         *)
(* Strings of the environment are represented by one member of each class  *)
(* the code tells apart; an unset variable is None.  Time is not counted:  *)
(* the timer may fire, and the kubelet may kill, at any moment after the   *)
(* signal, so that every order of 15 s timer and grace period occurs.      *)
(***************************************************************************)
EXTENDS Integers

CONSTANTS
    None,             \* unset, absent
    Environments      \* the environments the process may be started in

VARIABLES
    env,              \* the environment
    stage,            \* package variable config.Stage
    logger,           \* options of the logger
    conf,             \* OperatorConfig, then the settings of the CAS client
    pc,               \* the main goroutine
    signalled,        \* SIGTERM has arrived
    cancelled,        \* managerCtx is cancelled
    manager,          \* the manager's goroutine
    managerErrCh,     \* the channel it reports to (one slot), or None
    worker,           \* the reconcile worker
    timer,            \* shutdownTimer
    exit              \* how the process has ended

vars == <<env, stage, logger, conf, pc, signalled, cancelled, manager, managerErrCh,
          worker, timer, exit>>

ASSUME EnvironmentAssumption ==
    \A e \in Environments : DOMAIN e = {"STAGE", "LOG_LEVEL", "NAMESPACE", "CAS_BASE_URL",
                                        "CAS_USERNAME", "CAS_PASSWORD", "CAS_TIMEOUT"}

\* A request of the worker to CAS ends with managerCtx; the second read of the
\* global config uses a context of its own ("detached").
Init ==
    /\ env \in Environments
    /\ stage = "production"
    /\ logger = None
    /\ conf = None
    /\ pc = "ConfigureLogger"
    /\ signalled = FALSE
    /\ cancelled = FALSE
    /\ manager = "off"
    /\ managerErrCh = None
    /\ worker = "idle"
    /\ timer = "off"
    /\ exit = "running"

runVars == <<signalled, cancelled, manager, managerErrCh, worker, timer>>

Exit(code) == pc' = "exited" /\ exit' = code

-------------------------------------------------------------------------------
(***************************************************************************)
(* Configuration                                                           *)
(***************************************************************************)

defaultCASTimeout == 10
defaultClientTimeout == 10

\* strings.TrimSpace, and strings.TrimRight of "/" for the URL.
Trim(value) == IF value \in {" ", "/"} THEN "" ELSE value

\* url.ParseRequestURI takes an absolute URL and an absolute path (external).
ParseRequestURI(url) == url \in {"https://host/cas", "/cas"}

\* time.ParseDuration in seconds; None is an error (external).
ParseDuration(value) ==
    CASE value = "-5s" -> -5 [] value = "0s" -> 0 [] value = "5s" -> 5 [] OTHER -> None

getEnvDuration(value, default) ==
    IF value \in {None, ""} THEN default ELSE ParseDuration(value)

\* Faulty: only a negative timeout is replaced.
clientTimeoutSigned(timeout) == IF timeout < 0 THEN defaultClientTimeout ELSE timeout

\* The timeout NewClient gives the HTTP client, for which 0 means none.
clientTimeout(timeout) == IF timeout <= 0 THEN defaultClientTimeout ELSE timeout

\* getZapOptions: an unset or unknown level becomes info.
ConfigureLogger ==
    /\ pc = "ConfigureLogger"
    /\ logger' = [level |-> IF env.LOG_LEVEL \in {"debug", "warn"} THEN env.LOG_LEVEL ELSE "info",
                  development |-> stage = "development"]
    /\ pc' = "NewOperatorConfig"
    /\ UNCHANGED <<env, stage, conf, runVars, exit>>

\* configureStage, GetNamespace, getCASConfig.
NewOperatorConfig ==
    LET timeout == getEnvDuration(env.CAS_TIMEOUT, defaultCASTimeout)
        missing == \/ None \in {env.NAMESPACE, env.CAS_BASE_URL, env.CAS_USERNAME, env.CAS_PASSWORD}
                   \/ timeout = None
    IN  /\ pc = "NewOperatorConfig"
        /\ stage' = IF env.STAGE = None THEN "production" ELSE env.STAGE
        /\ \/ missing /\ Exit("failure") /\ UNCHANGED conf
           \/ /\ ~missing
              /\ conf' = [BaseURL |-> env.CAS_BASE_URL, Username |-> env.CAS_USERNAME,
                          Password |-> env.CAS_PASSWORD, Timeout |-> timeout]
              /\ pc' = "startManager"
              /\ UNCHANGED exit
        /\ UNCHANGED <<env, logger, runVars>>

\* startManager up to the goroutine: NewClient validates the settings; the other
\* constructors may fail for reasons of their own.
startManager ==
    LET url   == Trim(conf.BaseURL)
        valid == url # "" /\ ParseRequestURI(url)
                    /\ Trim(conf.Username) # "" /\ Trim(conf.Password) # ""
    IN  /\ pc = "startManager"
        /\ \/ Exit("failure") /\ UNCHANGED <<conf, manager>>
           \/ /\ valid
              /\ conf' = [conf EXCEPT !.BaseURL = url, !.Timeout = clientTimeout(@)]
              /\ manager' = "running"
              /\ pc' = "select"
              /\ UNCHANGED exit
        /\ UNCHANGED <<env, stage, logger, signalled, cancelled, managerErrCh, worker, timer>>

-------------------------------------------------------------------------------
(***************************************************************************)
(* startManagerWithGracefulShutdown                                        *)
(***************************************************************************)

\* The first select; when both cases are ready either is taken.  An error of the
\* manager, whichever, is a failure here.
awaitEndOrSignal ==
    /\ pc = "select"
    /\ \/ /\ managerErrCh # None
          /\ Exit(IF managerErrCh # "nil" THEN "failure" ELSE "success")
          /\ UNCHANGED <<cancelled, timer>>
       \/ /\ signalled
          /\ cancelled' = TRUE
          /\ timer' = "armed"
          /\ pc' = "shutdown"
          /\ UNCHANGED exit
    /\ UNCHANGED <<env, stage, logger, conf, signalled, manager, managerErrCh, worker>>

\* Faulty: the process does not give up on a manager that does not end.
awaitManager ==
    /\ pc = "shutdown"
    /\ managerErrCh # None
    /\ Exit(IF managerErrCh \notin {"nil", "canceled"} THEN "failure" ELSE "success")
    /\ UNCHANGED <<env, stage, logger, conf, runVars>>

\* Faulty: the timeout is not an error.
awaitManagerSilently ==
    /\ pc = "shutdown"
    /\ managerErrCh # None \/ timer = "fired"
    /\ Exit(IF managerErrCh \notin {None, "nil", "canceled"} THEN "failure" ELSE "success")
    /\ UNCHANGED <<env, stage, logger, conf, runVars>>

\* The second select.
awaitManagerOrTimeout ==
    /\ pc = "shutdown"
    /\ \/ /\ managerErrCh # None
          /\ Exit(IF managerErrCh \notin {"nil", "canceled"} THEN "failure" ELSE "success")
       \/ timer = "fired" /\ Exit("failure")
    /\ UNCHANGED <<env, stage, logger, conf, runVars>>

-------------------------------------------------------------------------------
(***************************************************************************)
(* Manager, worker, timer, kubelet (external)                              *)
(***************************************************************************)

Running == exit = "running"

\* The manager stops when its context is cancelled, or when a part of it fails.
ManagerStops(reason) ==
    /\ Running
    /\ manager = "running"
    /\ reason = "error" \/ cancelled
    /\ manager' = reason
    /\ UNCHANGED <<env, stage, logger, conf, pc, signalled, cancelled, managerErrCh,
                   worker, timer, exit>>

\* It returns once the worker has returned, or with an error when it has waited
\* long enough.
ManagerReturns ==
    /\ Running
    /\ manager \in {"nil", "canceled", "error"}
    /\ managerErrCh' = IF worker = "idle" THEN manager ELSE "error"
    /\ manager' = "ended"
    /\ UNCHANGED <<env, stage, logger, conf, pc, signalled, cancelled, worker, timer, exit>>

\* The worker takes an item, asks CAS, reads the global config, and returns.
WorkerStep(from, to) ==
    /\ Running
    /\ worker = from
    /\ worker' = to
    /\ UNCHANGED <<env, stage, logger, conf, pc, signalled, cancelled, manager,
                   managerErrCh, timer, exit>>

WorkerTakes == manager = "running" /\ ~cancelled /\ WorkerStep("idle", "request")

RequestAnswered == WorkerStep("request", "detached")

\* The HTTP client gives up after its timeout, if it has one, and at once when
\* the context of the manager ends.
RequestAborted ==
    /\ WorkerStep("request", "idle")
    /\ conf.Timeout > 0 \/ manager # "running"

ConfigRead == WorkerStep("detached", "idle")

TimerFires ==
    /\ Running
    /\ timer = "armed"
    /\ timer' = "fired"
    /\ UNCHANGED <<env, stage, logger, conf, pc, signalled, cancelled, manager,
                   managerErrCh, worker, exit>>

\* SIGTERM ends the process as long as no handler is installed.
Signal ==
    /\ Running
    /\ ~signalled
    /\ signalled' = TRUE
    /\ IF pc \in {"ConfigureLogger", "NewOperatorConfig", "startManager"}
       THEN Exit("killed") ELSE UNCHANGED <<pc, exit>>
    /\ UNCHANGED <<env, stage, logger, conf, cancelled, manager, managerErrCh, worker, timer>>

\* The grace period of the pod is over.
Kill ==
    /\ Running
    /\ signalled
    /\ Exit("killed")
    /\ UNCHANGED <<env, stage, logger, conf, runVars>>

Main ==
    \/ ConfigureLogger
    \/ NewOperatorConfig
    \/ startManager
    \/ awaitEndOrSignal
    \/ awaitManagerOrTimeout

Next ==
    \/ Main
    \/ \E reason \in {"nil", "canceled", "error"} : ManagerStops(reason)
    \/ ManagerReturns
    \/ WorkerTakes
    \/ RequestAnswered
    \/ RequestAborted
    \/ ConfigRead
    \/ TimerFires
    \/ Signal
    \/ Kill

\* Main goroutine and timer go on, and the HTTP client keeps its timeout.  There
\* is no fairness on CAS, the API server, the manager or the kubelet.
Spec ==
    Init /\ [][Next]_vars /\ WF_vars(Main) /\ WF_vars(TimerFires) /\ WF_vars(RequestAborted)

-------------------------------------------------------------------------------
(***************************************************************************)
(* Properties                                                              *)
(***************************************************************************)

\* The process reports success only when the manager has ended without an error
\* and no reconcile is cut off: an error of the manager that coincides with the
\* signal is still in the channel for the second select, and a timeout is a
\* failure.
SuccessIsClean ==
    exit = "success" =>
        manager = "ended" /\ managerErrCh \in {"nil", "canceled"} /\ worker = "idle"

\* After SIGTERM the process ends by itself, even when a reconcile hangs in the
\* read of the global config, which the shutdown does not cancel.
ShutdownCompletes == signalled ~> exit # "running"

\* The only worker is never blocked by CAS for good: whatever CAS_TIMEOUT says, a
\* request without an answer ends.
RequestsEnd == worker = "request" ~> (worker # "request" \/ exit # "running")

================================================================================
