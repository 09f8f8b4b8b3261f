------------------------- MODULE OperatorProcessProofs -------------------------
(***************************************************************************)
(* Proofs about OperatorProcess: the exit code of the process.             *)
(***************************************************************************)
EXTENDS OperatorProcess, TLAPS

\* The manager has not been started.
Starting == pc \in {"ConfigureLogger", "NewOperatorConfig", "startManager"}

\* The channel is filled only by the manager's return, and with "nil" or
\* "canceled" only after its worker has come to rest.
ChannelOK ==
    /\ manager # "ended" => managerErrCh = None
    /\ manager = "ended" /\ managerErrCh \in {"nil", "canceled"} => worker = "idle"

\* SuccessIsClean is not inductive: that nothing takes the clean end back needs
\* the content of the channel, the order of the phases and the end of them all.
ProcessInv ==
    /\ Starting => manager = "off"
    /\ ChannelOK
    /\ exit # "running" => pc = "exited"
    /\ SuccessIsClean

LEMMA ProcessInvInit == Init => ProcessInv
  BY DEF Init, ProcessInv, Starting, ChannelOK, SuccessIsClean

\* Configuration and start: the manager is not yet there.
LEMMA StartStep ==
  ASSUME ProcessInv, ConfigureLogger \/ NewOperatorConfig \/ startManager
  PROVE  ProcessInv'
  <1>1. /\ manager = "off" /\ managerErrCh = None /\ exit = "running"
        /\ worker' = worker /\ managerErrCh' = managerErrCh
    BY DEF ProcessInv, Starting, ChannelOK, ConfigureLogger, NewOperatorConfig, startManager,
           runVars
  <1>2. CASE ConfigureLogger
    BY <1>1, <1>2 DEF ProcessInv, Starting, ChannelOK, SuccessIsClean, ConfigureLogger, runVars
  <1>3. CASE NewOperatorConfig
    BY <1>1, <1>3
    DEF ProcessInv, Starting, ChannelOK, SuccessIsClean, NewOperatorConfig, Exit, runVars
  <1>4. CASE startManager
    BY <1>1, <1>4 DEF ProcessInv, Starting, ChannelOK, SuccessIsClean, startManager, Exit
  <1> QED BY <1>2, <1>3, <1>4

\* The two selects: success is read off the channel.
LEMMA SelectStep ==
  ASSUME ProcessInv, awaitEndOrSignal \/ awaitManagerOrTimeout
  PROVE  ProcessInv'
  <1>1. /\ pc \in {"select", "shutdown"} /\ exit = "running"
        /\ UNCHANGED <<manager, managerErrCh, worker>>
    BY DEF ProcessInv, awaitEndOrSignal, awaitManagerOrTimeout, runVars
  <1>2. pc' \in {"shutdown", "exited"} /\ (exit' # "running" => pc' = "exited")
    BY <1>1 DEF awaitEndOrSignal, awaitManagerOrTimeout, Exit
  <1>3. exit' = "success" => managerErrCh # None /\ managerErrCh \in {"nil", "canceled"}
    BY <1>1 DEF awaitEndOrSignal, awaitManagerOrTimeout, Exit
  <1>4. exit' = "success" => manager = "ended" /\ worker = "idle"
    BY <1>3 DEF ProcessInv, ChannelOK
  <1> QED BY <1>1, <1>2, <1>3, <1>4 DEF ProcessInv, Starting, ChannelOK, SuccessIsClean

\* Manager, worker and timer move only while the process runs.
LEMMA ManagerStep ==
  ASSUME ProcessInv,
         \/ \E reason \in {"nil", "canceled", "error"} : ManagerStops(reason)
         \/ ManagerReturns \/ WorkerTakes \/ RequestAnswered \/ RequestAborted
         \/ ConfigRead \/ TimerFires
  PROVE  ProcessInv'
  <1>1. exit = "running" /\ exit' = exit /\ pc' = pc
    BY DEF ManagerStops, ManagerReturns, WorkerTakes, RequestAnswered, RequestAborted,
           ConfigRead, WorkerStep, TimerFires, Running
  <1>2. CASE \E reason \in {"nil", "canceled", "error"} : ManagerStops(reason)
    BY <1>1, <1>2 DEF ProcessInv, Starting, ChannelOK, SuccessIsClean, ManagerStops
  <1>3. CASE ManagerReturns
    BY <1>1, <1>3 DEF ProcessInv, Starting, ChannelOK, SuccessIsClean, ManagerReturns
  <1>4. CASE WorkerTakes
    BY <1>1, <1>4 DEF ProcessInv, Starting, ChannelOK, SuccessIsClean, WorkerTakes, WorkerStep
  <1>5. CASE RequestAnswered \/ RequestAborted \/ ConfigRead
    BY <1>1, <1>5
    DEF ProcessInv, Starting, ChannelOK, SuccessIsClean, RequestAnswered, RequestAborted,
        ConfigRead, WorkerStep
  <1>6. CASE TimerFires
    BY <1>1, <1>6 DEF ProcessInv, Starting, ChannelOK, SuccessIsClean, TimerFires
  <1> QED BY <1>2, <1>3, <1>4, <1>5, <1>6

LEMMA KubeletStep ==
  ASSUME ProcessInv, Signal \/ Kill
  PROVE  ProcessInv'
  <1>1. /\ exit = "running" /\ UNCHANGED <<manager, managerErrCh, worker>>
        /\ (exit' = "killed" /\ pc' = "exited") \/ UNCHANGED <<exit, pc>>
    BY DEF Signal, Kill, Exit, Running, runVars
  <1> QED BY <1>1 DEF ProcessInv, Starting, ChannelOK, SuccessIsClean

LEMMA ProcessInvStep == ProcessInv /\ [Next]_vars => ProcessInv'
  <1> SUFFICES ASSUME ProcessInv, [Next]_vars PROVE ProcessInv'
    OBVIOUS
  <1>1. CASE UNCHANGED vars
    BY <1>1 DEF vars, ProcessInv, Starting, ChannelOK, SuccessIsClean
  <1> QED BY <1>1, StartStep, SelectStep, ManagerStep, KubeletStep DEF Next, Main

\* In whatever environment the process starts and however signal, timer, manager
\* and worker overtake each other, exit code 0 means that the manager returned
\* without an error and that no reconcile was cut off.
THEOREM ExitCodeHonest == Spec => []SuccessIsClean
  <1>1. ProcessInv => SuccessIsClean
    BY DEF ProcessInv
  <1> QED BY <1>1, ProcessInvInit, ProcessInvStep, PTL DEF Spec

================================================================================
