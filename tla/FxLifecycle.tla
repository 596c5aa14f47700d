----------------------------- MODULE FxLifecycle -----------------------------
(***************************************************************************)
(* FxRunner together with the modules that call it: FxMonitor, which looks  *)
(* at the server every second and restarts it when it is gone or hung,      *)
(* FxScheduler, which restarts it at given times, and the control routes of *)
(* the administrators.  The monitor keeps one flag of its own,              *)
(* isAwaitingRestart: while it is set the monitor skips its checks, until   *)
(* spawnServer (or an idle server) resets it.                               *)
(*                                                                         *)
(* Every step is a step of FxRunner, or leaves its variables unchanged.     *)
(***************************************************************************)
EXTENDS FxRunner

CONSTANT AdminActions   \* the control requests administrators make

ASSUME AdminActionsAssumption ==
    AdminActions \subseteq {"start", "stop", "restart", "deploy"}

VARIABLES
    isAwaitingRestart,      \* fxMonitor.isAwaitingRestart
    spawnFailed             \* history: a spawn ended without a server, and
                            \* none has been spawned since

lifeVars == <<vars, isAwaitingRestart, spawnFailed>>

LifeTypeOK ==
    /\ TypeOK
    /\ isAwaitingRestart \in BOOLEAN
    /\ spawnFailed \in BOOLEAN

LifeInit ==
    /\ Init
    /\ isAwaitingRestart = FALSE
    /\ spawnFailed = FALSE

-----------------------------------------------------------------------------
(* FxMonitor.updateStatus.  Its interval is cleared when the panel starts   *)
(* to shut down.                                                            *)

\* The server is supposed to be down: resetState.
MonitorIdle ==
    /\ panel = "running"
    /\ IsIdle
    /\ isAwaitingRestart' = FALSE
    /\ UNCHANGED <<vars, spawnFailed>>

\* Mutant: a dead server is left to somebody else, as the scheduler does.
MonitorRestartsAlive(c) ==
    /\ panel = "running"
    /\ IsAlive
    /\ ~isAwaitingRestart
    /\ isAwaitingRestart' = TRUE
    /\ RestartServer(c)
    /\ UNCHANGED spawnFailed

MonitorRestarts(c) ==
    /\ panel = "running"
    /\ ~IsIdle
    /\ ~isAwaitingRestart
    /\ proc # NoProc
    /\ isAwaitingRestart' = TRUE
    /\ RestartServer(c)
    /\ UNCHANGED spawnFailed

\* "Server process close detected": restart without waiting for a limit.
MonitorCloseDetected(c) ==
    /\ childStatus = "Destroyed"
    /\ MonitorRestarts(c)

\* "Server is not responding" or "Server boot timed out": a heartbeat or
\* health check limit passed (FxMonitor models which and when).
MonitorLimitPassed(c) ==
    /\ childStatus # "Destroyed"
    /\ MonitorRestarts(c)

-----------------------------------------------------------------------------
(* FxScheduler.triggerServerRestart.                                        *)

\* Mutant: without its sanity check.
SchedulerRestartsUnchecked(c) ==
    /\ RestartServer(c)
    /\ UNCHANGED <<isAwaitingRestart, spawnFailed>>

\* Skipped when the server is not running.
SchedulerRestarts(c) ==
    /\ ~IsIdle
    /\ IsAlive
    /\ RestartServer(c)
    /\ UNCHANGED <<isAwaitingRestart, spawnFailed>>

-----------------------------------------------------------------------------
(* Control routes, and the resumption of what they began.                   *)

AdminRequest(c) ==
    /\ \/ "start" \in AdminActions /\ StartServer(c)
       \/ "stop" \in AdminActions /\ StopServer(c)
       \/ "restart" \in AdminActions /\ RestartServer(c)
       \/ "deploy" \in AdminActions /\ DeployServer(c)
       \/ SignalStartReady(c)
    /\ UNCHANGED <<isAwaitingRestart, spawnFailed>>

\* A spawn returns, there is no server, and it was not refused at its head.
SpawnEndsWithout(c) ==
    /\ call[c].pc \in {"preparing", "locale", "validating"}
    /\ call'[c].pc = "idle"
    /\ proc' = NoProc

\* Mutant: spawnServer does not reset the monitor.
SpawnResetsMonitorNot(c) ==
    /\ SpawnValidated(c)
    /\ spawnFailed' = FALSE
    /\ UNCHANGED isAwaitingRestart

\* spawnServer resets the monitor right before it spawns the child, which
\* the OS may then refuse to run.
SpawnResetsMonitor(c) ==
    /\ \/ SpawnValidated(c) /\ spawnFailed' = FALSE
       \/ /\ At(c, "validating") /\ SpawnFailed(c)
          /\ spawnFailed' = (spawnFailed \/ SpawnEndsWithout(c))
    /\ isAwaitingRestart' = FALSE

ResumeOther(c) ==
    /\ \/ NoticeElapsed(c)
       \/ RestartDelayElapsed(c)
       \/ SpawnPrepared(c)
       \/ SpawnFailed(c)
       \/ SpawnLocale(c)
       \/ SpawnLogged(c)
    /\ spawnFailed' = (spawnFailed \/ SpawnEndsWithout(c))
    /\ UNCHANGED isAwaitingRestart

LifeResume(c) == SpawnResetsMonitor(c) \/ ResumeOther(c)

LifeNext ==
    \/ MonitorIdle
    \/ \E c \in Calls :
          \/ MonitorCloseDetected(c)
          \/ MonitorLimitPassed(c)
          \/ SchedulerRestarts(c)
          \/ AdminRequest(c)
          \/ LifeResume(c)
    \/ /\ Environment \/ GracefulShutdown \/ QuitProcess \/ Terminated
       /\ UNCHANGED <<isAwaitingRestart, spawnFailed>>

LifeSpec == LifeInit /\ [][LifeNext]_lifeVars

\* The event loop runs every timer and settled await; the monitor interval
\* fires every second; a process that was told to end does, and Node reports
\* its exit and the close of its pipes.
Fairness ==
    /\ \A c \in Calls : WF_lifeVars(LifeResume(c))
    /\ WF_lifeVars(MonitorIdle)
    /\ WF_lifeVars(\E c \in Calls : MonitorCloseDetected(c))
    /\ \A p \in Procs : WF_lifeVars(p \in signalled /\ ProcessEnds(p)
                                    /\ UNCHANGED <<isAwaitingRestart, spawnFailed>>)
    /\ WF_lifeVars(ExitEvent /\ UNCHANGED <<isAwaitingRestart, spawnFailed>>)
    /\ WF_lifeVars(CloseEvent /\ UNCHANGED <<isAwaitingRestart, spawnFailed>>)

FairLifeSpec == LifeSpec /\ Fairness

-----------------------------------------------------------------------------
(* Properties.                                                              *)

\* The monitor never stays blind: once it has asked for a restart it looks
\* at the server again, unless the panel shuts down.
MonitorRearmed ==
    isAwaitingRestart ~> (~isAwaitingRestart \/ IsShuttingDown)

\* "Auto-restart FXServer on crash or hang": a server found dead is replaced
\* by a live one, unless an administrator was told that it is stopped, a spawn
\* was tried and failed, or the panel shuts down.  (That the runner is idle
\* does not say so: it is in the middle of a restart, too.)
CrashRecovered ==
    (proc # NoProc /\ childStatus = "Destroyed")
        ~> \/ IsAlive
           \/ proc = NoProc /\ (stopReplied \/ spawnFailed)
           \/ IsShuttingDown

=============================================================================
