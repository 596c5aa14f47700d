------------------------------ MODULE FxRunner ------------------------------
(***************************************************************************)
(* core/modules/FxRunner: the module that starts, restarts and kills the    *)
(* one game server process (FXServer) the panel manages.                    *)
(*                                                                         *)
(* The panel is one Node.js event loop, so a step of this module is what    *)
(* runs between two awaits of a control request, or one event of the child  *)
(* process.  A request holds a slot of Calls from its first await until it  *)
(* returns; call[c].pc names the await it sleeps in:                        *)
(*                                                                         *)
(*   "notice"      killServer sleeps so that players see the warning        *)
(*   "delay"       restartServer gives the OS time to release the ports     *)
(*   "preparing"   spawnServer awaits fxBuilds.prepareForSpawn              *)
(*   "locale"      spawnServer awaits setupCustomLocaleFile                 *)
(*   "validating"  spawnServer awaits validateFixServerConfig               *)
(*   "logging"     spawnServer awaits logFxserverSpawn (child running)      *)
(*                                                                         *)
(* Who issues requests, and when, is left open here: any caller at any      *)
(* time.  FxLifecycle restricts the callers to those of the program.        *)
(***************************************************************************)
EXTENDS Naturals, FiniteSets

CONSTANTS
    Calls,      \* slots for control requests in flight at the same time
    Procs,      \* identities of spawned processes (the "mutex" of genMutex)
    NoProc      \* null

ASSUME NoProcAssumption == NoProc \notin Procs

VARIABLES
    proc,           \* this.proc: mutex of the managed process, or null
    childStatus,    \* this.proc.status, "Destroyed" when proc is null
    isAwaitingShutdownNoticeDelay,
    isAwaitingRestartSpawnDelay,
    isPreparingBuild,
    luaComToken,    \* webServer.luaComToken, named by the spawn that reset it
    call,           \* the control requests in flight
    startReady,     \* signalStartReady was received
    panel,          \* txManager: "running", "stopping" or "down"
    running,        \* OS: the game server processes that exist
    signalled,      \* OS: the ones told to end (kill signal or quit command)
    noticed,        \* history: processes sent the serverShuttingDown event
    stopReplied     \* history: the last control request was answered
                    \* "Server stopped."

childVars   == <<running, signalled>>
flagVars    == <<isAwaitingShutdownNoticeDelay, isAwaitingRestartSpawnDelay,
                 isPreparingBuild>>
vars == <<proc, childStatus, flagVars, luaComToken, call, startReady, panel,
          childVars, noticed, stopReplied>>

PCs   == {"idle", "notice", "delay", "preparing", "locale", "validating",
          "logging"}
Kinds == {"none", "start", "stop", "restart", "deploy"}

CallStates == [pc : PCs, kind : Kinds, mutex : Procs \cup {NoProc}]

FreeSlot == [pc |-> "idle", kind |-> "none", mutex |-> NoProc]

TypeOK ==
    /\ proc \in Procs \cup {NoProc}
    /\ childStatus \in {"Alive", "Exited", "Destroyed"}
    /\ isAwaitingShutdownNoticeDelay \in BOOLEAN
    /\ isAwaitingRestartSpawnDelay \in BOOLEAN
    /\ isPreparingBuild \in BOOLEAN
    /\ luaComToken \in Procs \cup {NoProc}
    /\ call \in [Calls -> CallStates]
    /\ startReady \in BOOLEAN
    /\ panel \in {"running", "stopping", "down"}
    /\ running \subseteq Procs
    /\ signalled \subseteq running
    /\ noticed \subseteq Procs
    /\ stopReplied \in BOOLEAN

Init ==
    /\ proc = NoProc
    /\ childStatus = "Destroyed"
    /\ isAwaitingShutdownNoticeDelay = FALSE
    /\ isAwaitingRestartSpawnDelay = FALSE
    /\ isPreparingBuild = FALSE
    /\ luaComToken = NoProc
    /\ call = [c \in Calls |-> FreeSlot]
    /\ startReady = FALSE
    /\ panel = "running"
    /\ running = {}
    /\ signalled = {}
    /\ noticed = {}
    /\ stopReplied = FALSE

-----------------------------------------------------------------------------
(* Getters and small helpers.                                               *)

\* get isIdle(): the server is supposed not to be running.
IsIdle == proc = NoProc /\ ~isAwaitingRestartSpawnDelay

\* ProcessManager.isAlive of this.proc, false when there is none.
IsAlive == proc # NoProc /\ childStatus = "Alive"

\* txManager.isShuttingDown
IsShuttingDown == panel # "running"

At(c, pc) == panel # "down" /\ call[c].pc = pc

\* A mutex genMutex can return: nothing uses it any more.
Fresh(p) ==
    /\ p # proc
    /\ p \notin running
    /\ \A c \in Calls : call[c].mutex # p

Hold(c, pc, kind, mutex) ==
    call' = [call EXCEPT ![c] = [pc |-> pc, kind |-> kind, mutex |-> mutex]]

\* The request returns; the `finally` of restartServer clears its flag.
ReturnCall(c) ==
    /\ call' = [call EXCEPT ![c] = FreeSlot]
    /\ isAwaitingRestartSpawnDelay' =
           (isAwaitingRestartSpawnDelay /\ call[c].kind # "restart")

-----------------------------------------------------------------------------
(* killServer.  Called by stop, restart and deploy requests; what the       *)
(* caller does next without another await is part of the same step.         *)

\* Mutant: kill() by number, when the process may be gone.
SignalledByDestroyBlind == signalled \cup {proc}

\* ProcessManager.destroy(): kill() reaches a process that still exists.
SignalledByDestroy ==
    IF childStatus # "Destroyed" THEN signalled \cup ({proc} \cap running)
    ELSE signalled

\* Mutant: concurrent spawn requests are not refused.
SpawnRefusedNotPreparing(p) == IsShuttingDown \/ p # NoProc

\* The early returns of spawnServer; p is the value of this.proc.
SpawnRefused(p) == IsShuttingDown \/ p # NoProc \/ isPreparingBuild

\* spawnServer up to its first await: refuse, or start to prepare the build.
SpawnServer(c, kind, p) ==
    IF SpawnRefused(p)
    THEN /\ call' = [call EXCEPT ![c] = FreeSlot]
         /\ UNCHANGED isPreparingBuild
    ELSE /\ Hold(c, "preparing", kind, NoProc)
         /\ isPreparingBuild' = TRUE

\* The caller goes on after killServer resolved to null.
AfterKill(c, kind) ==
    \/ /\ kind = "stop"
       /\ call' = [call EXCEPT ![c] = FreeSlot]
       /\ UNCHANGED <<isAwaitingRestartSpawnDelay, isPreparingBuild>>
    \/ /\ kind = "restart"
       /\ Hold(c, "delay", "restart", NoProc)
       /\ isAwaitingRestartSpawnDelay' = TRUE
       /\ UNCHANGED isPreparingBuild
    \/ /\ kind = "deploy"
       /\ SpawnServer(c, "deploy", NoProc)
       /\ UNCHANGED isAwaitingRestartSpawnDelay

\* The caller goes on after killServer resolved to an error: restartServer
\* returns it (its finally clears the flag), the stop route and the
\* deployer ignore it, the latter to be refused by spawnServer.
AfterKillError(c, kind) ==
    /\ call' = [call EXCEPT ![c] = FreeSlot]
    /\ isAwaitingRestartSpawnDelay' =
           (isAwaitingRestartSpawnDelay /\ kind # "restart")
    /\ UNCHANGED isPreparingBuild

\* Mutant: a second kill request is let through.
ShutdownInProgressIgnored == FALSE

\* "Prevent concurrent kill request"
ShutdownInProgress == isAwaitingShutdownNoticeDelay

\* Mutant: a live server is killed at once.
NeedsNoticeNever == FALSE

\* A live server gets the warning event and its delay.
NeedsNotice == childStatus = "Alive"

KillServer(c, kind) ==
    \/ /\ proc = NoProc                     \* nothing to kill
       /\ AfterKill(c, kind)
       /\ stopReplied' = (kind = "stop")
       /\ UNCHANGED <<proc, childStatus, childVars, noticed,
                      isAwaitingShutdownNoticeDelay>>
    \/ /\ proc # NoProc                     \* a shutdown is already in progress
       /\ ShutdownInProgress
       /\ AfterKillError(c, kind)
       /\ stopReplied' = (kind = "stop")
       /\ UNCHANGED <<proc, childStatus, childVars, noticed,
                      isAwaitingShutdownNoticeDelay>>
    \/ /\ proc # NoProc                     \* warn the players, then wait
       /\ ~ShutdownInProgress
       /\ NeedsNotice
       /\ isAwaitingShutdownNoticeDelay' = TRUE
       /\ noticed' = noticed \cup {proc}
       /\ Hold(c, "notice", kind, NoProc)
       /\ stopReplied' = FALSE
       /\ UNCHANGED <<proc, childStatus, childVars,
                      isAwaitingRestartSpawnDelay, isPreparingBuild>>
    \/ /\ proc # NoProc                     \* it already ended, just clean up
       /\ ~ShutdownInProgress
       /\ ~NeedsNotice
       /\ signalled' = SignalledByDestroy
       /\ proc' = NoProc
       /\ childStatus' = "Destroyed"
       /\ AfterKill(c, kind)
       /\ stopReplied' = (kind = "stop")
       /\ UNCHANGED <<running, noticed, isAwaitingShutdownNoticeDelay>>

\* The notice is over.  With this.proc gone meanwhile destroy() would throw.
NoticeElapsed(c) ==
    /\ At(c, "notice")
    /\ isAwaitingShutdownNoticeDelay' = FALSE
    /\ signalled' = SignalledByDestroy
    /\ proc' = NoProc
    /\ childStatus' = "Destroyed"
    /\ IF proc # NoProc THEN AfterKill(c, call[c].kind)
       ELSE AfterKillError(c, call[c].kind)
    /\ stopReplied' = (stopReplied \/ call[c].kind = "stop")
    /\ UNCHANGED <<running, noticed, luaComToken, startReady, panel>>

-----------------------------------------------------------------------------
(* Control requests.                                                        *)

\* routes/fxserver/controls.ts, "start".  Answered without effect when the
\* server is not idle.
StartServer(c) ==
    /\ At(c, "idle")
    /\ IsIdle
    /\ SpawnServer(c, "start", proc)
    /\ stopReplied' = FALSE
    /\ UNCHANGED <<proc, childStatus, isAwaitingShutdownNoticeDelay,
                   isAwaitingRestartSpawnDelay, luaComToken, startReady,
                   panel, childVars, noticed>>

\* signalStartReady: the auto start, unless it is switched off, the panel is
\* not configured or it has no admin.
SignalStartReady(c) ==
    /\ At(c, "idle")
    /\ ~startReady
    /\ startReady' = TRUE
    /\ \/ UNCHANGED <<call, isPreparingBuild, stopReplied>>
       \/ /\ SpawnServer(c, "start", proc)
          /\ stopReplied' = FALSE
    /\ UNCHANGED <<proc, childStatus, isAwaitingShutdownNoticeDelay,
                   isAwaitingRestartSpawnDelay, luaComToken, panel,
                   childVars, noticed>>

\* controls.ts, "stop".
StopServer(c) ==
    /\ At(c, "idle")
    /\ ~IsIdle
    /\ KillServer(c, "stop")
    /\ UNCHANGED <<luaComToken, startReady, panel>>

\* restartServer: controls.ts "restart", FxMonitor, FxScheduler.
RestartServer(c) ==
    /\ At(c, "idle")
    /\ \/ /\ isAwaitingRestartSpawnDelay    \* a restart is already in progress
          /\ UNCHANGED <<vars>>
       \/ /\ ~isAwaitingRestartSpawnDelay
          /\ KillServer(c, "restart")
          /\ UNCHANGED <<luaComToken, startReady, panel>>

\* finalizeDeployment and the end of the setup: kill it first if running,
\* then spawn.
DeployServer(c) ==
    /\ At(c, "idle")
    /\ \/ /\ IsIdle
          /\ SpawnServer(c, "deploy", proc)
          /\ stopReplied' = FALSE
          /\ UNCHANGED <<proc, childStatus, isAwaitingShutdownNoticeDelay,
                         isAwaitingRestartSpawnDelay, childVars, noticed>>
       \/ /\ ~IsIdle
          /\ KillServer(c, "deploy")
    /\ UNCHANGED <<luaComToken, startReady, panel>>

\* Mutant: the flag is left to the `finally`.
RestartDelayElapsedFlagKept(c) ==
    /\ At(c, "delay")
    /\ SpawnServer(c, "restart", proc)
    /\ UNCHANGED <<proc, childStatus, isAwaitingShutdownNoticeDelay,
                   isAwaitingRestartSpawnDelay, luaComToken, startReady,
                   panel, childVars, noticed, stopReplied>>

\* restartServer wakes up from its spawn delay.
RestartDelayElapsed(c) ==
    /\ At(c, "delay")
    /\ isAwaitingRestartSpawnDelay' = FALSE
    /\ SpawnServer(c, "restart", proc)
    /\ UNCHANGED <<proc, childStatus, isAwaitingShutdownNoticeDelay,
                   luaComToken, startReady, panel, childVars, noticed,
                   stopReplied>>

-----------------------------------------------------------------------------
(* spawnServer, from its first await on.                                    *)

\* Mutant: the previous server's token is kept.
ResetTokenSkipped(p) == UNCHANGED luaComToken

\* webServer.resetToken, called by the attempt that mints the mutex p.
ResetToken(p) == luaComToken' = p

\* prepareForSpawn settled.  A process spawned meanwhile ends the attempt;
\* otherwise the token is reset, and getFxSpawnVariables may still throw.
SpawnPrepared(c) ==
    /\ At(c, "preparing")
    /\ isPreparingBuild' = FALSE
    /\ \/ /\ proc # NoProc
          /\ ReturnCall(c)
          /\ UNCHANGED <<luaComToken, noticed>>
       \/ /\ proc = NoProc
          /\ \E p \in Procs :
                /\ Fresh(p)
                /\ ResetToken(p)
                /\ noticed' = noticed \ {p}
                /\ \/ /\ Hold(c, "locale", call[c].kind, p)
                      /\ UNCHANGED isAwaitingRestartSpawnDelay
                   \/ ReturnCall(c)
    /\ UNCHANGED <<proc, childStatus, isAwaitingShutdownNoticeDelay,
                   startReady, panel, childVars, stopReplied>>

\* An error, or a configuration that is missing or has errors.
SpawnFailed(c) ==
    /\ At(c, "locale") \/ At(c, "validating")
    /\ ReturnCall(c)
    /\ UNCHANGED <<proc, childStatus, isAwaitingShutdownNoticeDelay,
                   isPreparingBuild, luaComToken, startReady, panel,
                   childVars, noticed, stopReplied>>

\* The locale file is in place and the panel is configured.
SpawnLocale(c) ==
    /\ At(c, "locale")
    /\ Hold(c, "validating", call[c].kind, call[c].mutex)
    /\ UNCHANGED <<proc, childStatus, flagVars, luaComToken, startReady,
                   panel, childVars, noticed, stopReplied>>

\* server.cfg is valid: spawn the child, without another look at this.proc.
SpawnValidated(c) ==
    /\ At(c, "validating")
    /\ proc' = call[c].mutex
    /\ childStatus' = "Alive"
    /\ running' = running \cup {call[c].mutex}
    /\ Hold(c, "logging", call[c].kind, call[c].mutex)
    /\ UNCHANGED <<flagVars, luaComToken, startReady, panel, signalled,
                   noticed, stopReplied>>

SpawnLogged(c) ==
    /\ At(c, "logging")
    /\ ReturnCall(c)
    /\ UNCHANGED <<proc, childStatus, isAwaitingShutdownNoticeDelay,
                   isPreparingBuild, luaComToken, startReady, panel,
                   childVars, noticed, stopReplied>>

-----------------------------------------------------------------------------
(* The child process and its events.                                        *)

\* The OS process ends: it crashed, quit, or obeyed the signal.
ProcessEnds(p) ==
    /\ p \in running
    /\ running' = running \ {p}
    /\ signalled' = signalled \ {p}
    /\ UNCHANGED <<proc, childStatus, flagVars, luaComToken, call, startReady,
                   panel, noticed, stopReplied>>

\* 'exit' event of the managed process (no effect on a disposed one).
ExitEvent ==
    /\ panel # "down"
    /\ proc # NoProc
    /\ proc \notin running
    /\ childStatus = "Alive"
    /\ childStatus' = "Exited"
    /\ UNCHANGED <<proc, flagVars, luaComToken, call, startReady, panel,
                   childVars, noticed, stopReplied>>

\* 'close' event, never before 'exit': destroy() the manager.
CloseEvent ==
    /\ panel # "down"
    /\ proc # NoProc
    /\ childStatus = "Exited"
    /\ childStatus' = "Destroyed"
    /\ UNCHANGED <<proc, flagVars, luaComToken, call, startReady, panel,
                   childVars, noticed, stopReplied>>

-----------------------------------------------------------------------------
(* Shutdown of the panel.                                                   *)

\* txManager.gracefulShutdown and FxRunner.handleShutdown, which writes the
\* quit command to a live server.  Requests in flight go on.
GracefulShutdown ==
    /\ panel = "running"
    /\ panel' = "stopping"
    /\ signalled' = IF IsAlive THEN signalled \cup ({proc} \cap running)
                    ELSE signalled
    /\ UNCHANGED <<proc, childStatus, flagVars, luaComToken, call, startReady,
                   running, noticed, stopReplied>>

\* quitProcess: every handler settled, or the five seconds are over.
QuitProcess ==
    /\ panel = "stopping"
    /\ panel' = "down"
    /\ UNCHANGED <<proc, childStatus, flagVars, luaComToken, call, startReady,
                   childVars, noticed, stopReplied>>

Terminated ==
    /\ panel = "down"
    /\ UNCHANGED vars

-----------------------------------------------------------------------------
Resume(c) ==
    \/ NoticeElapsed(c)
    \/ RestartDelayElapsed(c)
    \/ SpawnPrepared(c)
    \/ SpawnFailed(c)
    \/ SpawnLocale(c)
    \/ SpawnValidated(c)
    \/ SpawnLogged(c)

Request(c) ==
    \/ StartServer(c)
    \/ SignalStartReady(c)
    \/ StopServer(c)
    \/ RestartServer(c)
    \/ DeployServer(c)

Environment ==
    \/ \E p \in Procs : ProcessEnds(p)
    \/ ExitEvent
    \/ CloseEvent

Next ==
    \/ \E c \in Calls : Request(c) \/ Resume(c)
    \/ Environment
    \/ GracefulShutdown
    \/ QuitProcess
    \/ Terminated

Spec == Init /\ [][Next]_vars

-----------------------------------------------------------------------------
(* Properties.                                                              *)

InPhase(pc) == {c \in Calls : call[c].pc = pc}

\* At most one request waits for a shutdown notice to elapse, exactly while
\* the flag says so, and the process it will kill is still there: nobody
\* else clears this.proc or the flag under it, so the catch of killServer
\* ("Perhaps What Is Dead May Never Die") is never taken.
NoticeExclusive ==
    /\ \A c, d \in InPhase("notice") : c = d
    /\ isAwaitingShutdownNoticeDelay <=> InPhase("notice") # {}
    /\ InPhase("notice") # {} => proc # NoProc

\* At most one request prepares a build, exactly while isPreparingBuild is
\* set, so two spawns never copy build files at the same time.
PrepareExclusive ==
    /\ \A c, d \in InPhase("preparing") : c = d
    /\ isPreparingBuild <=> InPhase("preparing") # {}

\* The restart flag never stays set behind a restart that is over: whenever
\* it is set some request still sleeps and will clear it, so the server
\* cannot be reported busy, and restarts refused, for good.
RestartFlagBacked ==
    isAwaitingRestartSpawnDelay => InPhase("delay") # {}

\* Every game server process the panel started is the one it manages, or was
\* told to end.  ("If the server is already alive", spawnServer.)
NoUnmanagedServer == running \ {proc} \subseteq signalled

\* The managed server holds the token the web server accepts from it.
TokenMatches == proc # NoProc => luaComToken = proc

\* One restart at most sleeps in its spawn delay, and the flag says so.
\* ("Prevent concurrent restart request", restartServer.)
RestartExclusive ==
    /\ \A c, d \in InPhase("delay") : c = d
    /\ isAwaitingRestartSpawnDelay <=> InPhase("delay") # {}

\* "Server stopped.": once a stop was answered so, the server stays down
\* until somebody asks for a start.
StoppedMeansStopped == stopReplied => proc = NoProc

\* When the panel is gone it leaves no game server behind that it did not
\* tell to end.
NoServerLeftBehind == panel = "down" => running \subseteq signalled

\* Players are warned before their server is killed: a kill signal goes to a
\* live server only after the serverShuttingDown event did.
NoticeBeforeKill ==
    [][\A p \in signalled' \ signalled :
           p \in noticed \/ IsShuttingDown']_vars

=============================================================================
