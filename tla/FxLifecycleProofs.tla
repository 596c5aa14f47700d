-------------------------- MODULE FxLifecycleProofs --------------------------
(***************************************************************************)
(* Proofs about FxLifecycle.  Every behaviour of it is one of FxRunner, so  *)
(* what FxRunnerProofs shows holds here.  When administrators only stop the *)
(* server (AdminActions \subseteq {"stop"}), what the auto start, the       *)
(* monitor and the scheduler do between them never starts a second server,  *)
(* leaves the token and the server paired, and never kills without warning. *)
(***************************************************************************)
EXTENDS FxLifecycle, FxRunnerProofs

\* Where a request is between the end of the old server and the new one.
Respawning == {"delay", "preparing", "locale", "validating"}

\* At most one request respawns, and only while no server is managed.
RespawnExclusive ==
    /\ \A c, d \in Calls :
          call[c].pc \in Respawning /\ call[d].pc \in Respawning => c = d
    /\ \A c \in Calls : call[c].pc \in Respawning => proc = NoProc

\* Nothing happens before the start banner.
QuietBeforeReady ==
    ~startReady => proc = NoProc /\ \A c \in Calls : call[c].pc = "idle"

\* The attempt in flight is the one that reset the token last.
TokenOfAttempt ==
    \A c \in Calls :
        call[c].pc \in {"locale", "validating"} => call[c].mutex = luaComToken

\* A managed process that still runs is seen alive.
RunningSeenAlive == proc \in running => childStatus = "Alive"

\* Whoever waits for the notice to elapse warned the players of this server.
NoticeSent == \A c \in Calls : call[c].pc = "notice" => proc \in noticed

LifeInv ==
    /\ RunnerInv
    /\ RespawnExclusive
    /\ QuietBeforeReady
    /\ TokenMatches
    /\ TokenOfAttempt
    /\ RunningSeenAlive
    /\ NoticeSent
    /\ NoUnmanagedServer

-----------------------------------------------------------------------------
(* FxLifecycle implements FxRunner.                                         *)

LEMMA LifeStepIsRunnerStep == [LifeNext]_lifeVars => [Next]_vars
<1> SUFFICES ASSUME LifeNext PROVE Next \/ UNCHANGED vars
  BY DEF lifeVars
<1>1. ASSUME NEW c \in Calls, AdminRequest(c) PROVE Next
  BY <1>1 DEF AdminRequest, Next, Request
<1>2. ASSUME NEW c \in Calls,
             MonitorCloseDetected(c) \/ MonitorLimitPassed(c)
                \/ SchedulerRestarts(c)
      PROVE  Next
  BY <1>2 DEF MonitorCloseDetected, MonitorLimitPassed, MonitorRestarts,
              SchedulerRestarts, Next, Request
<1>3. ASSUME NEW c \in Calls, LifeResume(c) PROVE Next
  BY <1>3 DEF LifeResume, SpawnResetsMonitor, ResumeOther, Next, Resume
<1> QED BY <1>1, <1>2, <1>3 DEF LifeNext, MonitorIdle, Next

\* Every behaviour of the lifecycle is a behaviour of the runner alone: the
\* modules that call FxRunner add no transition of its state.
THEOREM LifecycleImplementsRunner == LifeSpec => Spec
<1>1. LifeInit => Init
  BY DEF LifeInit
<1> QED BY <1>1, LifeStepIsRunnerStep, PTL DEF LifeSpec, Spec

-----------------------------------------------------------------------------
LEMMA LifeInvInit == LifeInit => LifeInv
<1> SUFFICES ASSUME LifeInit PROVE LifeInv
  OBVIOUS
<1>1. Init
  BY DEF LifeInit
<1>2. \A c \in Calls : call[c].pc = "idle"
  BY <1>1 DEF Init, FreeSlot
<1> QED
  BY <1>1, <1>2, RunnerInit, NoProcAssumption
  DEF LifeInv, RespawnExclusive, QuietBeforeReady, TokenMatches,
      TokenOfAttempt, RunningSeenAlive, NoticeSent, NoUnmanagedServer, Init,
      Respawning

\* A slot that is idle again, or as it was.
LEMMA SlotFreed ==
    ASSUME TypeOK, NEW c \in Calls, call' = [call EXCEPT ![c] = FreeSlot]
    PROVE  /\ call'[c].pc = "idle"
           /\ \A d \in Calls : d # c => call'[d] = call[d]
BY DEF TypeOK, FreeSlot

LEMMA SlotHeld ==
    ASSUME TypeOK, NEW c \in Calls, NEW pc, NEW kind, NEW m,
           Hold(c, pc, kind, m)
    PROVE  /\ call'[c].pc = pc
           /\ call'[c].mutex = m
           /\ \A d \in Calls : d # c => call'[d] = call[d]
BY DEF TypeOK, Hold

\* Everything but the call and the flags stands still.
Still == UNCHANGED <<proc, childStatus, luaComToken, startReady, running,
                     signalled, noticed>>

LEMMA SpawnServerSlot ==
    ASSUME TypeOK, NEW c \in Calls, NEW kind, NEW p, SpawnServer(c, kind, p)
    PROVE  /\ call'[c].pc \in {"idle", "preparing"}
           /\ \A d \in Calls : d # c => call'[d] = call[d]
BY SlotFreed, SlotHeld DEF SpawnServer

LEMMA AfterKillSlot ==
    ASSUME TypeOK, NEW c \in Calls, NEW kind,
           AfterKill(c, kind) \/ AfterKillError(c, kind)
    PROVE  /\ call'[c].pc \in {"idle", "delay", "preparing"}
           /\ \A d \in Calls : d # c => call'[d] = call[d]
<1>1. CASE AfterKillError(c, kind)
  BY <1>1, SlotFreed DEF AfterKillError
<1>2. CASE AfterKill(c, kind)
  BY <1>2, SlotFreed, SlotHeld, SpawnServerSlot DEF AfterKill
<1> QED BY <1>1, <1>2

-----------------------------------------------------------------------------
(* killServer, called while a server is managed or by a stop request.       *)

LEMMA KillServerInv ==
    ASSUME LifeInv, RunnerInv', NEW c \in Calls, NEW kind \in Kinds,
           KillServer(c, kind), call[c].pc = "idle", startReady,
           UNCHANGED <<luaComToken, startReady>>,
           proc # NoProc \/ kind = "stop"
    PROVE  LifeInv'
<1> USE DEF LifeInv, RunnerInv
<1>1. CASE proc = NoProc
  <2>1. call'[c].pc = "idle" /\ \A d \in Calls : d # c => call'[d] = call[d]
    BY <1>1, SlotFreed DEF KillServer, AfterKill
  <2>2. Still
    BY <1>1 DEF KillServer, Still, childVars
  <2> QED
    BY <2>1, <2>2
    DEF Still, RespawnExclusive, QuietBeforeReady, TokenMatches,
        TokenOfAttempt, RunningSeenAlive, NoticeSent, NoUnmanagedServer,
        Respawning
<1>2. CASE proc # NoProc /\ ShutdownInProgress
  <2>1. call'[c].pc = "idle" /\ \A d \in Calls : d # c => call'[d] = call[d]
    BY <1>2, SlotFreed DEF KillServer, AfterKillError
  <2>2. Still
    BY <1>2 DEF KillServer, Still, childVars
  <2> QED
    BY <2>1, <2>2
    DEF Still, RespawnExclusive, QuietBeforeReady, TokenMatches,
        TokenOfAttempt, RunningSeenAlive, NoticeSent, NoUnmanagedServer,
        Respawning
<1>3. CASE proc # NoProc /\ ~ShutdownInProgress /\ NeedsNotice
  <2>1. call'[c].pc = "notice" /\ \A d \in Calls : d # c => call'[d] = call[d]
    BY <1>3, SlotHeld DEF KillServer
  <2>2. /\ UNCHANGED <<proc, childStatus, running, signalled>>
        /\ noticed' = noticed \cup {proc}
    BY <1>3 DEF KillServer, childVars
  <2> QED
    BY <2>1, <2>2
    DEF RespawnExclusive, QuietBeforeReady, TokenMatches,
        TokenOfAttempt, RunningSeenAlive, NoticeSent, NoUnmanagedServer,
        Respawning
<1>4. CASE proc # NoProc /\ ~ShutdownInProgress /\ ~NeedsNotice
  <2>1. /\ call'[c].pc \in {"idle", "delay", "preparing"}
        /\ \A d \in Calls : d # c => call'[d] = call[d]
    BY <1>4, AfterKillSlot DEF KillServer
  <2>2. /\ proc' = NoProc
        /\ UNCHANGED <<running, noticed>>
    BY <1>4 DEF KillServer
  <2>3. signalled \subseteq signalled'
    BY <1>4 DEF KillServer, SignalledByDestroy
  <2>4. \A d \in Calls : call[d].pc \notin Respawning
    BY <1>4 DEF RespawnExclusive
  <2>5. \A d \in Calls : call[d].pc # "notice"
    BY <1>4 DEF NoticeExclusive, InPhase, ShutdownInProgress
  <2>6. proc \notin running
    BY <1>4 DEF RunningSeenAlive, NeedsNotice
  <2>7. NoProc \notin running
    BY NoProcAssumption DEF TypeOK
  <2> QED
    BY <2>1, <2>2, <2>3, <2>4, <2>5, <2>6, <2>7
    DEF RespawnExclusive, QuietBeforeReady, TokenMatches,
        TokenOfAttempt, RunningSeenAlive, NoticeSent, NoUnmanagedServer,
        Respawning
<1> QED BY <1>1, <1>2, <1>3, <1>4

LEMMA RestartServerInv ==
    ASSUME LifeInv, RunnerInv', NEW c \in Calls, RestartServer(c),
           proc # NoProc
    PROVE  LifeInv'
<1>1. CASE UNCHANGED vars
  BY <1>1 DEF LifeInv, vars, childVars, RespawnExclusive, QuietBeforeReady,
              TokenMatches, TokenOfAttempt, RunningSeenAlive, NoticeSent,
              NoUnmanagedServer
<1>2. CASE KillServer(c, "restart")
            /\ UNCHANGED <<luaComToken, startReady, panel>>
  <2>1. startReady
    BY DEF LifeInv, RunnerInv, TypeOK, QuietBeforeReady
  <2> QED
    BY <1>2, <2>1, KillServerInv DEF RestartServer, At, Kinds
<1> QED BY <1>1, <1>2 DEF RestartServer

-----------------------------------------------------------------------------
(* The steps of the unattended lifecycle.                                   *)

LEMMA RequestInv ==
    ASSUME LifeInv, RunnerInv', AdminActions \subseteq {"stop"},
           NEW c \in Calls, AdminRequest(c)
    PROVE  LifeInv'
<1>1. CASE StopServer(c)
  <2>1. startReady
    BY <1>1
    DEF LifeInv, RunnerInv, TypeOK, QuietBeforeReady, StopServer, IsIdle,
        RestartFlagBacked, InPhase
  <2> QED BY <1>1, <2>1, KillServerInv DEF StopServer, At, Kinds
<1>2. CASE SignalStartReady(c)
  <2>1. proc = NoProc /\ \A d \in Calls : call[d].pc = "idle"
    BY <1>2 DEF SignalStartReady, LifeInv, QuietBeforeReady
  <2>2. startReady' /\ UNCHANGED <<proc, childStatus, luaComToken, running,
                                  signalled, noticed>>
    BY <1>2 DEF SignalStartReady, childVars
  <2>3. /\ call'[c].pc \in {"idle", "preparing"}
        /\ \A d \in Calls : d # c => call'[d] = call[d]
    BY <1>2, <2>1, SpawnServerSlot DEF SignalStartReady, LifeInv, RunnerInv
  <2> QED
    BY <2>1, <2>2, <2>3
    DEF LifeInv, RespawnExclusive, QuietBeforeReady, TokenMatches,
        TokenOfAttempt, RunningSeenAlive, NoticeSent, NoUnmanagedServer,
        Respawning
<1> QED BY <1>1, <1>2 DEF AdminRequest

LEMMA ResumeInv ==
    ASSUME LifeInv, RunnerInv', NEW c \in Calls, Resume(c)
    PROVE  LifeInv'
<1> USE DEF LifeInv, RunnerInv
<1> DEFINE Others == \A d \in Calls : d # c => call'[d] = call[d]
<1>0. startReady /\ startReady' = startReady
  BY DEF QuietBeforeReady, TypeOK, Resume, NoticeElapsed, RestartDelayElapsed,
         SpawnPrepared, SpawnFailed, SpawnLocale, SpawnValidated, SpawnLogged,
         At
<1>1. CASE NoticeElapsed(c)
  <2>1. call[c].pc = "notice"
    BY <1>1 DEF NoticeElapsed, At
  <2>2. proc # NoProc /\ \A d \in Calls : d # c => call[d].pc # "notice"
    BY <2>1 DEF NoticeExclusive, InPhase
  <2>3. \A d \in Calls : call[d].pc \notin Respawning
    BY <2>2 DEF RespawnExclusive
  <2>4. call'[c].pc \in {"idle", "delay", "preparing"} /\ Others
    BY <1>1, AfterKillSlot DEF NoticeElapsed
  <2>5. /\ proc' = NoProc
        /\ UNCHANGED <<running, noticed>>
    BY <1>1 DEF NoticeElapsed
  <2>6. signalled \subseteq signalled' /\ (proc \in running => proc \in signalled')
    BY <1>1 DEF NoticeElapsed, SignalledByDestroy, RunningSeenAlive
  <2> QED
    BY <1>0, <2>2, <2>3, <2>4, <2>5, <2>6, NoProcAssumption
    DEF RespawnExclusive, QuietBeforeReady, TokenMatches,
        TokenOfAttempt, RunningSeenAlive, NoticeSent, NoUnmanagedServer,
        Respawning, TypeOK
<1>2. CASE RestartDelayElapsed(c)
  <2>1. call'[c].pc \in {"idle", "preparing"} /\ Others
    BY <1>2, SpawnServerSlot DEF RestartDelayElapsed
  <2>2. Still /\ call[c].pc = "delay"
    BY <1>2 DEF RestartDelayElapsed, Still, childVars, At
  <2> QED
    BY <1>0, <2>1, <2>2
    DEF Still, RespawnExclusive, QuietBeforeReady, TokenMatches,
        TokenOfAttempt, RunningSeenAlive, NoticeSent, NoUnmanagedServer,
        Respawning
<1>3. CASE SpawnPrepared(c)
  <2>1. call[c].pc = "preparing" /\ proc = NoProc
    BY <1>3 DEF SpawnPrepared, At, RespawnExclusive, Respawning
  <2>2. PICK p \in Procs :
           /\ luaComToken' = p
           /\ noticed' = noticed \ {p}
           /\ Hold(c, "locale", call[c].kind, p) \/ ReturnCall(c)
    BY <1>3, <2>1 DEF SpawnPrepared, ResetToken
  <2>3. /\ Others
        /\ \/ call'[c].pc = "locale" /\ call'[c].mutex = p
           \/ call'[c].pc = "idle"
    BY <2>2, SlotHeld, SlotFreed DEF ReturnCall
  <2>4. UNCHANGED <<proc, childStatus, running, signalled>>
    BY <1>3 DEF SpawnPrepared, childVars
  <2>5. \A d \in Calls : d # c => call[d].pc \notin Respawning
    BY <2>1 DEF RespawnExclusive, Respawning
  <2>6. \A d \in Calls : call[d].pc # "notice"
    BY <2>1 DEF NoticeExclusive, InPhase
  <2> QED
    BY <1>0, <2>1, <2>2, <2>3, <2>4, <2>5, <2>6
    DEF RespawnExclusive, QuietBeforeReady, TokenMatches,
        TokenOfAttempt, RunningSeenAlive, NoticeSent, NoUnmanagedServer,
        Respawning
<1>4. CASE SpawnFailed(c) \/ SpawnLogged(c)
  <2>1. call'[c].pc = "idle" /\ Others
    BY <1>4, SlotFreed DEF SpawnFailed, SpawnLogged, ReturnCall
  <2>2. Still
    BY <1>4 DEF SpawnFailed, SpawnLogged, Still, childVars
  <2> QED
    BY <1>0, <2>1, <2>2
    DEF Still, RespawnExclusive, QuietBeforeReady, TokenMatches,
        TokenOfAttempt, RunningSeenAlive, NoticeSent, NoUnmanagedServer,
        Respawning
<1>5. CASE SpawnLocale(c)
  <2>1. call'[c].pc = "validating" /\ call'[c].mutex = call[c].mutex /\ Others
    BY <1>5, SlotHeld DEF SpawnLocale
  <2>2. Still /\ call[c].pc = "locale"
    BY <1>5 DEF SpawnLocale, Still, childVars, At
  <2> QED
    BY <1>0, <2>1, <2>2
    DEF Still, RespawnExclusive, QuietBeforeReady, TokenMatches,
        TokenOfAttempt, RunningSeenAlive, NoticeSent, NoUnmanagedServer,
        Respawning
<1>6. CASE SpawnValidated(c)
  <2>1. call[c].pc = "validating" /\ proc = NoProc
    BY <1>6 DEF SpawnValidated, At, RespawnExclusive, Respawning
  <2>2. call'[c].pc = "logging" /\ Others
    BY <1>6, SlotHeld DEF SpawnValidated
  <2>3. /\ proc' = call[c].mutex
        /\ childStatus' = "Alive"
        /\ running' = running \cup {call[c].mutex}
        /\ UNCHANGED <<luaComToken, signalled, noticed>>
    BY <1>6 DEF SpawnValidated
  <2>4. \A d \in Calls : d # c => call[d].pc \notin Respawning
    BY <2>1 DEF RespawnExclusive, Respawning
  <2>5. \A d \in Calls : call[d].pc # "notice"
    BY <2>1 DEF NoticeExclusive, InPhase
  <2>6. call[c].mutex = luaComToken
    BY <2>1 DEF TokenOfAttempt
  <2>7. running \subseteq signalled
    BY <2>1, NoProcAssumption DEF NoUnmanagedServer, TypeOK
  <2> QED
    BY <1>0, <2>1, <2>2, <2>3, <2>4, <2>5, <2>6, <2>7
    DEF RespawnExclusive, QuietBeforeReady, TokenMatches,
        TokenOfAttempt, RunningSeenAlive, NoticeSent, NoUnmanagedServer,
        Respawning
<1> QED BY <1>1, <1>2, <1>3, <1>4, <1>5, <1>6 DEF Resume

LEMMA EnvironmentInv ==
    ASSUME LifeInv, RunnerInv',
           Environment \/ GracefulShutdown \/ QuitProcess \/ UNCHANGED vars
    PROVE  LifeInv'
<1> USE DEF LifeInv, RespawnExclusive, QuietBeforeReady, TokenMatches,
            TokenOfAttempt, RunningSeenAlive, NoticeSent, NoUnmanagedServer
<1>1. CASE Environment
  BY <1>1 DEF Environment, ProcessEnds, ExitEvent, CloseEvent, childVars
<1>2. CASE GracefulShutdown \/ QuitProcess
  BY <1>2 DEF GracefulShutdown, QuitProcess, childVars
<1>3. CASE UNCHANGED vars
  BY <1>3 DEF vars, childVars
<1> QED BY <1>1, <1>2, <1>3

LEMMA LifeInvStep ==
    ASSUME AdminActions \subseteq {"stop"}
    PROVE  LifeInv /\ [LifeNext]_lifeVars => LifeInv'
<1> SUFFICES ASSUME LifeInv, [LifeNext]_lifeVars PROVE LifeInv'
  OBVIOUS
<1>1. RunnerInv'
  BY LifeStepIsRunnerStep, RunnerStep DEF LifeInv
<1>2. ASSUME NEW c \in Calls,
             MonitorCloseDetected(c) \/ MonitorLimitPassed(c)
                \/ SchedulerRestarts(c)
      PROVE  LifeInv'
  <2>1. RestartServer(c) /\ proc # NoProc
    BY <1>2 DEF MonitorCloseDetected, MonitorLimitPassed, MonitorRestarts,
                SchedulerRestarts, IsAlive
  <2> QED BY <1>1, <2>1, RestartServerInv
<1>3. ASSUME NEW c \in Calls, AdminRequest(c) PROVE LifeInv'
  BY <1>1, <1>3, RequestInv
<1>4. ASSUME NEW c \in Calls, LifeResume(c) PROVE LifeInv'
  BY <1>1, <1>4, ResumeInv
  DEF LifeResume, SpawnResetsMonitor, ResumeOther, Resume
<1>5. CASE Environment \/ GracefulShutdown \/ QuitProcess \/ UNCHANGED vars
  BY <1>1, <1>5, EnvironmentInv
<1> QED
  BY <1>2, <1>3, <1>4, <1>5 DEF LifeNext, MonitorIdle, Terminated, lifeVars

\* Unattended, the panel never loses track of a game server: every process it
\* started is the managed one, or was told to end.
THEOREM UnattendedNoUnmanaged ==
    ASSUME AdminActions \subseteq {"stop"}
    PROVE  LifeSpec => []NoUnmanagedServer
<1>1. LifeInv => NoUnmanagedServer
  BY DEF LifeInv
<1>2. LifeInv /\ [LifeNext]_lifeVars => LifeInv'
  BY LifeInvStep
<1> QED BY LifeInvInit, <1>1, <1>2, PTL DEF LifeSpec

\* Unattended, the managed server always holds the token the panel accepts.
THEOREM UnattendedTokenMatches ==
    ASSUME AdminActions \subseteq {"stop"}
    PROVE  LifeSpec => []TokenMatches
<1>1. LifeInv => TokenMatches
  BY DEF LifeInv
<1>2. LifeInv /\ [LifeNext]_lifeVars => LifeInv'
  BY LifeInvStep
<1> QED BY LifeInvInit, <1>1, <1>2, PTL DEF LifeSpec

\* A kill signal reaches a live server only from a request that sent the
\* warning and waited, or from the shutdown of the panel.
LEMMA NoticeBeforeKillStep ==
    ASSUME LifeInv, [Next]_vars, NEW p \in signalled' \ signalled
    PROVE  p \in noticed \/ IsShuttingDown'
<1> USE DEF LifeInv, RunnerInv
<1>1. ASSUME NEW c \in Calls, NEW kind, KillServer(c, kind) PROVE FALSE
  BY <1>1 DEF KillServer, SignalledByDestroy, RunningSeenAlive, NeedsNotice,
              childVars
<1>2. ASSUME NEW c \in Calls, Request(c) PROVE FALSE
  BY <1>1, <1>2
  DEF Request, StartServer, SignalStartReady, StopServer, RestartServer,
      DeployServer, vars, childVars
<1>3. ASSUME NEW c \in Calls, NoticeElapsed(c) PROVE p \in noticed
  BY <1>3 DEF NoticeElapsed, SignalledByDestroy, NoticeSent, At
<1>4. ASSUME NEW c \in Calls, Resume(c), ~NoticeElapsed(c) PROVE FALSE
  BY <1>4 DEF Resume, RestartDelayElapsed, SpawnPrepared, SpawnFailed,
              SpawnLocale, SpawnValidated, SpawnLogged, childVars
<1>5. CASE GracefulShutdown
  BY <1>5 DEF GracefulShutdown, IsShuttingDown
<1>6. CASE Environment \/ QuitProcess \/ UNCHANGED vars
  BY <1>6 DEF Environment, ProcessEnds, ExitEvent, CloseEvent, QuitProcess,
              vars, childVars
<1> QED BY <1>2, <1>3, <1>4, <1>5, <1>6 DEF Next, Terminated

\* Unattended, players are warned before their server is killed.
THEOREM UnattendedNoticeBeforeKill ==
    ASSUME AdminActions \subseteq {"stop"}
    PROVE  LifeSpec => NoticeBeforeKill
<1>1. LifeInv /\ [LifeNext]_lifeVars
        => [\A p \in signalled' \ signalled :
               p \in noticed \/ IsShuttingDown']_vars
  BY LifeStepIsRunnerStep, NoticeBeforeKillStep
<1>2. LifeInv /\ [LifeNext]_lifeVars => LifeInv'
  BY LifeInvStep
<1> QED BY LifeInvInit, <1>1, <1>2, PTL DEF LifeSpec, NoticeBeforeKill

=============================================================================
