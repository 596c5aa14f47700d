--------------------------- MODULE FxRunnerProofs ---------------------------
(***************************************************************************)
(* Proofs about FxRunner, for any number of concurrent requests and         *)
(* processes and any pattern of requests: the types, and the three facts    *)
(* that make the flags of the module trustworthy (NoticeExclusive,          *)
(* PrepareExclusive, RestartFlagBacked).                                    *)
(***************************************************************************)
EXTENDS FxRunner, TLAPS

\* An attempt past its first refusal carries the mutex it minted.
MutexHeld ==
    \A c \in Calls :
        call[c].pc \in {"locale", "validating", "logging"} =>
            call[c].mutex \in Procs

-----------------------------------------------------------------------------
(* Types, one lemma per action.                                             *)

LEMMA CallStateType ==
    ASSUME NEW pc \in PCs, NEW kind \in Kinds, NEW mutex \in Procs \cup {NoProc}
    PROVE  [pc |-> pc, kind |-> kind, mutex |-> mutex] \in CallStates
BY DEF CallStates

LEMMA FreeSlotType == FreeSlot \in CallStates
BY CallStateType DEF FreeSlot, PCs, Kinds

LEMMA CallFields ==
    ASSUME TypeOK, NEW c \in Calls
    PROVE  /\ call[c].pc \in PCs
           /\ call[c].kind \in Kinds
           /\ call[c].mutex \in Procs \cup {NoProc}
BY DEF TypeOK, CallStates

\* Every step changes `call` through Hold or by freeing a slot.
LEMMA HoldType ==
    ASSUME TypeOK, NEW c \in Calls, NEW pc \in PCs, NEW kind \in Kinds,
           NEW mutex \in Procs \cup {NoProc}, Hold(c, pc, kind, mutex)
    PROVE  call' \in [Calls -> CallStates]
BY CallStateType DEF Hold, TypeOK

LEMMA FreeType ==
    ASSUME TypeOK, NEW c \in Calls, call' = [call EXCEPT ![c] = FreeSlot]
    PROVE  call' \in [Calls -> CallStates]
BY FreeSlotType DEF TypeOK

LEMMA TypeInit == Init => TypeOK
BY FreeSlotType DEF Init, TypeOK

\* The pieces of a step shared by several actions.
LEMMA SpawnServerType ==
    ASSUME TypeOK, NEW c \in Calls, NEW kind \in Kinds,
           NEW p, SpawnServer(c, kind, p)
    PROVE  /\ call' \in [Calls -> CallStates]
           /\ isPreparingBuild' \in BOOLEAN
BY HoldType, FreeType DEF TypeOK, SpawnServer, PCs

LEMMA AfterKillType ==
    ASSUME TypeOK, NEW c \in Calls, NEW kind \in Kinds,
           AfterKill(c, kind) \/ AfterKillError(c, kind)
    PROVE  /\ call' \in [Calls -> CallStates]
           /\ isAwaitingRestartSpawnDelay' \in BOOLEAN
           /\ isPreparingBuild' \in BOOLEAN
<1>1. CASE AfterKillError(c, kind)
  BY <1>1, FreeType DEF TypeOK, AfterKillError
<1>2. CASE AfterKill(c, kind)
  <2>1. CASE kind = "deploy" /\ SpawnServer(c, "deploy", NoProc)
                /\ UNCHANGED isAwaitingRestartSpawnDelay
    BY <2>1, SpawnServerType DEF TypeOK
  <2>2. CASE kind # "deploy"
    BY <1>2, <2>2, HoldType, FreeType DEF TypeOK, AfterKill, PCs, Kinds
  <2> QED BY <1>2, <2>1, <2>2 DEF AfterKill
<1> QED BY <1>1, <1>2

LEMMA KillServerType ==
    ASSUME TypeOK, NEW c \in Calls, NEW kind \in Kinds, KillServer(c, kind),
           UNCHANGED <<luaComToken, startReady, panel>>
    PROVE  TypeOK'
<1>1. CASE AfterKill(c, kind) \/ AfterKillError(c, kind)
  <2>1. /\ call' \in [Calls -> CallStates]
        /\ isAwaitingRestartSpawnDelay' \in BOOLEAN
        /\ isPreparingBuild' \in BOOLEAN
    BY <1>1, AfterKillType
  <2> QED BY <2>1 DEF KillServer, TypeOK, SignalledByDestroy, childVars
<1>2. CASE Hold(c, "notice", kind, NoProc)
            /\ UNCHANGED <<isAwaitingRestartSpawnDelay, isPreparingBuild>>
  BY <1>2, HoldType DEF KillServer, TypeOK, PCs, childVars, SignalledByDestroy
<1> QED BY <1>1, <1>2 DEF KillServer

LEMMA TypeStep == TypeOK /\ MutexHeld /\ [Next]_vars => TypeOK'
<1> SUFFICES ASSUME TypeOK, MutexHeld, [Next]_vars PROVE TypeOK'
  OBVIOUS
<1>1. ASSUME NEW c \in Calls, StartServer(c) PROVE TypeOK'
  <2>1. /\ call' \in [Calls -> CallStates]
        /\ isPreparingBuild' \in BOOLEAN
    BY <1>1, SpawnServerType DEF StartServer, Kinds
  <2> QED BY <1>1, <2>1 DEF StartServer, TypeOK, childVars
<1>2. ASSUME NEW c \in Calls, SignalStartReady(c) PROVE TypeOK'
  <2>1. /\ call' \in [Calls -> CallStates]
        /\ isPreparingBuild' \in BOOLEAN
    BY <1>2, SpawnServerType DEF SignalStartReady, Kinds, TypeOK
  <2> QED BY <1>2, <2>1 DEF SignalStartReady, TypeOK, childVars
<1>3. ASSUME NEW c \in Calls, StopServer(c) PROVE TypeOK'
  BY <1>3, KillServerType DEF StopServer, Kinds
<1>4. ASSUME NEW c \in Calls, RestartServer(c) PROVE TypeOK'
  <2>1. CASE UNCHANGED vars
    BY <2>1 DEF TypeOK, vars, flagVars, childVars
  <2>2. CASE KillServer(c, "restart")
              /\ UNCHANGED <<luaComToken, startReady, panel>>
    BY <2>2, KillServerType DEF Kinds
  <2> QED BY <1>4, <2>1, <2>2 DEF RestartServer
<1>5. ASSUME NEW c \in Calls, DeployServer(c) PROVE TypeOK'
  <2>1. CASE KillServer(c, "deploy")
    BY <1>5, <2>1, KillServerType DEF DeployServer, Kinds
  <2>2. CASE SpawnServer(c, "deploy", proc)
    <3>1. /\ call' \in [Calls -> CallStates]
          /\ isPreparingBuild' \in BOOLEAN
      BY <2>2, SpawnServerType DEF Kinds
    <3> QED BY <1>5, <2>1, <3>1 DEF DeployServer, TypeOK, childVars
  <2> QED BY <1>5, <2>1, <2>2 DEF DeployServer
<1>6. ASSUME NEW c \in Calls, NoticeElapsed(c) PROVE TypeOK'
  <2>1. call[c].kind \in Kinds
    BY CallFields
  <2>2. /\ call' \in [Calls -> CallStates]
        /\ isAwaitingRestartSpawnDelay' \in BOOLEAN
        /\ isPreparingBuild' \in BOOLEAN
    BY <1>6, <2>1, AfterKillType DEF NoticeElapsed
  <2> QED BY <1>6, <2>2 DEF NoticeElapsed, TypeOK, SignalledByDestroy
<1>7. ASSUME NEW c \in Calls, RestartDelayElapsed(c) PROVE TypeOK'
  <2>1. /\ call' \in [Calls -> CallStates]
        /\ isPreparingBuild' \in BOOLEAN
    BY <1>7, SpawnServerType DEF RestartDelayElapsed, Kinds
  <2> QED BY <1>7, <2>1 DEF RestartDelayElapsed, TypeOK, childVars
<1>8. ASSUME NEW c \in Calls, SpawnPrepared(c) PROVE TypeOK'
  <2>1. call' \in [Calls -> CallStates]
    BY <1>8, HoldType, FreeType, CallFields
    DEF SpawnPrepared, ReturnCall, PCs
  <2> QED BY <1>8, <2>1
          DEF SpawnPrepared, ReturnCall, ResetToken, TypeOK, childVars
<1>9. ASSUME NEW c \in Calls, SpawnFailed(c) \/ SpawnLogged(c) PROVE TypeOK'
  <2>1. call' \in [Calls -> CallStates]
    BY <1>9, FreeType DEF SpawnFailed, SpawnLogged, ReturnCall
  <2> QED BY <1>9, <2>1
          DEF SpawnFailed, SpawnLogged, ReturnCall, TypeOK, childVars
<1>10. ASSUME NEW c \in Calls, SpawnLocale(c) PROVE TypeOK'
  <2>1. call' \in [Calls -> CallStates]
    BY <1>10, HoldType, CallFields DEF SpawnLocale, PCs
  <2> QED BY <1>10, <2>1 DEF SpawnLocale, TypeOK, childVars, flagVars
<1>11. ASSUME NEW c \in Calls, SpawnValidated(c) PROVE TypeOK'
  <2>1. call' \in [Calls -> CallStates]
    BY <1>11, HoldType, CallFields DEF SpawnValidated, PCs
  <2>2. call[c].mutex \in Procs
    BY <1>11 DEF SpawnValidated, At, MutexHeld
  <2> QED BY <1>11, <2>1, <2>2 DEF SpawnValidated, TypeOK, flagVars
<1>12. CASE Environment
  BY <1>12 DEF Environment, ProcessEnds, ExitEvent, CloseEvent, TypeOK,
               flagVars, childVars
<1>13. CASE GracefulShutdown \/ QuitProcess
  BY <1>13 DEF GracefulShutdown, QuitProcess, TypeOK, flagVars, childVars
<1>14. CASE UNCHANGED vars
  BY <1>14 DEF TypeOK, vars, flagVars, childVars
<1> QED
  BY <1>1, <1>2, <1>3, <1>4, <1>5, <1>6, <1>7, <1>8, <1>9, <1>10, <1>11,
     <1>12, <1>13, <1>14 DEF Next, Request, Resume, Terminated

-----------------------------------------------------------------------------
(* A step changes the slot of at most one request, and the slot it leaves   *)
(* behind says what the flags are.                                          *)

LEMMA MutexStep == TypeOK /\ MutexHeld /\ [Next]_vars => MutexHeld'
<1> SUFFICES ASSUME TypeOK, MutexHeld, [Next]_vars PROVE MutexHeld'
  OBVIOUS
<1> USE DEF MutexHeld, TypeOK
<1>1. ASSUME NEW c \in Calls,
             NEW r \in CallStates,
             call' = [call EXCEPT ![c] = r],
             r.pc \in {"locale", "validating", "logging"} => r.mutex \in Procs
      PROVE  MutexHeld'
  BY <1>1
<1>2. FreeSlot \in CallStates /\ FreeSlot.pc = "idle"
  BY FreeSlotType DEF FreeSlot
<1>3. ASSUME NEW c \in Calls, call' = [call EXCEPT ![c] = FreeSlot]
      PROVE  MutexHeld'
  BY <1>1, <1>2, <1>3
<1>4. ASSUME NEW c \in Calls, NEW pc \in PCs, NEW kind \in Kinds,
             NEW m \in Procs \cup {NoProc}, Hold(c, pc, kind, m),
             pc \in {"locale", "validating", "logging"} => m \in Procs
      PROVE  MutexHeld'
  <2>1. [pc |-> pc, kind |-> kind, mutex |-> m] \in CallStates
    BY CallStateType
  <2> QED BY <1>1, <1>4, <2>1 DEF Hold
<1>5. ASSUME NEW c \in Calls, NEW kind \in Kinds, NEW p,
             SpawnServer(c, kind, p)
      PROVE  MutexHeld'
  BY <1>3, <1>4, <1>5 DEF SpawnServer, PCs
<1>6. ASSUME NEW c \in Calls, NEW kind \in Kinds,
             AfterKill(c, kind) \/ AfterKillError(c, kind)
      PROVE  MutexHeld'
  BY <1>3, <1>4, <1>5, <1>6 DEF AfterKill, AfterKillError, PCs
<1>7. ASSUME NEW c \in Calls, NEW kind \in Kinds, KillServer(c, kind)
      PROVE  MutexHeld'
  BY <1>4, <1>6, <1>7 DEF KillServer, PCs
<1>8. ASSUME NEW c \in Calls, Request(c) PROVE MutexHeld'
  <2>1. CASE UNCHANGED call
    BY <2>1
  <2>2. CASE \E kind \in Kinds, p \in {proc} : SpawnServer(c, kind, p)
    BY <2>2, <1>5
  <2>3. CASE \E kind \in Kinds : KillServer(c, kind)
    BY <2>3, <1>7
  <2> QED
    BY <1>8, <2>1, <2>2, <2>3
    DEF Request, StartServer, SignalStartReady, StopServer, RestartServer,
        DeployServer, Kinds, vars
<1>9. ASSUME NEW c \in Calls, Resume(c) PROVE MutexHeld'
  <2>1. CASE NoticeElapsed(c)
    BY <2>1, <1>6, CallFields DEF NoticeElapsed
  <2>2. CASE RestartDelayElapsed(c)
    BY <2>2, <1>5 DEF RestartDelayElapsed, Kinds
  <2>3. CASE SpawnPrepared(c)
    BY <2>3, <1>3, <1>4, CallFields DEF SpawnPrepared, ReturnCall, PCs
  <2>4. CASE SpawnFailed(c) \/ SpawnLogged(c)
    BY <2>4, <1>3 DEF SpawnFailed, SpawnLogged, ReturnCall
  <2>5. CASE SpawnLocale(c) \/ SpawnValidated(c)
    BY <2>5, <1>4, CallFields DEF SpawnLocale, SpawnValidated, At, PCs
  <2> QED BY <1>9, <2>1, <2>2, <2>3, <2>4, <2>5 DEF Resume
<1>10. CASE UNCHANGED call
  BY <1>10
<1> QED
  BY <1>8, <1>9, <1>10
  DEF Next, Environment, ProcessEnds, ExitEvent, CloseEvent,
      GracefulShutdown, QuitProcess, Terminated, vars

-----------------------------------------------------------------------------
(* NoticeExclusive.                                                         *)

LEMMA NoticeStep ==
    TypeOK /\ MutexHeld /\ NoticeExclusive /\ [Next]_vars => NoticeExclusive'
<1> SUFFICES ASSUME TypeOK, MutexHeld, NoticeExclusive, [Next]_vars
             PROVE  NoticeExclusive'
  OBVIOUS
<1> USE DEF NoticeExclusive, InPhase
\* A slot changes between two phases other than "notice", and the managed
\* process only changes to another process or while no notice is pending.
<1>1. ASSUME NEW c \in Calls, NEW r,
             call' = [call EXCEPT ![c] = r],
             call[c].pc # "notice", r.pc # "notice",
             UNCHANGED isAwaitingShutdownNoticeDelay,
             proc' \in Procs \/ proc' = proc \/ ~isAwaitingShutdownNoticeDelay
      PROVE  NoticeExclusive'
  <2>1. \A d \in Calls : call'[d].pc = "notice" <=> call[d].pc = "notice"
    BY <1>1 DEF TypeOK
  <2> QED BY <1>1, <2>1, NoProcAssumption
<1>2. ASSUME NEW c \in Calls, NEW kind \in Kinds, NEW p,
             SpawnServer(c, kind, p), call[c].pc # "notice",
             UNCHANGED <<isAwaitingShutdownNoticeDelay, proc>>
      PROVE  NoticeExclusive'
  BY <1>1, <1>2 DEF SpawnServer, Hold, FreeSlot
\* What the caller of killServer does next never enters a notice.
<1>3. ASSUME NEW c \in Calls, NEW kind \in Kinds,
             AfterKill(c, kind) \/ AfterKillError(c, kind)
      PROVE  \E r : r.pc # "notice" /\ call' = [call EXCEPT ![c] = r]
  <2>1. CASE call' = [call EXCEPT ![c] = FreeSlot]
    BY <2>1 DEF FreeSlot
  <2>2. CASE \E pc \in {"delay", "preparing"} : Hold(c, pc, kind, NoProc)
    BY <2>2 DEF Hold
  <2> QED BY <1>3, <2>1, <2>2 DEF AfterKill, AfterKillError, SpawnServer
<1>4. ASSUME NEW c \in Calls, NEW kind \in Kinds, KillServer(c, kind),
             call[c].pc = "idle"
      PROVE  NoticeExclusive'
  <2>1. CASE /\ AfterKill(c, kind) \/ AfterKillError(c, kind)
             /\ UNCHANGED isAwaitingShutdownNoticeDelay
             /\ proc' = proc \/ ~isAwaitingShutdownNoticeDelay
    BY <2>1, <1>1, <1>3, <1>4
  <2>2. CASE /\ Hold(c, "notice", kind, NoProc)
             /\ ~isAwaitingShutdownNoticeDelay
             /\ isAwaitingShutdownNoticeDelay'
             /\ proc' = proc /\ proc # NoProc
    <3>1. call'[c].pc = "notice"
      BY <2>2 DEF Hold, TypeOK
    <3>2. \A d \in Calls : d # c => call'[d].pc # "notice"
      BY <2>2 DEF Hold, TypeOK
    <3> QED BY <2>2, <3>1, <3>2
  <2> QED BY <1>4, <2>1, <2>2 DEF KillServer, ShutdownInProgress, TypeOK
<1>5. ASSUME NEW c \in Calls, Request(c) PROVE NoticeExclusive'
  <2>1. CASE UNCHANGED <<call, isAwaitingShutdownNoticeDelay, proc>>
    BY <2>1
  <2>2. CASE /\ At(c, "idle")
             /\ \E kind \in Kinds : SpawnServer(c, kind, proc)
             /\ UNCHANGED <<isAwaitingShutdownNoticeDelay, proc>>
    BY <2>2, <1>2 DEF At
  <2>3. CASE At(c, "idle") /\ \E kind \in Kinds : KillServer(c, kind)
    BY <2>3, <1>4 DEF At
  <2> QED
    BY <1>5, <2>1, <2>2, <2>3
    DEF Request, StartServer, SignalStartReady, StopServer, RestartServer,
        DeployServer, Kinds, vars, flagVars
<1>6. ASSUME NEW c \in Calls, Resume(c) PROVE NoticeExclusive'
  <2>1. CASE NoticeElapsed(c)
    <3>1. call[c].pc = "notice" /\ ~isAwaitingShutdownNoticeDelay'
      BY <2>1 DEF NoticeElapsed, At
    <3>2. \A d \in Calls : d # c => call[d].pc # "notice"
      BY <3>1
    <3>3. PICK r : r.pc # "notice" /\ call' = [call EXCEPT ![c] = r]
      BY <2>1, <1>3, CallFields DEF NoticeElapsed
    <3>4. \A d \in Calls : call'[d].pc # "notice"
      BY <3>2, <3>3 DEF TypeOK
    <3> QED BY <3>1, <3>4
  <2>2. CASE RestartDelayElapsed(c)
    BY <2>2, <1>2 DEF RestartDelayElapsed, Kinds, At
  <2>3. CASE SpawnPrepared(c)
    BY <2>3, <1>1 DEF SpawnPrepared, ReturnCall, Hold, FreeSlot, At
  <2>4. CASE SpawnFailed(c) \/ SpawnLogged(c)
    BY <2>4, <1>1 DEF SpawnFailed, SpawnLogged, ReturnCall, FreeSlot, At
  <2>5. CASE SpawnLocale(c)
    BY <2>5, <1>1 DEF SpawnLocale, Hold, At, flagVars
  <2>6. CASE SpawnValidated(c)
    <3>1. call[c].pc = "validating" /\ proc' = call[c].mutex
          /\ UNCHANGED isAwaitingShutdownNoticeDelay
      BY <2>6 DEF SpawnValidated, At, flagVars
    <3>2. proc' \in Procs
      BY <3>1 DEF MutexHeld
    <3>3. \E r : r.pc # "notice" /\ call' = [call EXCEPT ![c] = r]
      BY <2>6 DEF SpawnValidated, Hold
    <3> QED BY <3>1, <3>2, <3>3, <1>1
  <2> QED BY <1>6, <2>1, <2>2, <2>3, <2>4, <2>5, <2>6 DEF Resume
<1>7. CASE UNCHANGED <<call, isAwaitingShutdownNoticeDelay, proc>>
  BY <1>7
<1> QED
  BY <1>5, <1>6, <1>7
  DEF Next, Environment, ProcessEnds, ExitEvent, CloseEvent,
      GracefulShutdown, QuitProcess, Terminated, vars, flagVars

-----------------------------------------------------------------------------
(* PrepareExclusive.                                                        *)

LEMMA PrepareStep ==
    TypeOK /\ PrepareExclusive /\ [Next]_vars => PrepareExclusive'
<1> SUFFICES ASSUME TypeOK, PrepareExclusive, [Next]_vars
             PROVE  PrepareExclusive'
  OBVIOUS
<1> USE DEF PrepareExclusive, InPhase
<1>1. ASSUME NEW c \in Calls, NEW r,
             call' = [call EXCEPT ![c] = r],
             call[c].pc # "preparing", r.pc # "preparing",
             UNCHANGED isPreparingBuild
      PROVE  PrepareExclusive'
  <2>1. \A d \in Calls : call'[d].pc = "preparing" <=> call[d].pc = "preparing"
    BY <1>1 DEF TypeOK
  <2> QED BY <1>1, <2>1
\* spawnServer takes the flag when nobody has it.
<1>2. ASSUME NEW c \in Calls, NEW kind \in Kinds, NEW p,
             SpawnServer(c, kind, p), call[c].pc # "preparing"
      PROVE  PrepareExclusive'
  <2>1. CASE SpawnRefused(p)
    BY <2>1, <1>1, <1>2 DEF SpawnServer, FreeSlot
  <2>2. CASE ~SpawnRefused(p)
    <3>1. /\ ~isPreparingBuild /\ isPreparingBuild'
          /\ Hold(c, "preparing", kind, NoProc)
      BY <2>2, <1>2 DEF SpawnServer, SpawnRefused
    <3>2. \A d \in Calls : call'[d].pc = "preparing" <=> d = c
      BY <3>1 DEF Hold, TypeOK
    <3> QED BY <3>1, <3>2
  <2> QED BY <2>1, <2>2
<1>3. ASSUME NEW c \in Calls, NEW kind \in Kinds,
             AfterKill(c, kind) \/ AfterKillError(c, kind),
             call[c].pc # "preparing"
      PROVE  PrepareExclusive'
  <2>1. CASE call' = [call EXCEPT ![c] = FreeSlot] /\ UNCHANGED isPreparingBuild
    BY <2>1, <1>1, <1>3 DEF FreeSlot
  <2>2. CASE Hold(c, "delay", "restart", NoProc) /\ UNCHANGED isPreparingBuild
    BY <2>2, <1>1, <1>3 DEF Hold
  <2>3. CASE SpawnServer(c, "deploy", NoProc)
    BY <2>3, <1>2, <1>3 DEF Kinds
  <2> QED BY <1>3, <2>1, <2>2, <2>3 DEF AfterKill, AfterKillError
<1>4. ASSUME NEW c \in Calls, NEW kind \in Kinds, KillServer(c, kind),
             call[c].pc = "idle"
      PROVE  PrepareExclusive'
  <2>1. CASE AfterKill(c, kind) \/ AfterKillError(c, kind)
    BY <2>1, <1>3, <1>4
  <2>2. CASE Hold(c, "notice", kind, NoProc) /\ UNCHANGED isPreparingBuild
    BY <2>2, <1>1, <1>4 DEF Hold
  <2> QED BY <1>4, <2>1, <2>2 DEF KillServer
<1>5. ASSUME NEW c \in Calls, Request(c) PROVE PrepareExclusive'
  <2>1. CASE UNCHANGED <<call, isPreparingBuild>>
    BY <2>1
  <2>2. CASE At(c, "idle") /\ \E kind \in Kinds : SpawnServer(c, kind, proc)
    BY <2>2, <1>2 DEF At
  <2>3. CASE At(c, "idle") /\ \E kind \in Kinds : KillServer(c, kind)
    BY <2>3, <1>4 DEF At
  <2> QED
    BY <1>5, <2>1, <2>2, <2>3
    DEF Request, StartServer, SignalStartReady, StopServer, RestartServer,
        DeployServer, Kinds, vars, flagVars
<1>6. ASSUME NEW c \in Calls, Resume(c) PROVE PrepareExclusive'
  <2>1. CASE NoticeElapsed(c)
    BY <2>1, <1>3, CallFields DEF NoticeElapsed, At
  <2>2. CASE RestartDelayElapsed(c)
    BY <2>2, <1>2 DEF RestartDelayElapsed, Kinds, At
  <2>3. CASE SpawnPrepared(c)
    <3>1. call[c].pc = "preparing" /\ ~isPreparingBuild'
      BY <2>3 DEF SpawnPrepared, At
    <3>2. \E r : r.pc # "preparing" /\ call' = [call EXCEPT ![c] = r]
      BY <2>3 DEF SpawnPrepared, ReturnCall, Hold, FreeSlot
    <3>3. \A d \in Calls : call'[d].pc # "preparing"
      BY <3>1, <3>2 DEF TypeOK
    <3> QED BY <3>1, <3>3
  <2>4. CASE SpawnFailed(c) \/ SpawnLogged(c)
    BY <2>4, <1>1 DEF SpawnFailed, SpawnLogged, ReturnCall, FreeSlot, At
  <2>5. CASE SpawnLocale(c) \/ SpawnValidated(c)
    BY <2>5, <1>1 DEF SpawnLocale, SpawnValidated, Hold, At, flagVars
  <2> QED BY <1>6, <2>1, <2>2, <2>3, <2>4, <2>5 DEF Resume
<1>7. CASE UNCHANGED <<call, isPreparingBuild>>
  BY <1>7
<1> QED
  BY <1>5, <1>6, <1>7
  DEF Next, Environment, ProcessEnds, ExitEvent, CloseEvent,
      GracefulShutdown, QuitProcess, Terminated, vars, flagVars

-----------------------------------------------------------------------------
(* RestartFlagBacked.                                                       *)

LEMMA RestartFlagStep ==
    TypeOK /\ RestartFlagBacked /\ [Next]_vars => RestartFlagBacked'
<1> SUFFICES ASSUME TypeOK, RestartFlagBacked, [Next]_vars,
                    isAwaitingRestartSpawnDelay'
             PROVE  \E d \in Calls : call'[d].pc = "delay"
  BY DEF RestartFlagBacked, InPhase
<1> USE DEF RestartFlagBacked, InPhase
\* The request that sleeps is not the one that moves.
<1>1. ASSUME NEW c \in Calls, NEW r, call' = [call EXCEPT ![c] = r],
             call[c].pc # "delay", isAwaitingRestartSpawnDelay
      PROVE  \E d \in Calls : call'[d].pc = "delay"
  BY <1>1 DEF TypeOK
<1>2. ASSUME NEW c \in Calls, NEW kind \in Kinds, NEW p,
             SpawnServer(c, kind, p), call[c].pc # "delay",
             isAwaitingRestartSpawnDelay
      PROVE  \E d \in Calls : call'[d].pc = "delay"
  BY <1>1, <1>2 DEF SpawnServer, Hold
<1>3. ASSUME NEW c \in Calls, NEW kind \in Kinds,
             AfterKill(c, kind) \/ AfterKillError(c, kind),
             call[c].pc # "delay"
      PROVE  \E d \in Calls : call'[d].pc = "delay"
  <2>1. CASE AfterKillError(c, kind)
    BY <2>1, <1>1, <1>3 DEF AfterKillError
  <2>2. CASE /\ call' = [call EXCEPT ![c] = FreeSlot]
             /\ UNCHANGED isAwaitingRestartSpawnDelay
    BY <2>2, <1>1, <1>3
  <2>3. CASE Hold(c, "delay", "restart", NoProc)
    BY <2>3 DEF Hold, TypeOK
  <2>4. CASE /\ SpawnServer(c, "deploy", NoProc)
             /\ UNCHANGED isAwaitingRestartSpawnDelay
    BY <2>4, <1>2, <1>3 DEF Kinds
  <2> QED BY <1>3, <2>1, <2>2, <2>3, <2>4 DEF AfterKill
<1>4. ASSUME NEW c \in Calls, NEW kind \in Kinds, KillServer(c, kind),
             call[c].pc = "idle"
      PROVE  \E d \in Calls : call'[d].pc = "delay"
  <2>1. CASE AfterKill(c, kind) \/ AfterKillError(c, kind)
    BY <2>1, <1>3, <1>4
  <2>2. CASE /\ Hold(c, "notice", kind, NoProc)
             /\ UNCHANGED isAwaitingRestartSpawnDelay
    BY <2>2, <1>1, <1>4 DEF Hold
  <2> QED BY <1>4, <2>1, <2>2 DEF KillServer
<1>5. ASSUME NEW c \in Calls, Request(c)
      PROVE  \E d \in Calls : call'[d].pc = "delay"
  <2>1. CASE UNCHANGED <<call, isAwaitingRestartSpawnDelay>>
    BY <2>1
  <2>2. CASE /\ At(c, "idle")
             /\ \E kind \in Kinds : SpawnServer(c, kind, proc)
             /\ UNCHANGED isAwaitingRestartSpawnDelay
    BY <2>2, <1>2 DEF At
  <2>3. CASE At(c, "idle") /\ \E kind \in Kinds : KillServer(c, kind)
    BY <2>3, <1>4 DEF At
  <2> QED
    BY <1>5, <2>1, <2>2, <2>3
    DEF Request, StartServer, SignalStartReady, StopServer, RestartServer,
        DeployServer, Kinds, vars, flagVars
<1>6. ASSUME NEW c \in Calls, Resume(c)
      PROVE  \E d \in Calls : call'[d].pc = "delay"
  <2>1. CASE NoticeElapsed(c)
    BY <2>1, <1>3, CallFields DEF NoticeElapsed, At
  <2>2. CASE RestartDelayElapsed(c)
    BY <2>2 DEF RestartDelayElapsed
  <2>3. CASE SpawnPrepared(c)
    BY <2>3, <1>1 DEF SpawnPrepared, ReturnCall, Hold, At
  <2>4. CASE SpawnFailed(c) \/ SpawnLogged(c)
    BY <2>4, <1>1 DEF SpawnFailed, SpawnLogged, ReturnCall, At
  <2>5. CASE SpawnLocale(c) \/ SpawnValidated(c)
    BY <2>5, <1>1 DEF SpawnLocale, SpawnValidated, Hold, At, flagVars
  <2> QED BY <1>6, <2>1, <2>2, <2>3, <2>4, <2>5 DEF Resume
<1>7. CASE UNCHANGED <<call, isAwaitingRestartSpawnDelay>>
  BY <1>7
<1> QED
  BY <1>5, <1>6, <1>7
  DEF Next, Environment, ProcessEnds, ExitEvent, CloseEvent,
      GracefulShutdown, QuitProcess, Terminated, vars, flagVars

-----------------------------------------------------------------------------
(* Theorems.                                                                *)

RunnerInv ==
    /\ TypeOK
    /\ MutexHeld
    /\ NoticeExclusive
    /\ PrepareExclusive
    /\ RestartFlagBacked

LEMMA RunnerInit == Init => RunnerInv
<1> SUFFICES ASSUME Init PROVE RunnerInv
  OBVIOUS
<1>1. \A c \in Calls : call[c].pc = "idle"
  BY DEF Init, FreeSlot
<1> QED
  BY <1>1, TypeInit
  DEF RunnerInv, MutexHeld, NoticeExclusive, PrepareExclusive,
      RestartFlagBacked, InPhase, Init

LEMMA RunnerStep == RunnerInv /\ [Next]_vars => RunnerInv'
BY TypeStep, MutexStep, NoticeStep, PrepareStep, RestartFlagStep DEF RunnerInv

\* The variables of FxRunner keep their types, whatever requests arrive.
THEOREM TypeCorrect == Spec => []TypeOK
<1>1. RunnerInv => TypeOK
  BY DEF RunnerInv
<1> QED BY RunnerInit, RunnerStep, <1>1, PTL DEF Spec

\* killServer: one shutdown notice at a time, and the process it warned about
\* is still managed when it elapses.
THEOREM NoticeSafe == Spec => []NoticeExclusive
<1>1. RunnerInv => NoticeExclusive
  BY DEF RunnerInv
<1> QED BY RunnerInit, RunnerStep, <1>1, PTL DEF Spec

\* spawnServer: one build preparation at a time, exactly while the flag is set.
THEOREM PrepareSafe == Spec => []PrepareExclusive
<1>1. RunnerInv => PrepareExclusive
  BY DEF RunnerInv
<1> QED BY RunnerInit, RunnerStep, <1>1, PTL DEF Spec

\* restartServer: its flag is never left set behind it.
THEOREM RestartFlagSafe == Spec => []RestartFlagBacked
<1>1. RunnerInv => RestartFlagBacked
  BY DEF RunnerInv
<1> QED BY RunnerInit, RunnerStep, <1>1, PTL DEF Spec

=============================================================================
