------------------------------ MODULE FxMonitor ------------------------------
(***************************************************************************)
(* core/modules/FxMonitor and core/modules/FxResources: once a second the   *)
(* panel decides from the heartbeats of the game server, the answers to its *)
(* HTTP health checks and the resources it reports as starting whether the  *)
(* server has to be restarted.                                              *)
(*                                                                         *)
(* FxLifecycle has the requests the monitor makes to FxRunner; this module  *)
(* has the decision and its clocks.  A restart is requested here, and a     *)
(* kill and a spawn, by whoever, come some time later.  What is only shown  *)
(* (the status on the web, the reasons and warnings in the log) is left out.*)
(***************************************************************************)
EXTENDS Naturals

CONSTANTS
    HBDelay, HBFatal,       \* HB_CONFIG.delayLimit, fatalLimit
    HCDelay, HCFatal,       \* HC_CONFIG.delayLimit, fatalLimit
    BootInitAfterHb,        \* HC_CONFIG.bootInitAfterHbLimit
    BootNoEvent,            \* HB_CONFIG.bootNoEventLimit
    BootResEventGap,        \* HB_CONFIG.bootResEventGapLimit
    Tolerance,              \* restarter.resourceStartingTolerance
    Grace,                  \* restarter.bootGracePeriod
    FrozenLimit,            \* the panel counts as frozen
    HangWarnGap,            \* between two warnings of a partial hang
    HangWarnLead,           \* from the warning to the restart
    FreezeLengths,          \* how long the machine may be frozen
    AnswersOutlive,         \* an answer may come after its server was replaced
    StdioCloses,            \* 'close' follows the exit of the server
    AgeLimit                \* bound on the clocks, beyond every limit above

Limits == {HBDelay, HBFatal, HCDelay, HCFatal, BootInitAfterHb, BootNoEvent,
           BootResEventGap, Tolerance, Grace, FrozenLimit, HangWarnGap,
           HangWarnLead}

ASSUME MonitorAssumption ==
    /\ AgeLimit \in Nat
    /\ \A l \in Limits : l \in 1 .. AgeLimit - 1
    /\ HBDelay < HBFatal /\ HCDelay < HCFatal
    /\ HangWarnLead < HCFatal
    /\ FreezeLengths \subseteq 1 .. AgeLimit
    /\ AnswersOutlive \in BOOLEAN
    /\ StdioCloses \in BOOLEAN

Never == AgeLimit + 1       \* a stopwatch that was not started

Watches == {"heartBeat", "firstHeartBeat", "healthCheck", "statusUpdate",
            "hangWarning", "resBooting", "lastBooted"}

VARIABLES
    child,              \* "none", "alive", "exited" or "destroyed"
    isAwaitingSpawn,    \* FxRunner.isAwaitingRestartSpawnDelay
    uptime,             \* seconds the server has been up, until its exit
    sw,                 \* the stopwatches, in seconds
    isAwaitingRestart,
    booted,             \* tsServerBooted is set
    due,                \* updateStatus has not run this second
    lateAnswer,         \* a health check of a killed server is in flight
    failures,           \* history: boot failures counted of this server
    confirmed,          \* history: the boot of this server was confirmed
    answered,           \* history: this server answered a health check
    quiet,              \* history: how long this server ran without a
                        \* heartbeat (up to HBDelay)
    warned,             \* history: since players were warned of a hang
    steady              \* history: how often in a row heartbeats were seen
                        \* healthy (up to HangWarnLead)

serverVars == <<child, isAwaitingSpawn, uptime>>
historyVars == <<failures, confirmed, answered, quiet, warned, steady>>
vars == <<serverVars, sw, isAwaitingRestart, booted, due, lateAnswer, historyVars>>

Age == 0 .. Never

TypeOK ==
    /\ child \in {"none", "alive", "exited", "destroyed"}
    /\ isAwaitingSpawn \in BOOLEAN
    /\ uptime \in 0 .. AgeLimit
    /\ sw \in [Watches -> Age]
    /\ isAwaitingRestart \in BOOLEAN
    /\ booted \in BOOLEAN
    /\ due \in BOOLEAN
    /\ lateAnswer \in BOOLEAN
    /\ failures \in 0 .. 2
    /\ confirmed \in BOOLEAN
    /\ answered \in BOOLEAN
    /\ quiet \in 0 .. HBDelay
    /\ warned \in Age
    /\ steady \in 0 .. HangWarnLead

Init ==
    /\ child = "none"
    /\ isAwaitingSpawn = FALSE
    /\ uptime = 0
    /\ sw = [w \in Watches |-> IF w = "hangWarning" THEN 0 ELSE Never]
    /\ isAwaitingRestart = FALSE
    /\ booted = FALSE
    /\ due = FALSE
    /\ lateAnswer = FALSE
    /\ failures = 0
    /\ confirmed = FALSE
    /\ answered = FALSE
    /\ quiet = 0
    /\ warned = Never
    /\ steady = 0

-----------------------------------------------------------------------------
(* Stopwatches and health monitors.                                         *)

Capped(n) == IF n > AgeLimit THEN AgeLimit ELSE n

Later(age, secs) == IF age = Never THEN Never ELSE Capped(age + secs)

Started(w) == sw[w] # Never

IsOver(w, secs) == Started(w) /\ sw[w] >= secs

HBHealthy == Started("heartBeat") /\ ~IsOver("heartBeat", HBDelay)
HCHealthy == Started("healthCheck") /\ ~IsOver("healthCheck", HCDelay)

Fatal == IsOver("heartBeat", HBFatal) \/ IsOver("healthCheck", HCFatal)

\* resetState, without the flags it resets.
ResetWatches ==
    [w \in Watches |->
        CASE w \in {"resBooting", "lastBooted"} -> sw[w]
          [] w = "hangWarning" -> 0
          [] OTHER -> Never]

ResetState ==
    /\ sw' = ResetWatches
    /\ booted' = FALSE

-----------------------------------------------------------------------------
(* calculateMonitorStatus.                                                  *)

IsIdle == child = "none" /\ ~isAwaitingSpawn

\* Heartbeats but no health check for too long.
HttpBootTimedOut ==
    /\ ~Started("healthCheck")
    /\ Started("heartBeat")
    /\ sw["firstHeartBeat"] > BootInitAfterHb

\* Mutant: only the resource being started is looked at.
ResourceBootTimedOutNoEvents ==
    /\ ~Started("heartBeat")
    /\ \/ IsOver("resBooting", Tolerance)
       \/ /\ ~Started("resBooting")
          /\ Started("lastBooted") /\ sw["lastBooted"] > BootResEventGap

\* No heartbeat, and the resources take too long.
ResourceBootTimedOut ==
    /\ ~Started("heartBeat")
    /\ \/ IsOver("resBooting", Tolerance)
       \/ /\ ~Started("resBooting")
          /\ IF Started("lastBooted") THEN sw["lastBooted"] > BootResEventGap
                                      ELSE uptime > BootNoEvent

\* Mutant: a closed server has to wait for its limits as well.
MustRestartByLimits ==
    /\ ~(HBHealthy /\ HCHealthy)
    /\ uptime >= Grace
    /\ HttpBootTimedOut \/ ResourceBootTimedOut \/ Fatal

MustRestart ==
    \/ child = "destroyed"
    \/ /\ ~(HBHealthy /\ HCHealthy)
       /\ uptime >= Grace
       /\ HttpBootTimedOut \/ ResourceBootTimedOut \/ Fatal

\* Mutant: the warning comes with the limit, not before it.
MustWarnLate ==
    /\ uptime >= Grace
    /\ HBHealthy
    /\ IsOver("hangWarning", HangWarnGap)
    /\ sw["healthCheck"] > HCFatal

\* A partial hang: heartbeats arrive, health checks have failed for long.
MustWarn ==
    /\ uptime >= Grace
    /\ HBHealthy
    /\ IsOver("hangWarning", HangWarnGap)
    /\ sw["healthCheck"] > HCFatal - HangWarnLead

-----------------------------------------------------------------------------
(* updateStatus.                                                            *)

\* History: what the monitor saw of the heartbeats.
Look == steady' = IF ~HBHealthy THEN 0
                  ELSE IF steady < HangWarnLead THEN steady + 1 ELSE steady

SkipIdle ==
    /\ IsIdle
    /\ ResetState
    /\ isAwaitingRestart' = FALSE
    /\ UNCHANGED historyVars

SkipRestarting ==
    /\ ~IsIdle
    /\ isAwaitingRestart
    /\ UNCHANGED <<sw, booted, isAwaitingRestart, historyVars>>

SkipFrozen ==
    /\ ~IsIdle
    /\ ~isAwaitingRestart
    /\ IsOver("statusUpdate", FrozenLimit)
    /\ sw' = [sw EXCEPT !["statusUpdate"] = 0]
    /\ UNCHANGED <<booted, isAwaitingRestart, historyVars>>

Judged ==
    /\ ~IsIdle
    /\ ~isAwaitingRestart
    /\ ~IsOver("statusUpdate", FrozenLimit)

\* The server is healthy.  The first time, its boot is completed.
SkipHealthy ==
    /\ Judged
    /\ child # "destroyed"
    /\ HBHealthy /\ HCHealthy
    /\ sw' = [sw EXCEPT !["statusUpdate"] = 0]
    /\ booted' = TRUE
    /\ confirmed' = (confirmed \/ (~booted /\ child = "alive"))
    /\ Look
    /\ UNCHANGED <<isAwaitingRestart, failures, answered, quiet, warned>>

\* Mutant: the flag is not set, the restart is requested every second.
RestartAgain ==
    /\ Judged
    /\ MustRestart
    /\ failures' = IF booted \/ failures = 2 THEN failures ELSE failures + 1
    /\ ResetState
    /\ isAwaitingRestart' = FALSE
    /\ Look
    /\ UNCHANGED <<confirmed, answered, quiet, warned>>

\* Request a restart; before the boot was completed it is a failed boot.
Restart ==
    /\ Judged
    /\ MustRestart
    /\ failures' = IF booted \/ failures = 2 THEN failures ELSE failures + 1
    /\ ResetState
    /\ isAwaitingRestart' = TRUE
    /\ Look
    /\ UNCHANGED <<confirmed, answered, quiet, warned>>

\* The boot is in its grace period, or the server is given more time.
Wait ==
    /\ Judged
    /\ ~MustRestart
    /\ ~(HBHealthy /\ HCHealthy)
    /\ sw' = [sw EXCEPT !["statusUpdate"] = 0,
                        !["hangWarning"] = IF MustWarn THEN 0 ELSE @]
    /\ warned' = IF MustWarn THEN 0 ELSE warned
    /\ Look
    /\ UNCHANGED <<booted, isAwaitingRestart, failures, confirmed, answered, quiet>>

UpdateStatus ==
    /\ due
    /\ due' = FALSE
    /\ SkipIdle \/ SkipRestarting \/ SkipFrozen \/ SkipHealthy \/ Restart \/ Wait
    /\ UNCHANGED <<serverVars, lateAnswer>>

-----------------------------------------------------------------------------
(* Time, and what reaches the monitor.                                      *)

Pass(secs) ==
    /\ sw' = [w \in Watches |-> Later(sw[w], secs)]
    /\ uptime' = IF child = "alive" THEN Capped(uptime + secs) ELSE uptime
    /\ warned' = Later(warned, secs)
    /\ due' = TRUE
    /\ lateAnswer' = FALSE
    /\ UNCHANGED <<child, isAwaitingSpawn, isAwaitingRestart, booted, failures,
                   confirmed, answered, steady>>

\* A second passes, in which the monitor has looked.  A health check is over
\* by the end of it.
Second ==
    /\ ~due
    /\ Pass(1)
    /\ quiet' = IF child = "alive" /\ quiet < HBDelay THEN quiet + 1 ELSE quiet

\* The machine is frozen: time passes and nothing runs.
Freeze(secs) ==
    /\ ~due
    /\ Pass(secs)
    /\ UNCHANGED quiet

\* What the server sent may be read after it exited, until its pipes close.
Heard == child \in {"alive", "exited"}

\* handleHeartBeat, from the pipe or from HTTP.
HandleHeartBeat ==
    /\ Heard
    /\ sw' = [sw EXCEPT !["heartBeat"] = 0,
                        !["firstHeartBeat"] = IF @ = Never THEN 0 ELSE @]
    /\ quiet' = 0
    /\ UNCHANGED <<serverVars, isAwaitingRestart, booted, due, lateAnswer,
                   failures, confirmed, answered, warned, steady>>

\* performHealthCheck resumes with an answer of the server.
HealthCheckAnswered ==
    /\ Heard
    /\ sw' = [sw EXCEPT !["healthCheck"] = 0]
    /\ answered' = TRUE
    /\ UNCHANGED <<serverVars, isAwaitingRestart, booted, due, lateAnswer,
                   failures, confirmed, quiet, warned, steady>>

\* ... with an answer of a server that was killed meanwhile.
LateAnswer ==
    /\ lateAnswer
    /\ lateAnswer' = FALSE
    /\ sw' = [sw EXCEPT !["healthCheck"] = 0]
    /\ UNCHANGED <<serverVars, isAwaitingRestart, booted, due, historyVars>>

\* FxResources.handleServerEvents: onResourceStarting.
OnResourceStarting ==
    /\ Heard
    /\ ~Started("heartBeat")        \* not looked at afterwards
    /\ sw' = [sw EXCEPT !["resBooting"] = 0]
    /\ UNCHANGED <<serverVars, isAwaitingRestart, booted, due, lateAnswer, historyVars>>

\* FxResources.handleServerEvents: onResourceStart.
OnResourceStart ==
    /\ Heard
    /\ ~Started("heartBeat")
    /\ sw' = [sw EXCEPT !["lastBooted"] = 0]
    /\ UNCHANGED <<serverVars, isAwaitingRestart, booted, due, lateAnswer, historyVars>>

-----------------------------------------------------------------------------
(* The server and FxRunner.                                                 *)

\* The process exits; its stdio may still be open.
Exit ==
    /\ child = "alive"
    /\ child' = "exited"
    /\ UNCHANGED <<isAwaitingSpawn, uptime, sw, isAwaitingRestart, booted, due,
                   lateAnswer, historyVars>>

\* 'close': ProcessManager.destroy.
Close ==
    /\ child = "exited"
    /\ child' = "destroyed"
    /\ UNCHANGED <<isAwaitingSpawn, uptime, sw, isAwaitingRestart, booted, due,
                   lateAnswer, historyVars>>

\* killServer, to restart or to stop, asked by the monitor or somebody else.
KillServer(toRestart) ==
    /\ child # "none"
    /\ child' = "none"
    /\ uptime' = 0
    /\ isAwaitingSpawn' = toRestart
    /\ lateAnswer' = (AnswersOutlive /\ child = "alive")
    /\ sw' = [sw EXCEPT !["resBooting"] = Never, !["lastBooted"] = Never]
    /\ UNCHANGED <<isAwaitingRestart, booted, due, historyVars>>

\* The spawn delay is over; spawnServer may still find an error.
SpawnDelayOver ==
    /\ isAwaitingSpawn
    /\ isAwaitingSpawn' = FALSE
    /\ UNCHANGED <<child, uptime, sw, isAwaitingRestart, booted, due, lateAnswer,
                   historyVars>>

\* spawnServer succeeds.
SpawnServer ==
    /\ IsIdle
    /\ child' = "alive"
    /\ ResetState
    /\ isAwaitingRestart' = FALSE
    /\ failures' = 0
    /\ confirmed' = FALSE
    /\ answered' = FALSE
    /\ quiet' = 0
    /\ warned' = Never
    /\ steady' = 0
    /\ UNCHANGED <<isAwaitingSpawn, uptime, due, lateAnswer>>

Next ==
    \/ UpdateStatus
    \/ Second
    \/ \E secs \in FreezeLengths : Freeze(secs)
    \/ HandleHeartBeat
    \/ HealthCheckAnswered
    \/ LateAnswer
    \/ OnResourceStarting
    \/ OnResourceStart
    \/ Exit
    \/ Close
    \/ \E toRestart \in BOOLEAN : KillServer(toRestart)
    \/ SpawnDelayOver
    \/ SpawnServer

Spec == Init /\ [][Next]_vars

\* Time passes and the machine is not always frozen, the interval fires, and
\* a restart that was requested kills the server (FxLifecycle is about the
\* requests that are refused).
Fairness ==
    /\ SF_vars(Second)
    /\ WF_vars(UpdateStatus)
    /\ WF_vars(isAwaitingRestart /\ KillServer(TRUE))
    /\ StdioCloses => WF_vars(Close)

FairSpec == Spec /\ Fairness

-----------------------------------------------------------------------------
(* Properties.                                                              *)

\* A server out of its grace period that the monitor has just let live is not
\* hung, and not stuck in its boot: no combination of what was received and
\* what was not escapes every limit.
HangCaught ==
    (child = "alive" /\ ~due /\ ~isAwaitingRestart /\ uptime >= Grace) =>
        /\ Started("heartBeat") => sw["heartBeat"] < HBFatal
        /\ Started("healthCheck") => sw["healthCheck"] < HCFatal
        /\ (Started("heartBeat") /\ ~Started("healthCheck")) =>
               sw["firstHeartBeat"] <= BootInitAfterHb
        /\ (~Started("heartBeat") /\ Started("resBooting")) =>
               sw["resBooting"] < Tolerance
        /\ (~Started("heartBeat") /\ ~Started("resBooting") /\ ~Started("lastBooted")) =>
               uptime <= BootNoEvent

\* "time between one 'started' and one the next event": HB_CONFIG.
EventGapCaught ==
    (/\ child = "alive" /\ ~due /\ ~isAwaitingRestart /\ uptime >= Grace
     /\ ~Started("heartBeat") /\ Started("lastBooted")
     /\ sw["resBooting"] > sw["lastBooted"]) =>
        sw["lastBooted"] <= BootResEventGap

\* "If http-only hang, warn 1 minute before restart": a server whose
\* heartbeats stayed healthy is restarted for its health checks only when the
\* players were warned in this very hang, and not just before.
PlayersWarned ==
    [][(/\ isAwaitingRestart' /\ ~isAwaitingRestart
        /\ child = "alive" /\ HBHealthy /\ IsOver("healthCheck", HCFatal)
        /\ steady >= HangWarnLead - 1) =>
            /\ HangWarnLead - 1 <= warned
            /\ warned < sw["healthCheck"]]_vars

\* "Due to a partial hang, this server will restart in 1 minute.": players
\* are told so only of a server that answered before.
WarnedOfHang ==
    [][(warned' = 0 /\ warned # 0) => Started("healthCheck")]_vars

\* One server makes at most one boot failure, and none when its boot was
\* confirmed: FxBuilds reverts to the stable build after two of them.
BootFailureOnce == failures <= 1 /\ (confirmed => failures = 0)

\* A server that is gone is replaced or given up.
GoneReplaced == child \in {"exited", "destroyed"} ~> child \in {"none", "alive"}

\* "to prevent DDoS crash false positive": a server that was confirmed is not
\* restarted for a time in which the whole machine was frozen.
FreezeForgiven ==
    [][(/\ isAwaitingRestart' /\ ~isAwaitingRestart
        /\ child = "alive" /\ booted /\ IsOver("heartBeat", HBFatal)
        /\ HCHealthy) => quiet >= HBDelay]_vars

\* The limits "after first success" are for a server that succeeded once.
FatalNeedsSuccess ==
    [][(/\ isAwaitingRestart' /\ ~isAwaitingRestart
        /\ child = "alive" /\ IsOver("healthCheck", HCFatal)
        /\ ~HttpBootTimedOut /\ ~ResourceBootTimedOut
        /\ ~IsOver("heartBeat", HBFatal)) => answered]_vars

=============================================================================
