----------------------------- MODULE FxScheduler -----------------------------
(***************************************************************************)
(* core/modules/FxScheduler: restarts the server at the times of day of     *)
(* the settings (restarter.schedule), or at one temporary time an           *)
(* administrator chose, unless the next restart was skipped.                *)
(*                                                                         *)
(* Time is counted in minutes, as the module does (minuteFloorTs).  The     *)
(* 60-second interval has an arbitrary phase: lag counts the minute         *)
(* boundaries since it last fired, and a request may see the clock on       *)
(* either side of the tick.  A change of the settings reaches the module    *)
(* in a callback of its own (settingsChanged), after the new value can be   *)
(* read.  Of FxRunner only what the module reads or calls is kept.          *)
(***************************************************************************)
EXTENDS Integers, FiniteSets

CONSTANTS
    DayLength,      \* minutes of a day
    TwoHours,       \* "less than 2 hours"
    LastMinute,     \* bound on the clock
    MaxLag,         \* bound on the minutes between two ticks
    Schedules,      \* the values restarter.schedule may be given
    TempOffsets,    \* minutes ahead of now a temporary restart may be set
    Never           \* false

ASSUME SchedulerAssumption ==
    /\ DayLength \in Nat \ {0}
    /\ TwoHours \in Nat
    /\ LastMinute \in Nat
    /\ MaxLag \in Nat
    /\ {} \in Schedules
    /\ \A s \in Schedules : s \subseteq 0 .. DayLength - 1
    /\ TempOffsets \subseteq 1 .. DayLength - 1
    /\ Never \notin Int

VARIABLES
    now,                \* this minute
    lag,                \* minutes since the interval fired
    schedule,           \* txConfig.restarter.schedule, parsed
    settingsChanged,    \* handleConfigUpdate is due
    nextTempSchedule,
    calculatedNext,     \* calculatedNextRestartMinuteFloorTs
    nextSkip,
    runner,             \* "idle", "respawning" (restart delay), "alive",
                        \* "notice" (about to be killed) or "dead"
    inGrace,            \* uptime of the child < bootGracePeriod
    cancelled,          \* history: restarts <<minute, temporary>> called off
    tempUsed,           \* history: a temporary restart was set since the boot
                        \* or the last change of the settings
    triggered           \* history: the restart this step triggered, or Never

schedVars  == <<nextTempSchedule, calculatedNext, nextSkip>>
serverVars == <<runner, inGrace>>
vars == <<now, lag, schedule, settingsChanged, schedVars, serverVars,
          cancelled, tempUsed, triggered>>

Times == Nat \cup {Never}

TypeOK ==
    /\ now \in 0 .. LastMinute
    /\ lag \in 0 .. MaxLag
    /\ schedule \in Schedules
    /\ settingsChanged \in BOOLEAN
    /\ nextTempSchedule \in Times
    /\ calculatedNext \in Times
    /\ nextSkip \in Times
    /\ runner \in {"idle", "respawning", "alive", "notice", "dead"}
    /\ inGrace \in BOOLEAN
    /\ cancelled \subseteq Nat \X BOOLEAN
    /\ tempUsed \in BOOLEAN
    /\ triggered \in Times

-----------------------------------------------------------------------------
(* getNextScheduled and checkSchedule.                                      *)

\* The minutes from a on, for one day, that the settings name.
SettingTimes(a) == {m \in a .. a + DayLength - 1 : m % DayLength \in schedule}

\* The least of them: the next scheduled restart.
Earliest(times) == CHOOSE m \in times : \A k \in times : m <= k

\* Mutant: a restart due this minute is taken for tomorrow's.
NextScheduledStrict == Earliest(SettingTimes(now + 1))

NextScheduled == Earliest(SettingTimes(now))

\* What checkSchedule takes for the next restart.
NextRestart(temp) ==
    IF temp # Never THEN temp
    ELSE IF SettingTimes(now) # {} THEN NextScheduled
    ELSE Never

\* The constructor's setImmediate has run the first check, on an idle server.
Init ==
    /\ now = 0
    /\ lag = 0
    /\ schedule \in Schedules
    /\ settingsChanged = FALSE
    /\ nextTempSchedule = Never
    /\ calculatedNext = NextRestart(Never)
    /\ nextSkip = Never
    /\ runner = "idle"
    /\ inGrace = TRUE
    /\ cancelled = {}
    /\ tempUsed = FALSE
    /\ triggered = Never

\* child?.uptime ?? 0 is below the boot grace period.
InBootCooldown == inGrace

\* triggerServerRestart: nothing for a server that is not alive.  A restart
\* or stop that is already in its notice delay is not joined.
TriggerServerRestart ==
    runner' = IF runner = "alive" THEN "notice" ELSE runner

\* checkSchedule(), with the values the caller just gave to the temporary
\* schedule and the skip.  The server is restarted before the cooldown is
\* looked at.
CheckSchedule(temp, skip) ==
    LET next == NextRestart(temp)
    IN  /\ calculatedNext' = next
        /\ nextSkip' = skip
        /\ \/ /\ next = Never \/ next = skip \/ next # now
              /\ nextTempSchedule' = temp
              /\ triggered' = Never
              /\ UNCHANGED serverVars
           \/ /\ next # Never /\ next # skip /\ next = now
              /\ TriggerServerRestart
              /\ triggered' = IF runner = "alive" THEN next ELSE Never
              /\ nextTempSchedule' = IF InBootCooldown THEN temp ELSE Never
              /\ UNCHANGED inGrace

-----------------------------------------------------------------------------
MinutePasses ==
    /\ now < LastMinute
    /\ lag < MaxLag
    /\ now' = now + 1
    /\ lag' = lag + 1
    /\ triggered' = Never
    /\ cancelled' = {c \in cancelled : c[1] > now}     \* the rest is history
    /\ UNCHANGED <<schedule, settingsChanged, schedVars, serverVars, tempUsed>>

\* The interval fires, once for each minute boundary or later.
Tick ==
    /\ lag > 0
    /\ lag' = 0
    /\ CheckSchedule(nextTempSchedule, nextSkip)
    /\ UNCHANGED <<now, schedule, settingsChanged, cancelled, tempUsed>>

\* Another schedule is saved in the settings.
SaveSchedule ==
    /\ \E s \in Schedules \ {schedule} : schedule' = s
    /\ settingsChanged' = TRUE
    /\ triggered' = Never
    /\ UNCHANGED <<now, lag, schedVars, serverVars, cancelled, tempUsed>>

\* Mutant: the temporary schedule survives a change of the settings.
HandleConfigUpdateKeepsTemp ==
    /\ settingsChanged
    /\ settingsChanged' = FALSE
    /\ CheckSchedule(nextTempSchedule, Never)
    /\ cancelled' = {}
    /\ tempUsed' = FALSE
    /\ UNCHANGED <<now, lag, schedule>>

\* "resets skip and temp scheduled, runs checkSchedule"
HandleConfigUpdate ==
    /\ settingsChanged
    /\ settingsChanged' = FALSE
    /\ CheckSchedule(Never, Never)
    /\ cancelled' = {}
    /\ tempUsed' = FALSE
    /\ UNCHANGED <<now, lag, schedule>>

\* setNextTempSchedule with a time of the next 24 hours, this minute
\* excepted; refused when a restart of the settings comes before it.
SetNextTempSchedule ==
    \E d \in TempOffsets :
        /\ SettingTimes(now) # {} => ~(NextScheduled < now + d)
        /\ CheckSchedule(now + d, nextSkip)
        /\ tempUsed' = TRUE
        /\ UNCHANGED <<now, lag, schedule, settingsChanged, cancelled>>

\* setNextSkip(true), "Cancel": drops the temporary schedule, or else skips
\* the restart calculated at the last check.
CancelNext ==
    /\ \/ /\ nextTempSchedule # Never
          /\ CheckSchedule(Never, nextSkip)
          /\ cancelled' = cancelled \cup {<<nextTempSchedule, TRUE>>}
       \/ /\ nextTempSchedule = Never /\ calculatedNext # Never
          /\ CheckSchedule(Never, calculatedNext)
          /\ cancelled' = cancelled \cup {<<calculatedNext, FALSE>>}
       \/ /\ nextTempSchedule = Never /\ calculatedNext = Never
          /\ CheckSchedule(Never, nextSkip)
          /\ UNCHANGED cancelled
    /\ UNCHANGED <<now, lag, schedule, settingsChanged, tempUsed>>

\* setNextSkip(false), "Enable".
EnableNext ==
    /\ CheckSchedule(nextTempSchedule, Never)
    /\ cancelled' = {}
    /\ UNCHANGED <<now, lag, schedule, settingsChanged, tempUsed>>

-----------------------------------------------------------------------------
(* handleServerClose, called by FxRunner.killServer.                        *)

\* A restart of the settings this close.
Imminent(next) == next # Never /\ next <= now + TwoHours

\* Mutant: the skip of an administrator is dropped with the temporary one.
SkipOnCloseOnlyImminent(next) ==
    IF Imminent(next) THEN next ELSE Never

SkipOnClose(next) == IF Imminent(next) THEN next ELSE nextSkip

HandleServerClose ==
    LET next == NextRestart(Never)
    IN  /\ nextTempSchedule' = Never
        /\ calculatedNext' = next
        /\ nextSkip' = SkipOnClose(next)
        /\ cancelled' = cancelled \cup
               (IF Imminent(next) THEN {<<next, FALSE>>} ELSE {})

\* killServer destroys the process: the notice of a stop or a restart is
\* over, or there was nobody to warn.
ServerKilled ==
    /\ runner \in {"notice", "dead"}
    /\ runner' \in {"idle", "respawning"}
    /\ inGrace' = TRUE
    /\ HandleServerClose
    /\ triggered' = Never
    /\ UNCHANGED <<now, lag, schedule, settingsChanged, tempUsed>>

\* The rest of the server's life, as FxRunner leads it.
ServerChanges ==
    /\ \/ runner \in {"idle", "respawning"}
          /\ runner' \in {"idle", "respawning", "alive"} \ {runner}
          /\ inGrace' = TRUE
       \/ runner \in {"alive", "notice"} /\ inGrace
          /\ inGrace' = FALSE
          /\ UNCHANGED runner
       \/ runner = "alive"
          /\ runner' \in {"notice", "dead"}
          /\ UNCHANGED inGrace
    /\ triggered' = Never
    /\ UNCHANGED <<now, lag, schedule, settingsChanged, schedVars, cancelled,
                   tempUsed>>

Next ==
    \/ MinutePasses
    \/ Tick
    \/ SaveSchedule
    \/ HandleConfigUpdate
    \/ SetNextTempSchedule
    \/ CancelNext
    \/ EnableNext
    \/ ServerKilled
    \/ ServerChanges

Spec == Init /\ [][Next]_vars

-----------------------------------------------------------------------------
(* Properties.                                                              *)

\* "The value MUST be before the next setting scheduled time": the temporary
\* restart never comes after one of the settings, also when the clock or the
\* settings move on, except before a change of them has been handled.
TempBeforeSetting ==
    (nextTempSchedule # Never /\ ~settingsChanged)
        => \A m \in SettingTimes(now) : nextTempSchedule <= m

\* A restart of the settings that was cancelled, or skipped because the
\* server had just been closed, is never carried out unless somebody enabled
\* it or saved another schedule since (as soon as that has been handled).
SkipKept == ~settingsChanged => <<triggered, FALSE>> \notin cancelled

\* SkipKept, as long as nobody has set a temporary restart since the boot or
\* the last change of the settings.
SkipKeptWithoutTemp == ~tempUsed => SkipKept

\* The server is restarted in every minute the settings name in which the
\* interval fires, unless it was skipped or a temporary restart is set.
ScheduledRestartHappens ==
    [][(/\ lag > 0 /\ lag' = 0
        /\ now % DayLength \in schedule
        /\ nextTempSchedule = Never /\ nextSkip # now
        /\ runner = "alive")
       => runner' = "notice"]_vars

\* A temporary restart is carried out or given up: it is never still the
\* next one when its time is over and the interval has fired since.
TempNotStale ==
    (nextTempSchedule # Never /\ lag = 0) => nextTempSchedule >= now

\* "Server is in boot cooldown, skipping scheduled restart.": a server is not
\* restarted by the schedule before its boot grace period is over.
CooldownRespected == [][triggered' # Never => ~inGrace]_vars

\* "Next restart cancelled.": no restart happens in a minute for which one
\* was cancelled and not enabled since.
CancelledStaysCancelled ==
    {<<triggered, FALSE>>, <<triggered, TRUE>>} \cap cancelled = {}

=============================================================================
