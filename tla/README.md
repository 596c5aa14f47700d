# A verification of cAdminPanel's core

cAdminPanel (`src/`, a fork of txAdmin) is a web panel that owns one game
server: it spawns it, watches it, restarts it on a schedule or when it hangs,
and keeps the records of its players. This directory models the part of
`src/core` in which order and time matter, checks the models with TLC and
proves the results that do not depend on the size of an instance with TLAPS.

The panel is one Node.js process with one event loop. Between two awaits a
function runs alone, so a step of every module here is *what runs between two
awaits, one timer or one event*; what interleaves is the awaits, timers, child
process events, requests and crashes.

- [Inventory](#inventory): the components, their state, what is hard in them
- [Modules](#modules): how each module corresponds to the code
- [Runs](#runs): what TLC checks, the bounds, the fairness
- [Proofs](#proofs): what TLAPS proves, from which assumptions, and how
- [Disagreements](#disagreements-between-code-and-promise): what the code does not keep
- [Plan](#plan): what comes next
- [Not modelled](#not-modelled)

## Inventory

`PROJECT.json` lists every component with its files, and every hazard at its
line. The ones with logic of their own:

| Component | State | Operations | What is hard |
|---|---|---|---|
| **FxRunner** `modules/FxRunner` | `proc` (the managed process), flags `isAwaitingShutdownNoticeDelay`, `isAwaitingRestartSpawnDelay`, `isPreparingBuild`; the status of the child in `ProcessManager` | `spawnServer`, `restartServer`, `killServer`, `signalStartReady`, `handleShutdown` | each has two to five awaits, is called by routes, FxMonitor, FxScheduler and the deployer without a queue, and reads `this.proc` and the flags before awaits and uses them after |
| **FxMonitor** `modules/FxMonitor`, **FxResources** | stopwatches of heartbeats, health checks, of the last look and the last warning; `isAwaitingRestart`; the boot status of the resources | `updateStatus` every second, `performHealthCheck`, `handleHeartBeat`, `handleServerEvents` | a decision over five limits, each behind the conditions of others; freezes of the machine; answers of a killed server; a request that FxRunner refuses |
| **FxScheduler** `modules/FxScheduler.ts` | `nextTempSchedule`, `nextSkip`, `calculatedNextRestartMinuteFloorTs` | `checkSchedule` every minute, `setNextSkip`, `setNextTempSchedule`, `handleServerClose`, `handleConfigUpdate` | the calculated restart is a cache that is stale between checks; an interval that drifts against the clock; a callback that is later than the save |
| **Database** `modules/Database` | the data in memory, the files `playersDB.json` and its backup, `writePending`, `lastWrite` | `writeFlag`, `checkWriteNeeded`, `backupDatabase`, `setupDatabase`, `handleShutdown` | a flag that is reset after an await; writes and backups that fail; a shutdown during a write; crashes |
| **txManager** `txManager.ts` | `isShuttingDown` | `gracefulShutdown` | handlers that settle in any order, or not within five seconds |
| **FxBuilds** `modules/FxBuilds` | `state` (installed builds, the active and the previous one, the verification of a switch) in memory and in `state.json`; the folders with their markers; `downloadJob`; the record of the last spawn | `startDownload`, `cancelDownload`, `activate`, `rollback`, `deleteBuild`, `prepareForSpawn`, boot completed or failed, the load at the start | long awaits over shared state and folders: a deletion assigns at its end what it computed at its start; a copy that is cut off; the revert after two failed boots; a crash between file operations |
| **FxPlayerlist** `modules/FxPlayerlist`, `resource/sv_playerlist.lua`, the hook of the web page | in the game server the resource's table of players; in the panel the list and its statistics; in a page its own list | `playerJoining`, `playerDropped`, the two threads that refresh the table, `handleServerClose`, the buffered events and the initial list of a socket | ids are used again; the resource may be restarted while players are connected; a server is killed with reports unread; a refresh of the resource fails; a page connects between two events |
| **AdminStore** `modules/AdminStore` | `admins`, the hash of what was written, the file `admins.json` | add, edit, delete, own identifiers, passwords, preferences, `checkAdminsFile` every 15 s, the first account, the load | an account is checked by two keys, one of which its owner may change; a change in memory before an asynchronous write that is not ordered with the others; a check of the file that runs into both; somebody else at the file |
| **webSocket** and authentication `modules/WebServer` | sessions (name and password hash), sockets with their rooms | sign in and out, `changePassword`, `handleConnection`, `reCheckAdminAuths` after every change | permissions are read when a socket connects; a refresh is deferred; a session is updated after an await |
| **ConfigStore**, **deployer** | stored and active settings; the steps of a deployment | see `PROJECT.json` | callbacks later than the save; steps that fail halfway |

Interactions that matter: FxMonitor and FxScheduler call
`FxRunner.restartServer` and do not look at what it resolves to. `spawnServer`
resets FxMonitor and the token of the web server (`luaComToken`), which the game
server must present; `killServer` calls `FxScheduler.handleServerClose`.
FxMonitor reports boots and boot failures to FxBuilds, which `spawnServer` asks for the
build to run. The game server's resource reports players over a pipe that FxRunner reads and hands to FxPlayerlist,
which pushes events to the sockets; AdminStore asks the web server to look at its sockets after a change.
`gracefulShutdown` calls the shutdown handlers of FxRunner and Database and then ends the process.

What makes them correct, in a sentence each:

- FxRunner: at most one server; the one that runs is the one managed, holds the
  current token, was warned before it is killed, and no flag outlives its request.
- FxMonitor: no server that hangs is left running, none is restarted without
  cause or announcement, a boot failure counts once, a gone server is replaced.
- FxScheduler: restarts happen when the settings say, unless they were skipped,
  and what was skipped does not happen.
- Database: changes reach the disk in bounded time and are not overwritten by
  older ones.
- FxBuilds: the choice of the build is an administrator's and is undone only by the second failed boot; it names
  a build there is; a build that is used keeps its folder, and no server runs a mixture of two versions of the resource.
- FxPlayerlist: the panel and its pages list who is connected; nobody is counted twice.
- AdminStore and sockets: the file comes to hold what is in memory; an id names one administrator; sockets follow
  the permissions; who changes a password stays signed in.

## Modules

| Module | Of | State and actions |
|---|---|---|
| `FxRunner` | `FxRunner`, `ProcessManager`, the control routes | A control request occupies a slot of `Calls`; `call[c].pc` names the await it sleeps in, and each *resume* action runs from that await to the next. `proc`, the three flags, `luaComToken` and `panel` are the fields of the code; `running` and `signalled` are the processes of the OS; `noticed` and `stopReplied` are history. Any caller may make any request at any time. |
| `FxLifecycle` | FxRunner with its callers | Extends `FxRunner` with FxMonitor's `isAwaitingRestart` and restricts who calls: the monitor, the scheduler, the auto start, and administrators, whose requests are the constant `AdminActions`. `spawnFailed` is history: a spawn ended without a server. |
| `FxMonitor` | `FxMonitor`, `FxResources`, and of FxRunner what they read | One stopwatch per clock (`sw`), a `Second` that makes the look due, and `UpdateStatus` whose disjuncts are the ways through `calculateMonitorStatus`. |
| `FxScheduler` | `FxScheduler` | Time in minutes. `lag` is the phase of the interval; `settingsChanged` that the callback of a save is due; `runner` and `inGrace` are what it reads of FxRunner. |
| `PlayerDatabase` | `Database`, `DbInstance` | The data is a version number, a change makes the next version; `checkWrite` and `exitWrite` are the writes in flight; time in checks (15 s). A backup may fail, and leaves the older copy or none. `failed`, `overlapped` and `backedUp` (the last backup since the boot was made) are history. |
| `DurableData` | abstract specification | What Database promises of the data in memory (`live`), on the disk (`disk`, `intact`) and in the backup (`copy`): the disk follows the memory and never goes back, and a start goes on from it or, if it cannot be loaded, from the copy. |
| `BuildSwitch` | abstract specification | What FxBuilds promises of the choice of the build: `choice` (active, previous, trial) changes only by `Switch`, `Verify`, `Fail`, `Revert`, `Forget`, or because an older choice in `kept` comes back. |
| `FxBuilds` | `FxBuilds`, and of FxRunner and FxMonitor what they call | `state` is the field of the code, `saveQueue` the snapshots on their way to `stateFile`; a build's folder is `folder`, `marker` and `copy`. `resolving`, `job`, `del` and `prep` are the requests in flight: each action runs from one await to the next; `ready` are the spawns that were told their build and have no server yet. `raced` and `saveFailed` are history. |
| `PlayerReports` | `sv_playerlist.lua`, the game server | `known`, `found`, `reported` and `synced` are the resource's tables; `live` is who really is connected (external); `pipe` the reports on their way. A refresh is two steps, between which it may yield; it may fail, the one of the resync for good (`failed`). |
| `FxPlayerlist` | `FxPlayerlist`, `handleFd3Messages`, the web room and `playerlist.ts` | Extends `PlayerReports`. `playerlist` and `online` are the panel's mirror, `log` its statistics, `outBuffer` the buffered events, `view` the list of a page. A kill drops what is in the pipe. `missed` and `clashed` are history. |
| `AdminStore` | `AdminStore` and the routes that change it | `admins`, `hash` and `file`; a linked account is an id and an identifier; `writes` are the `writeFile` calls in flight, each queued and then open; `checking` is what a check has read. `doubt` is history. |
| `AdminSockets` | the composition of `AdminStore` with `webSocket.ts` and the routes of authentication | Extends `AdminStore`; its steps with what follows from them. `sessions`, `changing` (changes of password that wait for their write), `sockets` in order of connection, `refreshes` that are due. `cut` and `changer` are history. |
| `MCPlayerDatabase`, `MCFxBuilds`, `MCFxPlayerlist`, `MCAdminStore`, `MCAdminSockets` | | Values of constants and symmetry sets for TLC. |
| `FxRunnerProofs`, `FxLifecycleProofs`, `FxSchedulerProofs`, `PlayerDatabaseProofs`, `FxMonitorProofs`, `FxBuildsProofs`, `FxPlayerlistProofs`, `AdminSocketsProofs` | | The theorems. |

Four refinements are stated, and checked or proved:

- `FxRunner` is the abstract specification of `FxLifecycle`: what it promises holds
  for any callers at any time. That the lifecycle with its real callers
  implements it is the theorem `LifecycleImplementsRunner`; the mapping is
  the identity on the variables of `FxRunner`.
- `DurableData` is the abstract specification of `PlayerDatabase`, which holds it in the instance `Data`: memory, file and backup as they are,
  without flags, timers and writes in flight. `ImplementsDurableData` is a property of `DbDisk`.
- `BuildSwitch` is the abstract specification of `FxBuilds`, which holds it in the instance `Switched`: `choice` is the
  part of `state` that says what the server runs on, with the number of failures read as a trial, and `kept` the
  choices in the state file, the saves under way and the deletions under way. `ImplementsBuildSwitch` is a property of
  `BuildsTrial` and a theorem. That `kept` is needed is the content of `SwitchKept` below.
- `AdminStore` is the abstract specification of `AdminSockets` in the same way (`SocketsKeepStore`), so that the
  file is checked on the small module.

`PROJECT.json` maps every definition to the lines it models. Definitions that
begin with a comment "Mutant:" are plausible bugs of the code, used in place of
the definition below them to see that a property notices; no specification uses
them.

What the models abstract:

- *FxRunner*: the length of every delay; the content of configurations, builds
  and commands; a failed `prepareForSpawn` (which ends the attempt like a process
  found afterwards). A "deploy" is the last step of the deployer and of the setup.
- *FxLifecycle*: when the monitor and the scheduler want a restart is free
  (`MonitorLimitPassed`, `SchedulerRestarts`); `FxMonitor` and `FxScheduler` say when.
- *FxMonitor*: a second is the unit of time, and a health check is over by the end of
  it (its timeout is 1.5 s); one in flight at a kill may be answered until then (`lateAnswer`).
  The texts and the web status are left out.
- *FxScheduler*: a schedule is a set of minutes of the day; warnings before a
  restart are messages and left out.
- *PlayerDatabase*: the content of the data, and of a backup the copy that a crash cuts off (it is there, or not). A write that a check starts lasts less than 15 s,
  so that no other check meets it; a write on the disk is atomic (lowdb writes a
  temporary file and renames it) and the writes of one process come in order.
- *FxBuilds*: the list of artifacts (a remote query), the contents of an archive, and the progress that is shown. A
  folder is absent, whole or partly there, and what the code's checks see of a partial one is free. A write of the state file
  may be lost, two in a row not. Who waits for a save waits for the snapshot it queued. What a start reads of a folder whose
  marker names no version is free: it may adopt a whole one.
- *PlayerReports*, *FxPlayerlist*: a player is a connection; names, identifiers and the records of the database are left out, and
  so are entries that a refresh makes for somebody who just left (the next refresh drops them, and they are never reported). A
  refresh may yield after any player, in the code after 50.
- *AdminStore*: a hash is the content it is of (no collisions); an administrator is a set of permissions, one linked account
  and the number of the password. An account has an identifier that stays and an id (at citizenfx the username) that may pass to
  somebody else; what a provider says of accounts is the constant `Links`. The check of the file is over before the next one (15 s).
- *AdminSockets*: one room with its permission stands for all; sockets of one page may be several.

## Runs

The runs take from a second to about three minutes with two workers.

| Run | Module | Checks | Distinct states |
|---|---|---|---|
| `FxAttended` | FxLifecycle | `TypeOK` `NoticeExclusive` `PrepareExclusive` `RestartFlagBacked` | 2.8 million |
| `FxUnattended` | FxLifecycle | `NoUnmanagedServer` `TokenMatches` `NoticeBeforeKill` `MonitorRearmed` `CrashRecovered` | 8 thousand |
| `SchedOpen` | FxScheduler | `SkipKeptWithoutTemp` `TempBeforeSetting` `ScheduledRestartHappens` | 1.3 million |
| `DbDisk` | MCPlayerDatabase | `UnsavedBounded` `PriorityKept` `ChangesReachDisk` `FileAdvances` `RollbackLimited` `ImplementsDurableData` | 1.7 million |
| `MonWatch` | FxMonitor | `HangCaught` `PlayersWarned` | 6.4 million |
| `MonLife` | FxMonitor | `BootFailureOnce` `GoneReplaced` | 0.8 million |
| `BuildsUse` | MCFxBuilds | `ChoiceConsistent` `RestartKeepsState` `UsedBuildKept` | 6.3 million |
| `BuildsTrial` | MCFxBuilds | `MarkerTruthful` `ImplementsBuildSwitch` | 1.2 million |
| `Players` | MCFxPlayerlist | `JoinedOnce` `MirrorSettled` `ViewFollows` | 1.3 million |
| `PlayersShown` | FxPlayerlist | `PlayerShown` | 0.1 million |
| `AdminFile` | MCAdminStore | `SavedWhenQuiet` `IdUnique` `IdentifierTaken` `FileSettles` | 0.7 million |
| `AdminAuth` | MCAdminSockets | `RoomsFollow` `OwnSessionKept` | 3.9 million |

All of them pass.

### What they show

`FxAttended` lets administrators make all four requests at any time, next to
the monitor, the scheduler and the auto start: whatever overlaps, one request
at most waits for a shutdown notice and its process is still there when it
wakes, one at most prepares a build, and no flag is left behind.

`FxUnattended` is the panel left alone, where administrators at most stop the
server: then there is one server, with the right token, warned before a kill;
the monitor is never blind for good, and a server that is gone is replaced unless it was stopped
or a spawn failed: that a restart is under way does not count. That the
restriction is needed is shown by the first three rows under [Disagreements](#disagreements-between-code-and-promise),
each with the fewest kinds of request that do it.

`SchedOpen` has settings saved, temporary restarts set, cancelled and enabled,
and servers closed at any minute, with an interval that may skip one.
`SkipKept` holds as long as no temporary restart was set
(`SkipKeptWithoutTemp`); one suffices to lose a skip.

`DbDisk` has changes of every priority at any time, failing writes and backups, a shutdown
during a write, crashes, and boots from the file or the backup. The write without a flag,
every five minutes, is what bounds the wait of a change whose flag was lost;
the priority is only kept (`PriorityKept`) while no change comes during a write (`PrioritySaved` is
the same without that condition, and is not kept). What a restored backup takes back is not the "five minute rollback" of the
message but, when the last backup since the boot was made, up to two intervals and two checks (`RollbackLimited`; TLC refutes a bound one check lower),
and unlimited before the first one (below), after one that failed, or when writes fail. `DurableData` says what the module promises of memory, file and backup together, whatever writes overlap, fail or are cut off.

`MonWatch` lets heartbeats, health checks and resource events come and stop in
any order: nothing the monitor lets live is beyond a limit, and a restart for a
partial hang was announced in that hang. `MonLife` adds freezes, late answers
and a server that is replaced by whoever: a boot failure is counted once.

`BuildsUse` lets two requests overlap, whatever they are, with restarts of the panel anywhere; of spawns, one may prepare its build while
another one, that was told its build, has no server yet: the state in memory and on the disk
names no build that is not on its list, although the end of a deletion writes an older state over a newer one; a panel that
restarts when nothing is under way finds what it knew, also from folders that the file does not know; and the folder of a build that a
server runs on, starts on or would start on is not touched, unless a switch, a spawn or another download overlapped with a deletion,
download or spawn that had checked before (`raced`: those overlaps do happen in the code, and the property says what is left).
`BuildsTrial` has two versions of the panel, so that a build's copy of the resource may be older or newer: the
marker never lies, because it is cleared before a copy begins.

`Players` has reports in the pipe while the resource is stopped and started, servers killed with reports unread, ids given to the next
player, refreshes that fail, and a page that connects between two events. A report carries the mutex of its server, and the panel drops those
of a server that is not the current one (`handleFd3Messages.ts:74`), so a kill empties the pipe. A restarted resource reports
joins again, and drops of connections it does not know: `JoinedOnce` says that the statistics count neither twice. When everything was reported and read, the panel lists every connected player, and who is wrongly on the list left
when the resource could not report it (`MirrorSettled`); a page shows what the panel lists after every flush. The
condition `clashed` excludes an overlap that the code does not handle (below). `PlayersShown` is the liveness:
who stays is shown on a page that stays, also if the resource was started after the join, unless its one refresh for those players failed.

`AdminFile` has overlapping writes, which may leave a mixture or the older content, failing writes, crashes between the truncation and the
write, and somebody who removes or damages the file: the file settles on what is in memory, although a check may have read it
before a later change. An account may change its id, and another one take it. An id is always that of one administrator (`IdUnique`), also
after a restart from an older file. The identifier is not: `IdentifierTaken` says which ways there are for a second
administrator to share it while the panel is on (being added, and an edit under the id the administrator had already), and the disagreements below what the code says. `AdminAuth` composes this with two pages: sockets have
the rooms and permissions of their administrators whenever no refresh is due and the last one went to its end; who changes
a password stays signed in whatever comes between the request and its write.

### Bounds

- Two slots in `Calls`: every guard of FxRunner relates a request to one other
  (`this.proc` and the three flags), and every disagreement of it below needs two. The
  theorems hold for any number. `Procs`: three in `FxAttended` (the managed one, one
  that is ending, one being spawned), two in `FxUnattended`, where TLC is asked for liveness.
  A name is used again when its process is gone.
- `SchedOpen`: a day of 4 minutes and 5 minutes of clock, so that a time of day
  comes round again; "two hours" is one minute; schedules are none, one and two
  times, one of them at midnight; temporary times everywhere in a day;
  `MaxLag = 2` allows one minute to be skipped. With `LastMinute` the clock stops, so
  deadlock is not checked here.
- `DbDisk`: two changes (the flag of one, data of the other; `FileAdvances`
  needs a change between two writes), intervals 1, 2, 3 and 4 checks (of the code: 1, 2, 4 and 20:
  the order is what matters), ages counted to one more than any property asks. The panel may
  be down and unable to boot (neither file readable), so deadlock is not checked.
- `MonWatch`, `MonLife`: the limits are scaled down and keep the order of the
  code's, except where a run is about another order; clocks stop beyond all of
  them (`AgeLimit`), where no comparison can tell them apart. `MonWatch` has no
  freezes (they make `PlayersWarned` false, as the machine may freeze
  between the warning and the restart) and longer limits, because the
  announcement of a hang needs room; `MonLife` has freezes and late answers and
  shorter limits.
- `BuildsUse`: two builds (one used, one that is not), one version of the panel, two requests in flight, one of them a
  deletion at most, one spawn between its preparation and its server next to one that is being prepared, one snapshot on its way:
  a request is checked against one other everywhere. `BuildsTrial`: two
  versions and two builds, one request at a time, as its properties are about what is in the folders and the verification, not
  about overlaps; restarts come in the middle of the request. The theorems hold for any numbers.
- `Players`: two ids, two connections (an id is used again, or both are connected), three reports in the pipe (a drop and a join of
  one id, and another), two events in the buffer. `PlayersShown`: one id, two connections and two reports, as
  a player only meets the earlier connection with the same id.
- `AdminFile`: two names; two accounts, of which the second has taken the id of the first (`Renamed`: three links, every pair of
  which collides in id or identifier, but one); two writes in flight; no sessions,
  passwords or permissions, which the file treats like the rest. `AdminAuth`: two names, one permission, two sessions, two
  sockets, one refresh due and one write in flight; nobody else touches the file (`Watched = FALSE`), which `AdminFile` has.
- Symmetry over builds and versions, ids, and sessions is used in runs without liveness only. None of these constants is
  named in a property or ordered.

### Fairness

- `FxLifecycle!Fairness`: weak fairness of every resume (a timer or a settled
  promise runs), of the monitor's interval when the server is idle and when it
  finds it closed, of the end of a process *that was told to end*, and of the
  events of its exit and the close of its pipes. No request of an administrator, no crash, no
  scheduled restart and no hang is ever forced to happen, and a spawn may always fail.
- `PlayerDatabase!Fairness`: weak fairness of the two timers and of the end of a
  write; strong fairness of a write that succeeds: a disk that fails for ever saves nothing.
- `FxMonitor!Fairness`: strong fairness of `Second` (a machine that freezes for ever
  does nothing), weak of the look that is due, of the kill that was requested,
  and of the close of an exited server's pipes if `StdioCloses`.
- `FxPlayerlist!Fairness`: the threads of the resource go on (weakly to begin a refresh, strongly to report at its end, as the
  bound `MaxPipe` may hold a report back), what is in the pipe is read (strongly, as the bound on the events that wait for a page may hold a read back), and the interval
  of the web server flushes its buffers. Servers, players, resources and pages come and go as they like.
- `AdminStore!StoreFairness`: the interval of the check fires, a read is answered (strongly: a write that fills the slots may hold its repair back), and
  as long as there are writes some of them opens the file and lands (strongly: they do not fail for ever, but which one it is is free). `FileSettles` holds if the administrators stop making requests and nobody touches the file any more; nothing forces them to.

## Proofs

| Theorem | Says |
|---|---|
| `FxRunnerProofs!TypeCorrect` `NoticeSafe` `PrepareSafe` `RestartFlagSafe` | the invariants of `FxAttended`, for any numbers of requests and processes and any callers |
| `FxLifecycleProofs!LifecycleImplementsRunner` | `LifeSpec => Spec` |
| `FxLifecycleProofs!UnattendedNoUnmanaged` `UnattendedTokenMatches` `UnattendedNoticeBeforeKill` | the safety properties of `FxUnattended`, if `AdminActions \subseteq {"stop"}` |
| `FxSchedulerProofs!SchedulerTypeCorrect` `TempBeforeSettingSafe` `SkipKeptSafe` `ScheduledRestartSafe` | for every schedule, length of the day and drift of the interval |
| `PlayerDatabaseProofs!DatabaseTypeCorrect` `FileAdvancesSafe` `UnsavedBoundedSafe` `PriorityKeptSafe` `RollbackLimitedSafe` | for every choice of intervals and number of changes, with failing writes and backups, shutdowns and crashes |
| `PlayerDatabaseProofs!DatabaseImplementsDurableData` | `PlayerDatabase` implements `DurableData` |
| `FxMonitorProofs!MonitorTypeCorrect` `BootFailureOnceSafe` | for every choice of the limits, freezes included |
| `FxMonitorProofs!HangCaughtSafe` | if the machine does not freeze and `FrozenLimit > 1` |
| `FxMonitorProofs!PlayersWarnedSafe` | if moreover the limits are in the order of the code (`WarnLimits`), the grace period ending before a hang is warned of |
| `FxBuildsProofs!BuildsTypeCorrect` `ChoiceConsistentSafe` `MarkerTruthfulSafe` `UsedBuildKeptSafe` `RestartKeepsStateSafe` | the safety properties of the two runs, for any builds, versions and numbers of requests and deletions, with restarts anywhere |
| `FxBuildsProofs!BuildsImplementSwitch` | `FxBuilds` implements `BuildSwitch` |
| `FxPlayerlistProofs!TypeCorrect` `JoinedOnceSafe` `MirrorSettledSafe` `ViewFollowsSafe` | for any finite set of ids, any number of connections, and any length of the pipe and of the buffer of a page |
| `AdminSocketsProofs!StoreTypeCorrect` `SavedWhenQuietSafe` `IdUniqueSafe` `IdentifierTakenSafe` | of `AdminStore`, for any administrators, accounts and number of writes in flight |
| `AdminSocketsProofs!SocketsKeepStore` | `AdminSockets` implements `AdminStore` |
| `AdminSocketsProofs!RoomsFollowSafe` `OwnSessionKeptSafe` | for any sessions, sockets and refreshes |

Assumptions on constants are the named `ASSUME`s of the modules: `NoProc` is no
process; `AdminActions` are requests; the intervals fall with the priority; times of day are
within the day and a temporary restart is less than a day ahead; limits are positive and
below the cap of the clocks; the panel's own build is none of the managed ones, and "no version" and "a mixture" are no
versions; the ids of players are finitely many and "nobody" is no connection; "nothing" is no state of the builds and no build; a link is a record of an id and an identifier; the master account has a name, and "none" is
no value of anything.

The arguments:

- **FxRunner.** `RunnerInv` adds to the invariants that a request between its
  token and its process holds a mutex (`MutexHeld`), without which `TypeOK` is not inductive:
  `SpawnValidated` makes that mutex the process.
- **FxLifecycle.** `NoUnmanagedServer` is not inductive: it needs that nobody
  spawns over a server. `LifeInv` says that at most one request is between the end of the
  old server and the start of the new one, and then no server is managed
  (`RespawnExclusive`); that nothing happens before the panel is ready, so that the auto start
  is the only spawn not preceded by a kill (`QuietBeforeReady`); that the attempt in flight is
  the last to have reset the token (`TokenOfAttempt`, for `TokenMatches`); that a
  process that runs is seen alive, so a kill reaches it (`RunningSeenAlive`); and that who
  waits for a notice has sent it (`NoticeSent`, for `NoticeBeforeKill`). With "start" among the
  requests of administrators `RespawnExclusive` fails, and `NoUnmanagedServer` with it (below).
- **FxScheduler.** `TempInv` adds that a temporary restart is less than a day
  away: when the clock moves on, the only time that enters the window of the coming day is at its
  end, so it cannot come before it. `SkipInv` says that, until somebody sets
  a temporary restart, a restart that was cancelled and is not over is still the calculated next one *and* the
  skipped one, so pressing "cancel" again cannot overwrite it with another. That a set of
  minutes has a least element, which `Earliest` chooses, comes from the well-foundedness of `<`.
  `ScheduledRestartHappens` needs no invariant but the lemma `DueIsNext`: a minute of the settings that is now is the earliest from now on.
- **PlayerDatabase.** `FileInv` orders the versions: file, write of a check, write of the
  shutdown, memory. `UnsavedInv` bounds the age of an unsaved change by the checks since
  the last write. `FlagInv` says that, while no change came during a write, the flag is at least that of every
  unsaved change and none is older than its interval. `BackupInv` says that, if the last backup since the boot was made, a change which
  reached the file after it is as old as that backup at most, and what it waited for the file before: an interval for each.
  The refinement of `DurableData` maps the end of a write, also of one that was overtaken by changes, to a save between file
  and memory, which is `FileInv`; all else but changes, backups, ends and starts stutters.
- **FxMonitor.** `BootInv`: after a failure the monitor waits for the restart, and
  what confirmed a boot stays set until the next one. `HangInv` relates the stopwatches that a look
  leaves behind to their limits; `WarnInv` says how long ago the players were warned, in relation to
  the stopwatch of the health checks and to the number of looks that found healthy heartbeats.

- **FxBuilds.** `TypeInv` adds that a request under way names a build (`WorkNamed`). `ChoicesInv` says `Consistent` of *every* state that
  may become the present one: that in memory, in the file, in each save under way and in the result of each
  deletion, since a restart or the end of a deletion may bring any of them back; and that a trial on `state` is of the active
  build. `UsedInv`, for `UsedBuildKept`,
  says that as long as no request overlapped with a change it had not seen (`raced`), a spawn is prepared from the active build, one that was told its
  build starts on that, and a server runs on one that is on the list; what a deletion under way has computed is the present state without a build that nobody uses; and what is being
  downloaded is not on the list. `FileInv`, for `RestartKeepsState`, follows the state file through the queue of saves: the last save that is queued
  is of the state in memory (`QueueLast`); with none queued and none lost, the file lacks at most builds
  that an earlier restart adopted, whose folders are there (`FileBehind`); and what a restart would adopt is on the list or about to be put there
  (`AdoptableKnown`). The
  refinement has one step per action of `FxBuilds`, most of which are a stutter of `choice` and shrink or extend `kept` by the
  choices that are made.
- **FxPlayerlist.** `JoinedOnce` looks simple and is not inductive: it depends on what is in the pipe. `MirrorInv` says that
  a running resource knows only who is connected (`KnownIsLive`) and connections are numbered as they come (`Numbered`); that a report is of a connection there
  was, and a drop of one that is over (`PipeGenuine`); that the joins of an id are in the
  pipe in the order of the connections, between who is listed and who is connected (`InOrder`); that no two
  reports on their way would count the same join or drop twice, and none is counted already (`QueuesApart`, `LogOfPast`). A drop that is read
  is then either of a connection that is over, or refused.

  `SettleInv`, for `MirrorSettled`, is the converse, that nothing is lost: a refresh that runs alone still has to visit, or has found, everybody who is connected
  (`RefreshSees`), so after the resync everybody was reported (`CaughtUp`); who was reported is on the list or has a join in the
  pipe (`ReportedTold`); and the end of a connection that is listed, or whose join is in the pipe, is behind it in the pipe or was
  `missed` (`EndsTold`). `FollowInv` adds for consecutive connections of one id that the end of the first is *between* the two, or
  `missed`, and that without a server the pipe is empty and nobody is online (`Unhosted`).

  `PageInv`, for `ViewFollows`, is about `Pending`, the list a page will have when it has read the events that wait for it:
  that one, and not the list of the page, agrees with the panel's after every step (`Lists`). A step of the panel appends events, so the
  proof needs what `ProcessAll` makes of a longer sequence (`AllAppend`), and that it depends only on
  connections there are (`AllKnown`). As `ProcessAll` is a recursive function, its lemmas speak of any run of it (`IsRun`) and take the least
  place where a run breaks them (`WFMin`), which needs no rule of induction.
- **AdminStore, AdminSockets.** `StoreInv` says that a panel that is off holds nothing (`OffIsEmpty`), that the hash is of what is in memory (`HashIsOfMemory`), and that without `doubt` the
  write in flight, if there is one, is the only one and is of what is in memory, and the file is empty until it lands (`InOrder`).
  `SocketsInv` adds that a panel that is off has no sockets (`OffIsDisconnected`); that who last changed the password of an administrator holds it,
  in the change under way or, when that is over, in the session (`OwnPassword`); and `RoomsFollow`.

Only model-checked: the liveness properties (`MonitorRearmed`, `CrashRecovered`, `ChangesReachDisk`, `GoneReplaced`,
`PlayerShown`, `FileSettles`), which are beyond the prover. Every other property of the runs has a theorem.

## Disagreements between code and promise

Most of what the code promises it keeps. Where a property that a comment, a text of the interface or the name of a
setting suggests does not hold, the property is stated in the module all the same, and a condition
(a history variable, or a restriction of the constants) separates the part that does hold, which the runs above check.

### Further disagreements

TLC refutes each of these within its module. They have no run of their own; to see one, put the property and the constants in a cfg,
with `Spec` (`LifeSpec`, and `FairLifeSpec` for `CrashRecovered`).

| Property | Where | What the code does | Constants |
|---|---|---|---|
| `NoUnmanagedServer` | `FxRunner/index.ts:182` | `isPreparingBuild` is cleared before the configuration is validated, and `proc` is not set yet: two "start" requests that overlap there both spawn ("This can copy files, so concurrent spawn requests are refused meanwhile.", line 130), and the first server runs on, unmanaged | FxLifecycle, `Calls = {c1, c2}`, `Procs = {p1, p2}`, `AdminActions = {"start"}` |
| `StoppedMeansStopped` | `routes/fxserver/controls.ts:57` | "Server stopped." is answered while a restart sleeps in its notice or delay, and spawns afterwards | the same with `{"stop", "restart"}` |
| `CrashRecovered` | `FxMonitor/index.ts:232` | a restart that FxRunner refuses leaves `isAwaitingRestart` set, and the monitor is blind until an administrator acts ("Auto-restart FXServer on crash or hang", `src/README.md:21`) | the same with `{"start", "restart"}` |
| `RestartExclusive` | `FxRunner/index.ts:317` | the `finally` of a refused restart clears the flag of the restart that owns it; two restarts may sleep in their delays ("Prevent concurrent restart request", line 284) | the same with `{"restart"}` |
| `NoServerLeftBehind` | `FxRunner/index.ts:227` | `isShuttingDown` is read at the start of `spawnServer` only: an attempt in flight spawns a server after the shutdown found none to quit (line 117) | the same with `{}` |
| `SkipKept` | `FxScheduler.ts:145` | `nextSkip` takes the calculated restart, which until the next check may be a temporary one that is over: "cancel" then overwrites an earlier skip ("Next restart cancelled.", `routes/fxserver/schedule.ts:59`) | `DayLength = 4`, `TwoHours = 1`, `LastMinute = 6`, `MaxLag = 1`, `Schedules = {{}, {1}, {0, 2}}`, `TempOffsets = {1}` |
| `TempNotStale` | `FxScheduler.ts:271` | a temporary restart that comes due while the server is down is never dropped, and no restart of the settings happens until a close or a save | as `SkipKept` with `TempOffsets = {1, 2, 3}` |
| `CooldownRespected` | `FxScheduler.ts:264` | the restart is triggered before the boot cooldown is looked at (line 272) | as `SkipKept` |
| `CancelledStaysCancelled` | `FxScheduler.ts:212` | a temporary restart in the minute of one of the settings is accepted, and cancelling it leaves the other | as `SkipKept` with `TempOffsets = {1, 2, 3}` |
| `PrioritySaved` | `Database/instance.ts:245` | the flag is reset after the write: a change that comes during a write loses its priority (line 232) | as `DbDisk` |
| `ShutdownSaves` | `Database/instance.ts:197` | the promise of the write at the shutdown is not returned, so the process may end before it | as `DbDisk` |
| `RollbackBounded` | `Database/instance.ts:109` | the backup interval starts anew at each boot: a panel restarted more often never makes one ("A five minute rollback is expected.", line 137) | as `DbDisk` |
| `EventGapCaught` | `FxResources.ts:77` | the resource being started is not cleared when it has started, so the limit between two events (`FxMonitor/index.ts:33`) is never looked at, and the server hangs until the tolerance of a resource that is running is over | `HBDelay 2`, `HBFatal 4`, `HCDelay 2`, `HCFatal 6`, `BootInitAfterHb 3`, `BootNoEvent 3`, `BootResEventGap 2`, `Tolerance 6`, `Grace 3`, `FrozenLimit 2`, `HangWarnGap 5`, `HangWarnLead 2`, `FreezeLengths {}`, `AnswersOutlive FALSE`, `StdioCloses TRUE`, `AgeLimit 7` |
| `FreezeForgiven` | `FxMonitor/index.ts:269` | after a freeze one look is skipped and the stopwatches go on | as `EventGapCaught` with `Tolerance = 4`, `FreezeLengths = {4}` |
| `PlayersWarned` | `FxMonitor/index.ts:321` | a grace period longer than the limits of a hang (the setting has no maximum) suppresses the warning | as `EventGapCaught` with `Tolerance = 4`, `Grace = 6` |
| `FatalNeedsSuccess` | `FxMonitor/index.ts:501` | the answer of a killed server counts as a success of its replacement | as `EventGapCaught` with `Tolerance = 4`, `AnswersOutlive = TRUE` |
| `WarnedOfHang` | `FxMonitor/index.ts:451` | before the first health check the time since it is Infinity, and players of a booting server are told of a partial hang | as `EventGapCaught` with `Tolerance = 4` |
| `GoneReplaced` | `FxMonitor/index.ts:321` | an exited server whose stdio stays open never leaves its grace period | as `MonLife` with `FreezeLengths = {}`, `AnswersOutlive = FALSE`, `StdioCloses = FALSE` |
| `SwitchKept` | `FxBuilds/index.ts:674` | a deletion assigns at its end the state it computed before the folder was removed: a switch, a verification or a revert that came meanwhile is undone | as `BuildsUse` |
| `clashed` in `MirrorSettled` | `resource/sv_playerlist.lua:152` | the refresh of the resync and that of the loop share the mark of who was found: when they overlap, a connected player may be forgotten by the resource: drop the condition | as `Players` |
| `IdentifierUnique` | `AdminStore/index.js:468` | an administrator who is added is compared by id only (line 404); for one who is edited the holder of the identifier is looked for only if nobody, himself included, has the id: one account may belong to two ("prevents duplicate identities", line 461) | as `AdminFile` |
| `DeletedIsRestored` | `AdminStore/index.js:362` | the file that was deleted is not restored (the read fails, and nothing is written): "modified or deleted by an external source, it will be restored." | as `AdminFile`, with `FairStoreSpec` |
| `RoomsAlwaysFollow` | `WebServer/webSocket.ts:113` | a refresh returns at the first socket whose session is no longer valid: those after it keep their rooms until the next change (comment at lines 95 to 97) | as `AdminAuth` |
| `OwnSocketKept` | `AdminStore/index.js:702` | "Allow the caller to update its own password-backed session first": a refresh that another change made due disconnects a page while its new password is being written | as `AdminAuth` |

`NoUnmanagedServer` and `CrashRecovered` need an administrator's "start" while another spawn is under way; the second ends in a server
that is dead while the monitor waits for a restart that nobody makes, until an administrator acts. `StoppedMeansStopped` needs a
"stop" while a restart is in its notice or its delay.

## Plan

Done: FxRunner, FxLifecycle, FxScheduler, PlayerDatabase (with DurableData), FxMonitor, FxBuilds (with BuildSwitch), FxPlayerlist (with PlayerReports),
AdminStore and AdminSockets, and their proofs. Next, in this order:

1. **`ConfigStore`**: stored, active and written settings, the deferred callbacks; then `FxScheduler`'s
   `settingsChanged` as an instance of it.
2. **Composition of `FxMonitor` with `FxLifecycle`**: the requests of the one are `MonitorRestarts` of the other, so that
   `HangCaught` and `CrashRecovered` become one property.
3. **`Deployer` and `PlayerActions`**: the steps of a deployment; what a player is told at a
   join from the bans and warnings on record, as pure operators against a reference definition.
4. **Proofs** of the safety properties of these modules, as they are written.

## Not modelled

Every component that is left out is in `PROJECT.json` with the reason. Most of the repository's lines are not logic of this
kind: the web panel and the NUI (React components and their state), the texts in every language, the game's resource and menus, the
templates and the build scripts are about two thirds of it, and of `src/core` a large part formats, logs, parses or answers a
request from one file. What is modelled is the part whose correctness depends on the order of events. In short: the web
interface, the in-game resource and NUI (user interfaces, or Lua run by the game server), the lists of players in both apart;
logging, metrics, the resource monitor and the update checker (statistics and formatting, on whose state
nothing depends); Discord and the character module (clients of other systems); the routes that
read or write one file; build scripts. Process-wide error handling, the ports a server binds and the
memory of the host are outside the models.
