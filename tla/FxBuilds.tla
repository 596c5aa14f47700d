------------------------------- MODULE FxBuilds -------------------------------
(***************************************************************************)
(* core/modules/FxBuilds: the FXServer builds the game server can be        *)
(* started from.  Builds are downloaded and deleted, one of them (or the    *)
(* panel's own build) is active, a build that was switched to is on trial   *)
(* until a server booted from it, and FxRunner asks for the build of every  *)
(* spawn, for which the panel's resource is copied into the build.          *)
(*                                                                         *)
(* A step is what runs between two awaits.  The state of the module lives   *)
(* in memory (state); every change of it queues a snapshot for the file     *)
(* (saveQueue), which the disk takes in order (stateFile).  The folder of a *)
(* build is absent, whole or only partly there; what the checks of the code *)
(* see of a partial one is left open.  A copy of the panel's resource has   *)
(* the version of the panel it was made by, or is a mixture.                *)
(***************************************************************************)
EXTENDS Naturals, Sequences, FiniteSets

CONSTANTS
    Builds,         \* managed builds
    Panel,          \* null: the panel's own build
    Versions,       \* versions of the panel (and its resource)
    Nothing,        \* no version, no file, no deletion
    Mixed,          \* the version of an interrupted copy
    Deletions,      \* slots for requests to delete in flight
    Spawns,         \* slots for spawns in flight that were told their build
    MaxQueue,       \* bound on the snapshots waiting for the disk
    MaxRequests     \* bound on the downloads, deletions and spawns in flight

ASSUME BuildsAssumption ==
    /\ Panel \notin Builds
    /\ Nothing \notin Versions
    /\ Mixed \notin Versions

VARIABLES
    version,        \* the panel's version
    state,          \* this.state
    saveQueue,      \* snapshots not yet written, with who awaits the write
    stateFile,      \* state.json, Nothing when it cannot be parsed
    folder,         \* of each build: "absent", "part" or "whole"
    marker,         \* of each folder: the version its marker names
    copy,           \* of each folder: the version of the panel's resource in it
    resolving,      \* builds a startDownload is looking up
    job,            \* downloadJob
    del,            \* the deleteBuild requests in flight
    prep,           \* prepareForSpawn in flight
    ready,          \* the builds of the spawns in flight after that
    child,          \* fxRunner.child: "none", "alive" or "dead"
    lastSpawn,      \* the record of that child (NoSpawn: of one that is gone)
    raced,          \* history: a deletion, a preparation or a second download
                    \* overlapped with a change it had not seen
    saveFailed      \* history: the last write of the state file failed

diskVars  == <<stateFile, folder, marker, copy>>
jobVars   == <<resolving, job>>
spawnVars == <<ready, child, lastSpawn>>
vars == <<version, state, saveQueue, diskVars, jobVars, del, prep, spawnVars,
          raced, saveFailed>>

MAX_BOOT_FAILURES == 2

Targets == Builds \cup {Panel}

\* No pending build has the number null.
NoPending == [build |-> Panel, failures |-> 0]

States == [active : Targets, previous : Targets,
           pending : [build : Targets, failures : 0 .. MAX_BOOT_FAILURES - 1],
           installed : SUBSET Builds]

EmptyState == [active |-> Panel, previous |-> Panel, pending |-> NoPending,
               installed |-> {}]

ASSUME NothingAssumption == Nothing \notin States /\ Nothing \notin Targets

NoJob  == [build |-> Panel, step |-> "none", cancelled |-> FALSE]
NoSpawn == [build |-> Panel, outcome |-> "booting"]
NoPrep == [build |-> Panel, step |-> "idle", known |-> FALSE]

Waiters == {"none", "job", "spawn"}

TypeOK ==
    /\ version \in Versions
    /\ state \in States
    /\ saveQueue \in Seq([state : States, waiter : Waiters])
    /\ stateFile \in States \cup {Nothing}
    /\ folder \in [Builds -> {"absent", "part", "whole"}]
    /\ marker \in [Builds -> Versions \cup {Nothing}]
    /\ copy \in [Builds -> Versions \cup {Nothing, Mixed}]
    /\ resolving \subseteq Builds
    /\ job \in [build : Targets, cancelled : BOOLEAN,
                step : {"none", "fetching", "replacing", "moved", "saving"}]
    /\ del \in [Deletions -> [build : Builds, result : States] \cup {Nothing}]
    /\ prep \in [build : Targets, known : BOOLEAN,
                 step : {"idle", "checking", "copying", "saving"}]
    /\ ready \in [Spawns -> Targets \cup {Nothing}]
    /\ child \in {"none", "alive", "dead"}
    /\ lastSpawn \in [build : Targets,
                      outcome : {"booting", "failed", "booted"}]
    /\ raced \in BOOLEAN
    /\ saveFailed \in BOOLEAN

Init ==
    /\ version \in Versions
    /\ state = EmptyState
    /\ saveQueue = <<>>
    /\ stateFile = EmptyState
    /\ folder = [b \in Builds |-> "absent"]
    /\ marker = [b \in Builds |-> Nothing]
    /\ copy = [b \in Builds |-> Nothing]
    /\ resolving = {}
    /\ job = NoJob
    /\ del = [d \in Deletions |-> Nothing]
    /\ prep = NoPrep
    /\ ready = [s \in Spawns |-> Nothing]
    /\ child = "none"
    /\ lastSpawn = NoSpawn
    /\ raced = FALSE
    /\ saveFailed = FALSE

-----------------------------------------------------------------------------
(* state.ts.                                                                *)

Installed(s, b) == b \in s.installed

ApplyActivate(s, b) ==
    [s EXCEPT !.previous = s.active, !.active = b,
              !.pending = IF b = Panel THEN NoPending
                          ELSE [build |-> b, failures |-> 0]]

CanRollback(s) ==
    /\ s.previous # s.active
    /\ s.previous # Panel => Installed(s, s.previous)

ApplyInstalled(s, b) == [s EXCEPT !.installed = @ \cup {b}]

ApplyDeleted(s, b) ==
    [s EXCEPT !.installed = @ \ {b},
              !.previous = IF @ = b THEN Panel ELSE @,
              !.pending = IF s.pending.build = b THEN NoPending ELSE @]

OnTrial(s, b) == b # Panel /\ s.pending.build = b

\* Where the server goes back to.
RevertTarget(s) ==
    IF s.previous # Panel /\ ~Installed(s, s.previous) THEN Panel ELSE s.previous

\* Mutant: the first failed boot sends the server back.
ApplyBootFailedOnce(s, b) ==
    [s EXCEPT !.active = RevertTarget(s), !.previous = b, !.pending = NoPending]

ApplyBootFailed(s, b) ==
    IF s.pending.failures + 1 < MAX_BOOT_FAILURES
    THEN [s EXCEPT !.pending.failures = @ + 1]
    ELSE [s EXCEPT !.active = RevertTarget(s), !.previous = b,
                   !.pending = NoPending]

-----------------------------------------------------------------------------
(* The state and its file.                                                  *)

Deleting == \E d \in Deletions : del[d] # Nothing

\* A spawn is in flight.
Spawning == prep # NoPrep \/ \E s \in Spawns : ready[s] # Nothing

\* Mutant: the snapshot is taken before the change.
SetStateLate(s, waiter) ==
    /\ Len(saveQueue) < MaxQueue
    /\ state' = s
    /\ saveQueue' = Append(saveQueue, [state |-> state, waiter |-> waiter])

\* this.state = s; this.saveState().
SetState(s, waiter) ==
    /\ Len(saveQueue) < MaxQueue
    /\ state' = s
    /\ saveQueue' = Append(saveQueue, [state |-> s, waiter |-> waiter])

Awaited(waiter) == \E i \in DOMAIN saveQueue : saveQueue[i].waiter = waiter

\* The oldest snapshot reaches the file, or is lost with a message (bound: not
\* two in a row).
WriteState ==
    /\ saveQueue # <<>>
    /\ \/ stateFile' = Head(saveQueue).state /\ saveFailed' = FALSE
       \/ ~saveFailed /\ saveFailed' = TRUE /\ UNCHANGED stateFile
    /\ saveQueue' = Tail(saveQueue)
    /\ UNCHANGED <<version, state, folder, marker, copy, jobVars, del, prep,
                   spawnVars, raced>>

\* loadStateSync, adoptBuildFoldersSync: the file, or the empty state, and the
\* folders with a marker that it does not know.  The marker of a partial
\* folder may be gone.  One that names no version is a marker too, but the
\* write that cleared it may have been cut off.
LoadedStates(file) ==
    LET base    == IF file = Nothing THEN EmptyState ELSE file
        adopted == {b \in Builds : folder[b] = "whole" /\ marker[b] # Nothing}
        unsure  == {b \in Builds : folder[b] # "absent"} \ adopted
    IN  {[base EXCEPT !.installed = @ \cup adopted \cup more] :
            more \in SUBSET unsure}

\* The panel ends, at any point, and starts again, perhaps with another
\* version of itself.  The file is written to another name and renamed; a
\* power cut may still lose it.  Unfinished downloads are removed.
PanelRestarts ==
    /\ version' \in Versions
    /\ stateFile' \in {stateFile, Nothing}
    /\ state' \in LoadedStates(stateFile')
    /\ saveQueue' = <<>>
    /\ resolving' = {}
    /\ job' = NoJob
    /\ del' = [d \in Deletions |-> Nothing]
    /\ prep' = NoPrep
    /\ ready' = [s \in Spawns |-> Nothing]
    /\ child' = "none"
    /\ lastSpawn' = NoSpawn
    /\ raced' = FALSE
    /\ saveFailed' = FALSE
    /\ UNCHANGED <<folder, marker, copy>>

-----------------------------------------------------------------------------
\* The bound on what may be in flight at the same time.
Room ==
    Cardinality({d \in Deletions : del[d] # Nothing}) + Cardinality(resolving)
        + (IF job # NoJob THEN 1 ELSE 0)
        + (IF prep # NoPrep THEN 1 ELSE 0)
        + Cardinality({s \in Spawns : ready[s] # Nothing}) < MaxRequests

(* Downloads.                                                               *)

\* isRunningManagedBuild
Running(b) == child = "alive" /\ lastSpawn.build = b

\* startDownload, up to the lookup of the artifact.
StartDownload(b) ==
    /\ Room
    /\ job = NoJob
    /\ ~Installed(state, b)
    /\ ~Running(b)
    /\ resolving' = resolving \cup {b}
    /\ UNCHANGED <<version, state, saveQueue, diskVars, job, del, prep,
                   spawnVars, raced, saveFailed>>

\* More requests for the same build may wait for the same lookup.
LookupEnds(b) == b \in resolving /\ resolving' \in {resolving, resolving \ {b}}

\* The lookup returned.  Only downloadJob is checked again.
DownloadResolved(b) ==
    /\ LookupEnds(b)
    /\ \/ /\ job = NoJob
          /\ job' = [build |-> b, step |-> "fetching", cancelled |-> FALSE]
          /\ raced' = (raced \/ Installed(state, b))
       \/ UNCHANGED <<job, raced>>     \* not listed, or a job runs
    /\ UNCHANGED <<version, state, saveQueue, diskVars, del, prep, spawnVars,
                   saveFailed>>

\* The archive is downloaded, extracted, found usable and completed with the
\* panel's resource and a marker, in a folder of its own.  Then what is left
\* in the final folder is being removed.
DownloadFetched ==
    /\ job.step = "fetching"
    /\ ~job.cancelled
    /\ job' = [job EXCEPT !.step = "replacing"]
    /\ folder' = [folder EXCEPT ![job.build] = IF @ = "absent" THEN @ ELSE "part"]
    /\ UNCHANGED <<version, state, saveQueue, stateFile, marker, copy, resolving,
                   del, prep, spawnVars, raced, saveFailed>>

\* The folder is empty and takes the new one's place; the move is a rename.
DownloadMoved ==
    /\ job.step = "replacing"
    /\ job' = [job EXCEPT !.step = "moved"]
    /\ folder' = [folder EXCEPT ![job.build] = "whole"]
    /\ marker' = [marker EXCEPT ![job.build] = version]
    /\ copy' = [copy EXCEPT ![job.build] = version]
    /\ UNCHANGED <<version, state, saveQueue, stateFile, resolving, del, prep,
                   spawnVars, raced, saveFailed>>

DownloadInstalled ==
    /\ job.step = "moved"
    /\ job' = [job EXCEPT !.step = "saving"]
    /\ SetState(ApplyInstalled(state, job.build), "job")
    /\ raced' = (raced \/ Deleting)
    /\ UNCHANGED <<version, diskVars, resolving, del, prep, spawnVars,
                   saveFailed>>

DownloadDone ==
    /\ job.step = "saving"
    /\ ~Awaited("job")
    /\ job' = NoJob
    /\ UNCHANGED <<version, state, saveQueue, diskVars, resolving, del, prep,
                   spawnVars, raced, saveFailed>>

\* Any of the steps throws, also because the job was cancelled.
DownloadFails ==
    /\ job.step \in {"fetching", "replacing"}
    /\ job' = NoJob
    /\ UNCHANGED <<version, state, saveQueue, diskVars, resolving, del, prep,
                   spawnVars, raced, saveFailed>>

\* cancelDownload, and handleShutdown.  Later it is not looked at.
CancelDownload ==
    /\ job.step = "fetching"
    /\ job' = [job EXCEPT !.cancelled = TRUE]
    /\ UNCHANGED <<version, state, saveQueue, diskVars, resolving, del,
                   prep, spawnVars, raced, saveFailed>>

-----------------------------------------------------------------------------
(* Switching and deleting.                                                  *)

\* isLayoutAvailableSync may take a partial folder for a whole one.
LooksUsable(b) == b # Panel => folder[b] # "absent"

\* A switch is not seen by a deletion in flight, or by a spawn being prepared.
Switch(s) ==
    /\ SetState(s, "none")
    /\ raced' = (raced \/ Deleting \/ Spawning)
    /\ UNCHANGED <<version, diskVars, jobVars, del, prep, spawnVars, saveFailed>>

Activate(b) ==
    /\ b # Panel => Installed(state, b)
    /\ LooksUsable(b)
    /\ b # state.active
    /\ Switch(ApplyActivate(state, b))

Rollback ==
    /\ CanRollback(state)
    /\ LooksUsable(state.previous)
    /\ Switch(ApplyActivate(state, state.previous))

\* Mutant: only the active build is protected.
DeletableIgnoresServer(b) == job.build # b /\ state.active # b

\* What deleteBuild and applyDeleted refuse.
Deletable(b) == job.build # b /\ ~Running(b) /\ state.active # b

\* deleteBuild, up to the removal of the folder: the new state is computed
\* already.  The marker may be among the first files to go.
DeleteBuild(d, b) ==
    /\ Room
    /\ del[d] = Nothing
    /\ Deletable(b)
    /\ Installed(state, b)
    /\ del' = [del EXCEPT ![d] = [build |-> b, result |-> ApplyDeleted(state, b)]]
    /\ folder' = [folder EXCEPT ![b] = IF @ = "absent" THEN @ ELSE "part"]
    /\ marker' \in {marker, [marker EXCEPT ![b] = Nothing]}
    /\ UNCHANGED <<version, state, saveQueue, stateFile, copy, jobVars, prep,
                   spawnVars, raced, saveFailed>>

DeleteFails(d) ==
    /\ del[d] # Nothing
    /\ del' = [del EXCEPT ![d] = Nothing]
    /\ UNCHANGED <<version, state, saveQueue, diskVars, jobVars, prep, spawnVars,
                   raced, saveFailed>>

\* Mutant: only the list of builds is taken from what was computed.
DeleteEndsPartly(d) ==
    /\ del[d] # Nothing
    /\ folder' = [folder EXCEPT ![del[d].build] = "absent"]
    /\ marker' = [marker EXCEPT ![del[d].build] = Nothing]
    /\ copy' = [copy EXCEPT ![del[d].build] = Nothing]
    /\ SetState([state EXCEPT !.installed = del[d].result.installed], "none")
    /\ del' = [del EXCEPT ![d] = Nothing]
    /\ raced' = (raced \/ \E o \in Deletions \ {d} : del[o] # Nothing)
    /\ UNCHANGED <<version, stateFile, jobVars, prep, spawnVars, saveFailed>>

\* The folder is gone: the state computed before takes the place of the
\* present one.
DeleteEnds(d) ==
    /\ del[d] # Nothing
    /\ folder' = [folder EXCEPT ![del[d].build] = "absent"]
    /\ marker' = [marker EXCEPT ![del[d].build] = Nothing]
    /\ copy' = [copy EXCEPT ![del[d].build] = Nothing]
    /\ SetState(del[d].result, "none")
    /\ del' = [del EXCEPT ![d] = Nothing]
    /\ raced' = (raced \/ \E o \in Deletions \ {d} : del[o] # Nothing)
    /\ UNCHANGED <<version, stateFile, jobVars, prep, spawnVars, saveFailed>>

-----------------------------------------------------------------------------
(* The spawn.  One at a time prepares its build (isPreparingBuild of         *)
(* FxRunner); what FxRunner awaits afterwards may overlap with others.      *)

\* prepareForSpawn answers, and FxRunner goes on to the locale and the
\* configuration of the server, unless there is a child meanwhile.
Answer(b) ==
    /\ prep' = NoPrep
    /\ IF child = "none"
       THEN \E s \in Spawns : /\ ready[s] = Nothing
                             /\ ready' = [ready EXCEPT ![s] = b]
       ELSE UNCHANGED ready
    /\ UNCHANGED <<child, lastSpawn>>

\* prepareForSpawn, up to findLayoutProblem.
PrepareForSpawn ==
    /\ Room
    /\ prep = NoPrep
    /\ child = "none"
    /\ IF state.active = Panel
       THEN Answer(Panel)
       ELSE /\ prep' = [build |-> state.active, known |-> FALSE, step |-> "checking"]
            /\ UNCHANGED spawnVars
    /\ UNCHANGED <<version, state, saveQueue, diskVars, jobVars, del, raced,
                   saveFailed>>

\* findLayoutProblem found none, and the marker names this panel.  (In a
\* mixture the manifest may be there.)
MonitorIsCurrent ==
    /\ prep.step = "checking"
    /\ folder[prep.build] # "absent"
    /\ marker[prep.build] = version
    /\ Answer(prep.build)
    /\ UNCHANGED <<version, state, saveQueue, diskVars, jobVars, del, raced,
                   saveFailed>>

\* Mutant: the old marker stays until the copy is complete.
CopyStartsMarked ==
    /\ prep.step = "checking"
    /\ folder[prep.build] # "absent"
    /\ marker[prep.build] # version \/ copy[prep.build] = Mixed
    /\ prep' = [prep EXCEPT !.step = "copying",
                            !.known = Installed(state, prep.build)]
    /\ copy' = [copy EXCEPT ![prep.build] = Mixed]
    /\ UNCHANGED <<version, state, saveQueue, stateFile, folder, marker, jobVars,
                   del, spawnVars, raced, saveFailed>>

\* ensureMonitorCopy: the marker is cleared, and the copy begins.
CopyStarts ==
    /\ prep.step = "checking"
    /\ folder[prep.build] # "absent"
    /\ marker[prep.build] # version \/ copy[prep.build] = Mixed
    /\ prep' = [prep EXCEPT !.step = "copying",
                            !.known = Installed(state, prep.build)]
    /\ marker' = [marker EXCEPT ![prep.build] = Nothing]
    /\ copy' = [copy EXCEPT ![prep.build] = Mixed]
    /\ UNCHANGED <<version, state, saveQueue, stateFile, folder, jobVars, del,
                   spawnVars, raced, saveFailed>>

\* The copy, which makes the folders it needs, is complete, and the marker
\* written.  A build that was on the list before the copy is put there again.
CopyEnds ==
    /\ prep.step = "copying"
    /\ folder' = [folder EXCEPT ![prep.build] = IF @ = "absent" THEN "part" ELSE @]
    /\ marker' = [marker EXCEPT ![prep.build] = version]
    /\ copy' = [copy EXCEPT ![prep.build] = version]
    /\ IF prep.known
       THEN /\ prep' = [prep EXCEPT !.step = "saving"]
            /\ SetState(ApplyInstalled(state, prep.build), "spawn")
            /\ raced' = (raced \/ Deleting)
            /\ UNCHANGED spawnVars
       ELSE /\ Answer(prep.build)
            /\ UNCHANGED <<state, saveQueue, raced>>
    /\ UNCHANGED <<version, stateFile, jobVars, del, saveFailed>>

PrepareSaved ==
    /\ prep.step = "saving"
    /\ ~Awaited("spawn")
    /\ Answer(prep.build)
    /\ UNCHANGED <<version, state, saveQueue, diskVars, jobVars, del, raced,
                   saveFailed>>

\* fallBackToHost: the folder has a problem, or the copy failed.
FallBackToHost ==
    /\ \/ prep.step = "checking" /\ folder[prep.build] # "whole"
       \/ prep.step = "copying"
    /\ Answer(Panel)
    /\ UNCHANGED <<version, state, saveQueue, diskVars, jobVars, del, raced,
                   saveFailed>>

\* handleSpawned.  The child of a spawn that overlapped is forgotten.
HandleSpawned(s) ==
    /\ ready[s] # Nothing
    /\ ready[s] # Panel => folder[ready[s]] # "absent"
    /\ ready' = [ready EXCEPT ![s] = Nothing]
    /\ child' = "alive"
    /\ lastSpawn' = [build |-> ready[s], outcome |-> "booting"]
    /\ UNCHANGED <<version, state, saveQueue, diskVars, jobVars, del, prep, raced,
                   saveFailed>>

\* FxRunner gives the spawn up.
SpawnFails(s) ==
    /\ ready[s] # Nothing
    /\ ready' = [ready EXCEPT ![s] = Nothing]
    /\ UNCHANGED <<version, state, saveQueue, diskVars, jobVars, del, prep, child,
                   lastSpawn, raced, saveFailed>>

\* The server exits, or FxRunner destroys it.
ServerEnds ==
    /\ child # "none"
    /\ child' \in {"dead", "none"} \ {child}
    /\ lastSpawn' = IF child' = "none" THEN NoSpawn ELSE lastSpawn
    /\ UNCHANGED <<version, state, saveQueue, diskVars, jobVars, del, prep, ready,
                   raced, saveFailed>>

\* FxMonitor saw the server boot, once.
HandleBootCompleted ==
    /\ child = "alive"
    /\ lastSpawn.outcome # "booted"
    /\ lastSpawn' = [lastSpawn EXCEPT !.outcome = "booted"]
    /\ IF OnTrial(state, lastSpawn.build)
       THEN /\ SetState([state EXCEPT !.pending = NoPending], "none")
            /\ raced' = (raced \/ Deleting)
       ELSE UNCHANGED <<state, saveQueue, raced>>
    /\ UNCHANGED <<version, diskVars, jobVars, del, prep, ready, child, saveFailed>>

\* FxMonitor is about to restart a server that did not boot.
HandleBootFailed ==
    /\ child # "none"
    /\ lastSpawn.outcome = "booting"
    /\ OnTrial(state, lastSpawn.build)
    /\ state.active = lastSpawn.build
    /\ lastSpawn' = [lastSpawn EXCEPT !.outcome = "failed"]
    /\ SetState(ApplyBootFailed(state, lastSpawn.build), "none")
    /\ raced' = (raced \/ Deleting \/ Spawning)
    /\ UNCHANGED <<version, diskVars, jobVars, del, prep, ready, child, saveFailed>>

-----------------------------------------------------------------------------
Next ==
    \/ WriteState
    \/ PanelRestarts
    \/ \E b \in Builds : StartDownload(b) \/ DownloadResolved(b)
    \/ DownloadFetched
    \/ DownloadMoved
    \/ DownloadInstalled
    \/ DownloadDone
    \/ DownloadFails
    \/ CancelDownload
    \/ \E b \in Targets : Activate(b)
    \/ Rollback
    \/ \E d \in Deletions :
           \/ \E b \in Builds : DeleteBuild(d, b)
           \/ DeleteFails(d)
           \/ DeleteEnds(d)
    \/ PrepareForSpawn
    \/ MonitorIsCurrent
    \/ CopyStarts
    \/ CopyEnds
    \/ PrepareSaved
    \/ FallBackToHost
    \/ \E s \in Spawns : HandleSpawned(s) \/ SpawnFails(s)
    \/ ServerEnds
    \/ HandleBootCompleted
    \/ HandleBootFailed

Spec == Init /\ [][Next]_vars

-----------------------------------------------------------------------------
(* Properties.                                                              *)

\* A state names no build that is not on its list, and puts no build on trial
\* but the active one.
Consistent(s) ==
    /\ {s.active, s.previous} \ {Panel} \subseteq s.installed
    /\ s.pending.build \in {s.active, Panel}

\* So it is in memory, and on the disk, whatever a deletion that computed its
\* state before other changes writes over them, and whenever the panel ends.
ChoiceConsistent ==
    /\ Consistent(state)
    /\ stateFile # Nothing => Consistent(stateFile)

\* The marker of a whole build names the version of the panel's resource that
\* is in it, though copies are interrupted and the panel is updated or
\* downgraded: no server runs with a mixture.
MarkerTruthful ==
    \A b \in Builds :
        folder[b] = "whole" /\ marker[b] # Nothing => copy[b] = marker[b]

\* Builds the server runs on, starts on, or would start on.
Used(b) ==
    \/ state.active = b
    \/ prep.build = b
    \/ \E s \in Spawns : ready[s] = b
    \/ child = "alive" /\ lastSpawn.build = b

\* The folder of a build in use is never touched by a deletion or by a
\* download, unless a change overlapped with one that had not seen it.
UsedBuildKept ==
    [][\A b \in Builds : Used(b) /\ folder[b] = "whole" /\ ~raced
           => folder'[b] = "whole"]_vars

Quiet == saveQueue = <<>> /\ ~Deleting /\ job = NoJob /\ prep = NoPrep

\* When nothing is under way, the panel that restarts finds what it knew.
RestartKeepsState ==
    Quiet /\ ~saveFailed /\ ~raced => state \in LoadedStates(stateFile)

Choice(s) == [active |-> s.active, previous |-> s.previous,
              trial |-> IF s.pending = NoPending THEN "none"
                        ELSE IF s.pending.failures = 0 THEN "new" ELSE "failed"]

\* The choices a restart or the end of a deletion may bring back.
KeptChoices ==
    {Choice(s) : s \in ({stateFile} \ {Nothing})
                       \cup {saveQueue[i].state : i \in DOMAIN saveQueue}
                       \cup {del[d].result : d \in {o \in Deletions : del[o] # Nothing}}}

Switched == INSTANCE BuildSwitch WITH choice <- Choice(state), kept <- KeptChoices

\* The choice of the build changes as BuildSwitch says.
ImplementsBuildSwitch == Switched!Spec

\* "The game server now uses build X.": the end of a deletion does not undo a
\* switch, a verification or a revert that came while the folder was removed.
SwitchKept ==
    [][(\E d \in Deletions : DeleteEnds(d)) => state'.active = state.active]_vars

=============================================================================
