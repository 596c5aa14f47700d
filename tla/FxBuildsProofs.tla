---------------------------- MODULE FxBuildsProofs ----------------------------
(***************************************************************************)
(* Proofs about FxBuilds, for any builds, versions, requests and bounds.    *)
(* The state of the module, every snapshot of it that waits for the disk,   *)
(* the file, and what every deletion in flight has computed are consistent  *)
(* (ChoicesInv); that is also what the refinement of BuildSwitch needs.     *)
(* Until a request overlaps with a change it has not seen, what is used is  *)
(* installed, and is not being deleted or downloaded (UsedInv), and the     *)
(* file misses at most what a restart adopts (FileInv).                     *)
(***************************************************************************)
EXTENDS FxBuilds, TLAPS

LEMMA EmptyStateType ==
    /\ EmptyState \in States
    /\ NoPending \in [build : Targets, failures : 0 .. MAX_BOOT_FAILURES - 1]
  BY DEF EmptyState, States, NoPending, Targets, MAX_BOOT_FAILURES

\* Every change of the state gives a state.
LEMMA StateTypes ==
    ASSUME NEW s \in States
    PROVE  /\ \A b \in Targets : ApplyActivate(s, b) \in States
           /\ \A b \in Builds : /\ ApplyInstalled(s, b) \in States
                                /\ ApplyDeleted(s, b) \in States
                                /\ ApplyBootFailed(s, b) \in States
           /\ [s EXCEPT !.pending = NoPending] \in States
           /\ \A more \in SUBSET Builds : [s EXCEPT !.installed = @ \cup more] \in States
  <1> USE EmptyStateType
  <1>1. ASSUME NEW b \in Targets PROVE ApplyActivate(s, b) \in States
    <2>1. [build |-> b, failures |-> 0]
            \in [build : Targets, failures : 0 .. MAX_BOOT_FAILURES - 1]
      BY DEF MAX_BOOT_FAILURES
    <2>2. QED
      BY <2>1 DEF ApplyActivate, States
  <1>2. ASSUME NEW b \in Builds PROVE ApplyInstalled(s, b) \in States
    BY DEF ApplyInstalled, States
  <1>3. ASSUME NEW b \in Builds PROVE ApplyDeleted(s, b) \in States
    BY DEF ApplyDeleted, States, Targets
  <1>4. ASSUME NEW b \in Builds PROVE ApplyBootFailed(s, b) \in States
    <2>1. CASE s.pending.failures + 1 < MAX_BOOT_FAILURES
      <3>1. /\ s.pending \in [build : Targets, failures : 0 .. MAX_BOOT_FAILURES - 1]
            /\ s.pending.failures + 1 \in 0 .. MAX_BOOT_FAILURES - 1
        BY <2>1 DEF States, MAX_BOOT_FAILURES
      <3>2. [s.pending EXCEPT !.failures = @ + 1]
              \in [build : Targets, failures : 0 .. MAX_BOOT_FAILURES - 1]
        BY <3>1
      <3>3. ApplyBootFailed(s, b) = [s EXCEPT !.pending = [s.pending EXCEPT !.failures = @ + 1]]
        BY <2>1 DEF ApplyBootFailed, States
      <3>4. QED
        BY <3>2, <3>3 DEF States
    <2>2. CASE ~(s.pending.failures + 1 < MAX_BOOT_FAILURES)
      <3>1. RevertTarget(s) \in Targets /\ b \in Targets
        BY DEF RevertTarget, States, Targets
      <3>2. QED
        BY <2>2, <3>1 DEF ApplyBootFailed, States
    <2>3. QED
      BY <2>1, <2>2
  <1>5. [s EXCEPT !.pending = NoPending] \in States
    BY DEF States
  <1>6. ASSUME NEW more \in SUBSET Builds
        PROVE  [s EXCEPT !.installed = @ \cup more] \in States
    BY DEF States
  <1>7. QED
    BY <1>1, <1>2, <1>3, <1>4, <1>5, <1>6

\* A change of the state, with its snapshot, keeps the types.
LEMMA SetStateType ==
    ASSUME TypeOK, NEW s \in States, NEW w \in Waiters, SetState(s, w)
    PROVE  state' \in States /\ saveQueue' \in Seq([state : States, waiter : Waiters])
  <1>1. [state |-> s, waiter |-> w] \in [state : States, waiter : Waiters]
    OBVIOUS
  <1>2. QED
    BY <1>1 DEF SetState, TypeOK

\* A panel that starts loads a state.
LEMMA LoadedTypes ==
    ASSUME NEW loaded \in States \cup {Nothing}, NEW s \in LoadedStates(loaded)
    PROVE  /\ s \in States
           /\ \E more \in SUBSET Builds :
                 s = [IF loaded = Nothing THEN EmptyState ELSE loaded
                         EXCEPT !.installed = @ \cup more]
  <1> DEFINE base == IF loaded = Nothing THEN EmptyState ELSE loaded
  <1>1. base \in States
    BY EmptyStateType
  <1>2. PICK more \in SUBSET Builds :
            s = [base EXCEPT !.installed =
                    @ \cup {b \in Builds : folder[b] = "whole" /\ marker[b] # Nothing} \cup more]
    BY DEF LoadedStates
  <1>3. s = [base EXCEPT !.installed =
                @ \cup ({b \in Builds : folder[b] = "whole" /\ marker[b] # Nothing} \cup more)]
    BY <1>1, <1>2 DEF States
  <1>4. QED
    BY <1>1, <1>3, StateTypes

-----------------------------------------------------------------------------
\* Downloads, and the preparation of a spawn until it is ready, are of managed
\* builds.
WorkNamed ==
    /\ job.step # "none" => job.build \in Builds
    /\ prep.step \in {"checking", "copying", "saving"} => prep.build \in Builds

TypeInv == TypeOK /\ WorkNamed

LEMMA IdleTypes ==
    /\ NoJob \in [build : Targets, cancelled : BOOLEAN,
                  step : {"none", "fetching", "replacing", "moved", "saving"}]
    /\ NoPrep \in [build : Targets, known : BOOLEAN,
                   step : {"idle", "checking", "copying", "saving"}]
    /\ NoSpawn \in [build : Targets, outcome : {"booting", "failed", "booted"}]
    /\ [s \in Spawns |-> Nothing] \in [Spawns -> Targets \cup {Nothing}]
    /\ NoJob.step = "none" /\ NoPrep.step = "idle"
    /\ NoPrep.build = Panel /\ NoSpawn.build = Panel
  BY DEF NoJob, NoPrep, NoSpawn, Targets

\* The answer to a spawn ends its preparation.
LEMMA AnswerTypes ==
    ASSUME TypeOK, NEW b \in Targets, Answer(b)
    PROVE  /\ prep' = NoPrep /\ child' = child /\ lastSpawn' = lastSpawn
           /\ ready' \in [Spawns -> Targets \cup {Nothing}]
           /\ \A s \in Spawns : ready'[s] \in {ready[s], b}
  BY DEF Answer, TypeOK

LEMMA TypeInvInit == Init => TypeInv
  <1> SUFFICES ASSUME Init PROVE TypeInv
    OBVIOUS
  <1>1. saveQueue \in Seq([state : States, waiter : Waiters])
    BY DEF Init
  <1>2. /\ folder \in [Builds -> {"absent", "part", "whole"}]
        /\ marker \in [Builds -> Versions \cup {Nothing}]
        /\ copy \in [Builds -> Versions \cup {Nothing, Mixed}]
        /\ del \in [Deletions -> [build : Builds, result : States] \cup {Nothing}]
    BY DEF Init
  <1>3. QED
    BY <1>1, <1>2, EmptyStateType, IdleTypes DEF Init, TypeInv, WorkNamed, TypeOK

LEMMA TypeInvStep == TypeInv /\ [Next]_vars => TypeInv'
  <1> SUFFICES ASSUME TypeInv, [Next]_vars PROVE TypeInv'
    OBVIOUS
  <1> USE DEF diskVars, jobVars, spawnVars, TypeInv, WorkNamed
  <1>0. /\ state \in States /\ Builds \subseteq Targets /\ Panel \in Targets
        /\ "none" \in Waiters /\ "job" \in Waiters /\ "spawn" \in Waiters
    BY DEF TypeOK, Waiters, Targets
  <1>job. job \in [build : Targets, cancelled : BOOLEAN,
                  step : {"none", "fetching", "replacing", "moved", "saving"}]
    BY DEF TypeOK
  <1>prep. prep \in [build : Targets, known : BOOLEAN,
                    step : {"idle", "checking", "copying", "saving"}]
    BY DEF TypeOK
  <1>1. CASE WriteState
    <2>1. saveQueue \in Seq([state : States, waiter : Waiters]) /\ saveQueue # <<>>
      BY <1>1 DEF WriteState, TypeOK
    <2> DEFINE Entry == [state : States, waiter : Waiters]
    <2>a. saveQueue \in Seq(Entry)
      BY <2>1
    <2>b. Head(saveQueue) \in Entry /\ Tail(saveQueue) \in Seq(Entry)
      <3> HIDE DEF Entry
      <3> QED
        BY <2>1, <2>a
    <2>c. Head(saveQueue).state \in States
      BY <2>b
    <2>d. stateFile \in States \cup {Nothing} /\ saveFailed \in BOOLEAN
      BY DEF TypeOK
    <2>2. /\ saveQueue' \in Seq([state : States, waiter : Waiters])
          /\ stateFile' \in States \cup {Nothing} /\ saveFailed' \in BOOLEAN
      BY <1>1, <2>b, <2>c, <2>d DEF WriteState
    <2>3. QED
      BY <1>1, <2>2 DEF WriteState, TypeOK
  <1>2. CASE PanelRestarts
    <2>1. stateFile' \in States \cup {Nothing} /\ state' \in States
      BY <1>2, LoadedTypes DEF PanelRestarts, TypeOK
    <2>2. /\ saveQueue' \in Seq([state : States, waiter : Waiters])
          /\ del' \in [Deletions -> [build : Builds, result : States] \cup {Nothing}]
      BY <1>2 DEF PanelRestarts
    <2>3. /\ job' = NoJob /\ prep' = NoPrep /\ lastSpawn' = NoSpawn
          /\ resolving' = {} /\ version' \in Versions /\ child' = "none"
          /\ ready' = [s \in Spawns |-> Nothing]
          /\ raced' = FALSE /\ saveFailed' = FALSE
          /\ folder' = folder /\ marker' = marker /\ copy' = copy
      BY <1>2 DEF PanelRestarts
    <2>4. QED
      BY <2>1, <2>2, <2>3, IdleTypes DEF TypeOK
  <1>3. ASSUME NEW b \in Builds, StartDownload(b) \/ DownloadResolved(b)
        PROVE  TypeInv'
    <2>1. CASE StartDownload(b)
      BY <1>3, <2>1 DEF StartDownload, TypeOK
    <2>2. CASE DownloadResolved(b)
      <3>1. resolving' \subseteq Builds
        BY <2>2 DEF DownloadResolved, LookupEnds, TypeOK
      <3>2. [build |-> b, step |-> "fetching", cancelled |-> FALSE]
              \in [build : Targets, cancelled : BOOLEAN,
                   step : {"none", "fetching", "replacing", "moved", "saving"}]
        BY <1>0
      <3>3. job' \in [build : Targets, cancelled : BOOLEAN,
                      step : {"none", "fetching", "replacing", "moved", "saving"}]
            /\ (job'.step # "none" => job'.build \in Builds) /\ raced' \in BOOLEAN
        <4>1. raced' \in BOOLEAN
          BY <2>2 DEF DownloadResolved, Installed, TypeOK
        <4>2. \/ job' = [build |-> b, step |-> "fetching", cancelled |-> FALSE]
              \/ job' = job
          BY <2>2 DEF DownloadResolved
        <4>3. CASE job' = [build |-> b, step |-> "fetching", cancelled |-> FALSE]
          BY <3>2, <4>1, <4>3
        <4>4. CASE job' = job
          <5>1. job'.step # "none" => job'.build \in Builds
            BY <4>4 DEF TypeInv, WorkNamed
          <5>2. QED
            BY <1>job, <4>1, <4>4, <5>1
        <4>5. QED
          BY <4>2, <4>3, <4>4
      <3>4. QED
        BY <2>2, <3>1, <3>3 DEF DownloadResolved, TypeOK
    <2>3. QED
      BY <1>3, <2>1, <2>2
  <1>4. CASE DownloadFetched
    BY <1>4 DEF DownloadFetched, TypeOK
  <1>5. CASE DownloadMoved
    BY <1>5 DEF DownloadMoved, TypeOK
  <1>6. CASE DownloadInstalled
    <2>1. ApplyInstalled(state, job.build) \in States
      BY <1>0, <1>6, StateTypes DEF DownloadInstalled
    <2>2. state' \in States /\ saveQueue' \in Seq([state : States, waiter : Waiters])
      BY <1>0, <1>6, <2>1, SetStateType DEF DownloadInstalled
    <2>3. QED
      BY <1>6, <2>2 DEF DownloadInstalled, TypeOK, Deleting
  <1>7. CASE DownloadDone \/ DownloadFails \/ CancelDownload
    <2>1. job' \in [build : Targets, cancelled : BOOLEAN,
                    step : {"none", "fetching", "replacing", "moved", "saving"}]
          /\ (job'.step # "none" => job'.build \in Builds)
      BY <1>7, IdleTypes DEF DownloadDone, DownloadFails, CancelDownload, TypeOK
    <2>2. QED
      BY <1>7, <2>1 DEF DownloadDone, DownloadFails, CancelDownload, TypeOK
  <1>8. ASSUME NEW s \in States, Switch(s) PROVE TypeInv'
    <2>1. state' \in States /\ saveQueue' \in Seq([state : States, waiter : Waiters])
      BY <1>0, <1>8, SetStateType DEF Switch
    <2>2. QED
      BY <1>8, <2>1 DEF Switch, TypeOK, Deleting
  <1>9. ASSUME NEW b \in Targets, Activate(b) PROVE TypeInv'
    BY <1>0, <1>8, <1>9, StateTypes DEF Activate
  <1>10. CASE Rollback
    <2>1. state.previous \in Targets
      BY <1>0 DEF States
    <2>2. QED
      BY <1>0, <1>8, <1>10, <2>1, StateTypes DEF Rollback
  <1>11. ASSUME NEW d \in Deletions, NEW b \in Builds, DeleteBuild(d, b) PROVE TypeInv'
    <2>1. [build |-> b, result |-> ApplyDeleted(state, b)] \in [build : Builds, result : States]
      BY <1>0, StateTypes
    <2>2. del' \in [Deletions -> [build : Builds, result : States] \cup {Nothing}]
      BY <1>11, <2>1 DEF DeleteBuild, TypeOK
    <2>3. marker' \in [Builds -> Versions \cup {Nothing}]
      BY <1>11 DEF DeleteBuild, TypeOK
    <2>4. folder' \in [Builds -> {"absent", "part", "whole"}]
      BY <1>11 DEF DeleteBuild, TypeOK
    <2>5. QED
      BY <1>11, <2>2, <2>3, <2>4 DEF DeleteBuild, TypeOK
  <1>12. ASSUME NEW d \in Deletions, DeleteFails(d) PROVE TypeInv'
    BY <1>12 DEF DeleteFails, TypeOK
  <1>13. ASSUME NEW d \in Deletions, DeleteEnds(d) PROVE TypeInv'
    <2>1. del[d] \in [build : Builds, result : States]
      BY <1>13 DEF DeleteEnds, TypeOK
    <2>2. state' \in States /\ saveQueue' \in Seq([state : States, waiter : Waiters])
      BY <1>0, <1>13, <2>1, SetStateType DEF DeleteEnds
    <2>3. del' \in [Deletions -> [build : Builds, result : States] \cup {Nothing}]
      BY <1>13 DEF DeleteEnds, TypeOK
    <2>4. /\ folder' \in [Builds -> {"absent", "part", "whole"}]
          /\ marker' \in [Builds -> Versions \cup {Nothing}]
          /\ copy' \in [Builds -> Versions \cup {Nothing, Mixed}]
          /\ raced' \in BOOLEAN
      BY <1>13 DEF DeleteEnds, TypeOK
    <2>5. QED
      BY <1>13, <2>2, <2>3, <2>4 DEF DeleteEnds, TypeOK
  <1>14. CASE PrepareForSpawn
    <2>1. state.active \in Targets
      BY <1>0 DEF States
    <2>2. CASE state.active = Panel
      BY <1>0, <1>14, <2>2, AnswerTypes, IdleTypes DEF PrepareForSpawn, TypeOK
    <2>3. CASE state.active # Panel
      <3>1. /\ prep' \in [build : Targets, known : BOOLEAN,
                          step : {"idle", "checking", "copying", "saving"}]
            /\ prep'.build \in Builds
            /\ ready' = ready /\ child' = child /\ lastSpawn' = lastSpawn
        <4>1. state.active \in Builds
          BY <2>1, <2>3 DEF Targets
        <4>2. prep' = [build |-> state.active, known |-> FALSE, step |-> "checking"]
          BY <1>14, <2>3 DEF PrepareForSpawn
        <4>3. QED
          BY <1>0, <1>14, <2>3, <4>1, <4>2 DEF PrepareForSpawn
      <3>2. QED
        BY <1>14, <3>1 DEF PrepareForSpawn, TypeOK
    <2>4. QED
      BY <2>2, <2>3
  <1>15. CASE MonitorIsCurrent \/ PrepareSaved \/ FallBackToHost
    <2>1. PICK b \in Targets : Answer(b)
      BY <1>0, <1>15, <1>prep DEF MonitorIsCurrent, PrepareSaved, FallBackToHost
    <2>2. QED
      BY <1>15, <2>1, AnswerTypes, IdleTypes
         DEF MonitorIsCurrent, PrepareSaved, FallBackToHost, TypeOK
  <1>16. CASE CopyStarts
    <2>1. /\ prep' \in [build : Targets, known : BOOLEAN,
                        step : {"idle", "checking", "copying", "saving"}]
          /\ prep'.build = prep.build
      <3>1. Installed(state, prep.build) \in BOOLEAN
        BY DEF Installed
      <3>2. QED
        BY <1>16, <1>prep, <3>1 DEF CopyStarts
    <2>2. /\ marker' \in [Builds -> Versions \cup {Nothing}]
          /\ copy' \in [Builds -> Versions \cup {Nothing, Mixed}]
      BY <1>16 DEF CopyStarts, TypeOK
    <2>3. QED
      BY <1>16, <2>1, <2>2 DEF CopyStarts, TypeOK
  <1>17. CASE CopyEnds
    <2>1. prep.build \in Builds
      BY <1>17 DEF CopyEnds
    <2>2. /\ folder' \in [Builds -> {"absent", "part", "whole"}]
          /\ marker' \in [Builds -> Versions \cup {Nothing}]
          /\ copy' \in [Builds -> Versions \cup {Nothing, Mixed}]
      BY <1>17, <2>1 DEF CopyEnds, TypeOK
    <2>3. state' \in States /\ saveQueue' \in Seq([state : States, waiter : Waiters])
          /\ raced' \in BOOLEAN
      <3>1. CASE prep.known
        <4>1. ApplyInstalled(state, prep.build) \in States
          BY <1>0, <2>1, StateTypes
        <4>2. QED
          BY <1>0, <1>17, <3>1, <4>1, SetStateType DEF CopyEnds, Deleting, TypeOK
      <3>2. CASE ~prep.known
        BY <1>17, <3>2 DEF CopyEnds, TypeOK
      <3>3. QED
        BY <3>1, <3>2
    <2>4. /\ prep' \in [build : Targets, known : BOOLEAN,
                        step : {"idle", "checking", "copying", "saving"}]
          /\ prep'.step \in {"checking", "copying", "saving"} => prep'.build \in Builds
          /\ ready' \in [Spawns -> Targets \cup {Nothing}]
          /\ child' = child /\ lastSpawn' = lastSpawn
      <3>1. CASE prep.known
        BY <1>17, <1>prep, <2>1, <3>1 DEF CopyEnds, TypeOK
      <3>2. CASE ~prep.known
        BY <1>0, <1>17, <1>prep, <3>2, AnswerTypes, IdleTypes DEF CopyEnds
      <3>3. QED
        BY <3>1, <3>2
    <2>5. QED
      BY <1>17, <2>2, <2>3, <2>4 DEF CopyEnds, TypeOK
  <1>19. ASSUME NEW s \in Spawns, SpawnFails(s) PROVE TypeInv'
    BY <1>19 DEF SpawnFails, TypeOK
  <1>20. ASSUME NEW s \in Spawns, HandleSpawned(s) PROVE TypeInv'
    <2>1. /\ ready[s] \in Targets
          /\ ready' \in [Spawns -> Targets \cup {Nothing}]
      BY <1>20 DEF HandleSpawned, TypeOK
    <2>2. QED
      BY <1>20, <2>1 DEF HandleSpawned, TypeOK
  <1>21. CASE ServerEnds
    BY <1>0, <1>21, IdleTypes DEF ServerEnds, TypeOK
  <1>22. CASE HandleBootCompleted
    <2>1. state' \in States /\ saveQueue' \in Seq([state : States, waiter : Waiters])
          /\ raced' \in BOOLEAN
      <3>1. CASE OnTrial(state, lastSpawn.build)
        BY <1>0, <1>22, <3>1, StateTypes, SetStateType DEF HandleBootCompleted, Deleting, TypeOK
      <3>2. CASE ~OnTrial(state, lastSpawn.build)
        BY <1>22, <3>2 DEF HandleBootCompleted, TypeOK
      <3>3. QED
        BY <3>1, <3>2
    <2>2. QED
      BY <1>22, <2>1 DEF HandleBootCompleted, TypeOK
  <1>23. CASE HandleBootFailed
    <2>1. lastSpawn.build \in Builds
      BY <1>23 DEF HandleBootFailed, OnTrial, TypeOK, Targets
    <2>2. state' \in States /\ saveQueue' \in Seq([state : States, waiter : Waiters])
      BY <1>0, <1>23, <2>1, StateTypes, SetStateType DEF HandleBootFailed
    <2>3. QED
      BY <1>23, <2>2 DEF HandleBootFailed, TypeOK, Deleting
  <1>24. CASE UNCHANGED vars
    BY <1>24 DEF vars, TypeOK
  <1>25. QED
    BY <1>1, <1>2, <1>3, <1>4, <1>5, <1>6, <1>7, <1>9, <1>10, <1>11, <1>12, <1>13, <1>14,
       <1>15, <1>16, <1>17, <1>19, <1>20, <1>21, <1>22, <1>23, <1>24 DEF Next

\* Every variable keeps its type: in particular the failures of a build on
\* trial stay below the limit, and only managed builds are installed.
THEOREM BuildsTypeCorrect == Spec => []TypeOK
  <1>1. TypeInv => TypeOK
    BY DEF TypeInv
  <1>2. QED
    BY <1>1, TypeInvInit, TypeInvStep, PTL DEF Spec

-----------------------------------------------------------------------------
\* A change of a consistent state gives a consistent state, for the builds
\* that the code makes it with.
LEMMA ConsistentKept ==
    ASSUME NEW s \in States, Consistent(s)
    PROVE  /\ \A b \in Targets : (b # Panel => Installed(s, b)) => Consistent(ApplyActivate(s, b))
           /\ \A b \in Builds : /\ Consistent(ApplyInstalled(s, b))
                                /\ s.active # b => Consistent(ApplyDeleted(s, b))
                                /\ s.active = b => Consistent(ApplyBootFailed(s, b))
           /\ Consistent([s EXCEPT !.pending = NoPending])
           /\ \A more \in SUBSET Builds : Consistent([s EXCEPT !.installed = @ \cup more])
  <1> USE BuildsAssumption DEF Consistent
  <1>1. ASSUME NEW b \in Targets, b # Panel => Installed(s, b)
        PROVE  Consistent(ApplyActivate(s, b))
    BY <1>1 DEF ApplyActivate, Installed, NoPending, States, Targets
  <1>2. ASSUME NEW b \in Builds PROVE Consistent(ApplyInstalled(s, b))
    BY DEF ApplyInstalled, States
  <1>3. ASSUME NEW b \in Builds, s.active # b PROVE Consistent(ApplyDeleted(s, b))
    BY <1>3 DEF ApplyDeleted, States, NoPending
  <1>4. ASSUME NEW b \in Builds, s.active = b PROVE Consistent(ApplyBootFailed(s, b))
    <2>1. CASE s.pending.failures + 1 < MAX_BOOT_FAILURES
      <3>1. ApplyBootFailed(s, b) = [s EXCEPT !.pending = [s.pending EXCEPT !.failures = @ + 1]]
        BY <2>1 DEF ApplyBootFailed, States
      <3>2. [s.pending EXCEPT !.failures = @ + 1].build = s.pending.build
        BY DEF States
      <3>3. QED
        BY <3>1, <3>2 DEF States
    <2>2. CASE ~(s.pending.failures + 1 < MAX_BOOT_FAILURES)
      <3>1. ApplyBootFailed(s, b) = [s EXCEPT !.active = RevertTarget(s), !.previous = b,
                                              !.pending = NoPending]
        BY <2>2 DEF ApplyBootFailed
      <3>2. RevertTarget(s) = Panel \/ RevertTarget(s) \in s.installed
        BY DEF RevertTarget, Installed
      <3>3. b \in s.installed
        BY <1>4
      <3>4. NoPending.build = Panel
        BY DEF NoPending
      <3>5. QED
        BY <3>1, <3>2, <3>3, <3>4 DEF States
    <2>3. QED
      BY <2>1, <2>2
  <1>5. Consistent([s EXCEPT !.pending = NoPending])
    BY DEF States, NoPending
  <1>6. ASSUME NEW more \in SUBSET Builds
        PROVE  Consistent([s EXCEPT !.installed = @ \cup more])
    BY DEF States
  <1>7. QED
    BY <1>1, <1>2, <1>3, <1>4, <1>5, <1>6

\* Whatever is in memory, on its way to the disk, on the disk, or computed by
\* a deletion in flight is consistent.
ChoicesInv ==
    /\ ChoiceConsistent
    /\ \A i \in DOMAIN saveQueue : Consistent(saveQueue[i].state)
    /\ \A d \in Deletions : del[d] # Nothing => Consistent(del[d].result)

LEMMA SetStateConsistent ==
    ASSUME TypeOK, ChoicesInv, NEW s \in States, NEW w \in Waiters, Consistent(s),
           SetState(s, w), stateFile' = stateFile,
           \A d \in Deletions : del'[d] # Nothing => del'[d] = del[d]
    PROVE  ChoicesInv'
  <1>1. saveQueue \in Seq([state : States, waiter : Waiters])
    BY DEF TypeOK
  <1>2. ASSUME NEW i \in DOMAIN saveQueue' PROVE Consistent(saveQueue'[i].state)
    <2>1. \/ i \in DOMAIN saveQueue /\ saveQueue'[i] = saveQueue[i]
          \/ saveQueue'[i] = [state |-> s, waiter |-> w]
      BY <1>1 DEF SetState
    <2>2. QED
      BY <2>1 DEF ChoicesInv
  <1>3. QED
    BY <1>2 DEF ChoicesInv, ChoiceConsistent, SetState

LEMMA EmptyConsistent == Consistent(EmptyState)
  BY DEF Consistent, EmptyState, NoPending

LEMMA ChoicesInvInit == Init => ChoicesInv
  BY EmptyConsistent DEF Init, ChoicesInv, ChoiceConsistent

LEMMA ChoicesInvStep == TypeInv /\ ChoicesInv /\ [Next]_vars => ChoicesInv'
  <1> SUFFICES ASSUME TypeInv, ChoicesInv, [Next]_vars PROVE ChoicesInv'
    OBVIOUS
  <1> USE DEF diskVars, jobVars, spawnVars
  <1>0. /\ TypeOK /\ state \in States /\ Consistent(state)
        /\ Builds \subseteq Targets /\ Panel \in Targets
        /\ "none" \in Waiters /\ "job" \in Waiters /\ "spawn" \in Waiters
    BY DEF TypeInv, TypeOK, Waiters, Targets, ChoicesInv, ChoiceConsistent
  <1>1. CASE WriteState
    <2>1. saveQueue \in Seq([state : States, waiter : Waiters]) /\ saveQueue # <<>>
      BY <1>0, <1>1 DEF WriteState, TypeOK
    <2>2. /\ 1 \in DOMAIN saveQueue /\ Head(saveQueue) = saveQueue[1]
          /\ \A i \in DOMAIN Tail(saveQueue) :
                 i + 1 \in DOMAIN saveQueue /\ Tail(saveQueue)[i] = saveQueue[i + 1]
      BY <2>1
    <2>3. QED
      BY <1>1, <2>2 DEF WriteState, ChoicesInv, ChoiceConsistent
  <1>2. CASE PanelRestarts
    <2>1. stateFile' \in States \cup {Nothing} /\ state' \in LoadedStates(stateFile')
          /\ (stateFile' # Nothing => Consistent(stateFile'))
          /\ saveQueue' = <<>> /\ del' = [d \in Deletions |-> Nothing]
      BY <1>0, <1>2 DEF PanelRestarts, TypeOK, ChoicesInv, ChoiceConsistent
    <2> DEFINE base == IF stateFile' = Nothing THEN EmptyState ELSE stateFile'
    <2>2. base \in States /\ Consistent(base)
      BY <2>1, EmptyStateType, EmptyConsistent
    <2>3. PICK more \in SUBSET Builds : state' = [base EXCEPT !.installed = @ \cup more]
      BY <2>1, LoadedTypes
    <2>4. Consistent(state')
      BY <2>2, <2>3, ConsistentKept
    <2>5. QED
      BY <2>1, <2>4 DEF ChoicesInv, ChoiceConsistent
  <1>3. ASSUME NEW b \in Builds, StartDownload(b) \/ DownloadResolved(b)
        PROVE  ChoicesInv'
    BY <1>3 DEF StartDownload, DownloadResolved, ChoicesInv, ChoiceConsistent
  <1>4. CASE DownloadFetched \/ DownloadMoved \/ DownloadDone \/ DownloadFails \/ CancelDownload
    BY <1>4 DEF DownloadFetched, DownloadMoved, DownloadDone, DownloadFails, CancelDownload,
                ChoicesInv, ChoiceConsistent
  <1>5. CASE DownloadInstalled
    <2>1. /\ ApplyInstalled(state, job.build) \in States
          /\ Consistent(ApplyInstalled(state, job.build))
      BY <1>0, <1>5, StateTypes, ConsistentKept DEF DownloadInstalled, TypeInv, WorkNamed
    <2>2. QED
      BY <1>0, <1>5, <2>1, SetStateConsistent DEF DownloadInstalled
  <1>6. ASSUME NEW s \in States, Consistent(s), Switch(s) PROVE ChoicesInv'
    BY <1>0, <1>6, SetStateConsistent DEF Switch
  <1>7. ASSUME NEW b \in Targets, Activate(b) PROVE ChoicesInv'
    BY <1>0, <1>6, <1>7, StateTypes, ConsistentKept DEF Activate
  <1>8. CASE Rollback
    <2>1. state.previous \in Targets
      BY <1>0 DEF States
    <2>2. QED
      BY <1>0, <1>6, <1>8, <2>1, StateTypes, ConsistentKept DEF Rollback, CanRollback
  <1>9. ASSUME NEW d \in Deletions, NEW b \in Builds, DeleteBuild(d, b) PROVE ChoicesInv'
    <2>1. Consistent(ApplyDeleted(state, b))
      BY <1>0, <1>9, ConsistentKept DEF DeleteBuild, Deletable
    <2>2. \A e \in Deletions : del'[e] # Nothing =>
              \/ del'[e] = del[e]
              \/ del'[e] = [build |-> b, result |-> ApplyDeleted(state, b)]
      BY <1>0, <1>9 DEF DeleteBuild, TypeOK
    <2>3. QED
      BY <1>9, <2>1, <2>2 DEF DeleteBuild, ChoicesInv, ChoiceConsistent
  <1>10. ASSUME NEW d \in Deletions, DeleteFails(d) PROVE ChoicesInv'
    BY <1>0, <1>10 DEF DeleteFails, TypeOK, ChoicesInv, ChoiceConsistent
  <1>11. ASSUME NEW d \in Deletions, DeleteEnds(d) PROVE ChoicesInv'
    <2>1. del[d].result \in States /\ Consistent(del[d].result)
      BY <1>0, <1>11 DEF DeleteEnds, TypeOK, ChoicesInv
    <2>2. \A e \in Deletions : del'[e] # Nothing => del'[e] = del[e]
      BY <1>0, <1>11 DEF DeleteEnds, TypeOK
    <2>3. QED
      BY <1>0, <1>11, <2>1, <2>2, SetStateConsistent DEF DeleteEnds
  <1>12. CASE PrepareForSpawn \/ MonitorIsCurrent \/ CopyStarts \/ PrepareSaved
              \/ FallBackToHost \/ (\E s \in Spawns : HandleSpawned(s) \/ SpawnFails(s))
              \/ ServerEnds
    BY <1>12 DEF PrepareForSpawn, MonitorIsCurrent, CopyStarts, PrepareSaved, FallBackToHost,
                 Answer, SpawnFails, HandleSpawned, ServerEnds, ChoicesInv,
                 ChoiceConsistent
  <1>13. CASE CopyEnds
    <2>1. /\ ApplyInstalled(state, prep.build) \in States
          /\ Consistent(ApplyInstalled(state, prep.build))
      BY <1>0, <1>13, StateTypes, ConsistentKept DEF CopyEnds, TypeInv, WorkNamed
    <2>2. CASE prep.known
      BY <1>0, <1>13, <2>1, <2>2, SetStateConsistent DEF CopyEnds
    <2>3. CASE ~prep.known
      BY <1>13, <2>3 DEF CopyEnds, ChoicesInv, ChoiceConsistent
    <2>4. QED
      BY <2>2, <2>3
  <1>14. CASE HandleBootCompleted
    <2>1. CASE OnTrial(state, lastSpawn.build)
      BY <1>0, <1>14, <2>1, StateTypes, ConsistentKept, SetStateConsistent
         DEF HandleBootCompleted
    <2>2. CASE ~OnTrial(state, lastSpawn.build)
      BY <1>14, <2>2 DEF HandleBootCompleted, ChoicesInv, ChoiceConsistent
    <2>3. QED
      BY <2>1, <2>2
  <1>15. CASE HandleBootFailed
    <2>1. lastSpawn.build \in Builds /\ state.active = lastSpawn.build
      BY <1>0, <1>15 DEF HandleBootFailed, OnTrial, TypeOK, Targets
    <2>2. QED
      BY <1>0, <1>15, <2>1, StateTypes, ConsistentKept, SetStateConsistent DEF HandleBootFailed
  <1>16. CASE UNCHANGED vars
    BY <1>16 DEF vars, ChoicesInv, ChoiceConsistent
  <1>17. QED
    BY <1>1, <1>2, <1>3, <1>4, <1>5, <1>7, <1>8, <1>9, <1>10, <1>11, <1>12, <1>13, <1>14,
       <1>15, <1>16 DEF Next

\* The state in memory and in the file names only builds that are installed,
\* and at most the active one is on trial, whatever overlaps and whenever the
\* panel ends.
THEOREM ChoiceConsistentSafe == Spec => []ChoiceConsistent
  <1>1. ChoicesInv => ChoiceConsistent
    BY DEF ChoicesInv
  <1>2. QED
    BY <1>1, TypeInvInit, TypeInvStep, ChoicesInvInit, ChoicesInvStep, PTL DEF Spec

-----------------------------------------------------------------------------
\* The marker of a whole build names the version of the panel's resource in
\* it, though copies are interrupted, builds are deleted and downloaded, and
\* the panel is updated and downgraded.
THEOREM MarkerTruthfulSafe == Spec => []MarkerTruthful
  <1>1. Init => MarkerTruthful
    BY DEF Init, MarkerTruthful
  <1>2. TypeInv /\ MarkerTruthful /\ [Next]_vars => MarkerTruthful'
    <2> SUFFICES ASSUME TypeInv, MarkerTruthful, [Next]_vars PROVE MarkerTruthful'
      OBVIOUS
    <2>0. /\ folder \in [Builds -> {"absent", "part", "whole"}]
          /\ marker \in [Builds -> Versions \cup {Nothing}]
          /\ copy \in [Builds -> Versions \cup {Nothing, Mixed}]
      BY DEF TypeInv, TypeOK
    <2>1. CASE UNCHANGED <<folder, marker, copy>>
      BY <2>1 DEF MarkerTruthful
    <2>2. CASE DownloadFetched
      BY <2>0, <2>2 DEF DownloadFetched, MarkerTruthful
    <2>3. CASE DownloadMoved
      BY <2>0, <2>3 DEF DownloadMoved, MarkerTruthful
    <2>4. ASSUME NEW d \in Deletions, NEW b \in Builds, DeleteBuild(d, b)
          PROVE  MarkerTruthful'
      BY <2>0, <2>4 DEF DeleteBuild, MarkerTruthful
    <2>5. ASSUME NEW d \in Deletions, DeleteEnds(d) PROVE MarkerTruthful'
      BY <2>0, <2>5 DEF DeleteEnds, MarkerTruthful
    <2>6. CASE CopyStarts
      BY <2>0, <2>6 DEF CopyStarts, MarkerTruthful
    <2>7. CASE CopyEnds
      BY <2>0, <2>7 DEF CopyEnds, MarkerTruthful
    <2>8. QED
      BY <2>1, <2>2, <2>3, <2>4, <2>5, <2>6, <2>7
         DEF Next, vars, diskVars, WriteState, PanelRestarts, StartDownload, DownloadResolved,
             DownloadInstalled, DownloadDone, DownloadFails, CancelDownload, Activate,
             Rollback, Switch, DeleteFails, PrepareForSpawn, MonitorIsCurrent, PrepareSaved,
             FallBackToHost, HandleSpawned, SpawnFails, ServerEnds,
             HandleBootCompleted, HandleBootFailed
  <1>3. QED
    BY <1>1, <1>2, TypeInvInit, TypeInvStep, PTL DEF Spec

-----------------------------------------------------------------------------
\* What a deletion in flight has computed is the present state without its
\* build, which nobody uses; a server is prepared from the active build and
\* runs on an installed one; and what is being downloaded is not installed.
\* (Unless a request overlapped with a change it had not seen.)
UsedInv ==
    /\ prep.step = "idle" => prep.build = Panel
    /\ ~raced =>
           /\ prep.build \in {Panel, state.active}
           /\ \A s \in Spawns : ready[s] \in {Nothing, Panel, state.active}
           /\ child = "alive" => lastSpawn.build \in state.installed \cup {Panel}
           /\ \A d \in Deletions : del[d] # Nothing =>
                  /\ del[d].result = ApplyDeleted(state, del[d].build)
                  /\ ~Used(del[d].build)
           /\ job.step \in {"fetching", "replacing", "moved"} => job.build \notin state.installed

LEMMA UsedInvInit == Init => UsedInv
  BY IdleTypes DEF Init, UsedInv

LEMMA UsedInvStep == TypeInv /\ ChoicesInv /\ UsedInv /\ [Next]_vars => UsedInv'
  <1> SUFFICES ASSUME TypeInv, ChoicesInv, UsedInv, [Next]_vars PROVE UsedInv'
    OBVIOUS
  <1> USE BuildsAssumption DEF diskVars, jobVars, spawnVars
  <1>0. /\ state \in States /\ Consistent(state) /\ raced \in BOOLEAN
        /\ del \in [Deletions -> [build : Builds, result : States] \cup {Nothing}]
    BY DEF TypeInv, TypeOK, ChoicesInv, ChoiceConsistent
  <1>1. CASE WriteState
    BY <1>1 DEF WriteState, UsedInv, Used
  <1>2. CASE PanelRestarts
    BY <1>2, IdleTypes DEF PanelRestarts, UsedInv
  <1>3. ASSUME NEW b \in Builds, StartDownload(b) \/ DownloadResolved(b)
        PROVE  UsedInv'
    <2>1. CASE StartDownload(b)
      BY <2>1 DEF StartDownload, UsedInv, Used
    <2>2. CASE DownloadResolved(b)
      <3>1. UNCHANGED <<state, prep, ready, child, lastSpawn, del>>
        BY <2>2 DEF DownloadResolved
      <3>2. CASE UNCHANGED <<job, raced>>
        BY <3>1, <3>2 DEF UsedInv, Used
      <3>3. CASE /\ job' = [build |-> b, step |-> "fetching", cancelled |-> FALSE]
                 /\ raced' = (raced \/ Installed(state, b))
        BY <1>0, <3>1, <3>3 DEF UsedInv, Used, Installed
      <3>4. QED
        BY <2>2, <3>2, <3>3 DEF DownloadResolved
    <2>3. QED
      BY <1>3, <2>1, <2>2
  <1>4. CASE DownloadFetched \/ DownloadMoved \/ DownloadDone \/ DownloadFails \/ CancelDownload
    <2>1. /\ job'.step \in {"fetching", "replacing", "moved"} =>
                 job'.build = job.build /\ job.step \in {"fetching", "replacing", "moved"}
          /\ UNCHANGED <<state, prep, ready, child, lastSpawn, del, raced>>
      <3>1. job \in [build : Targets, cancelled : BOOLEAN,
                    step : {"none", "fetching", "replacing", "moved", "saving"}]
        BY DEF TypeInv, TypeOK
      <3>2. QED
        BY <1>4, <3>1, IdleTypes DEF DownloadFetched, DownloadMoved, DownloadDone,
           DownloadFails, CancelDownload
    <2>2. QED
      BY <2>1 DEF UsedInv, Used
  <1>5. CASE DownloadInstalled
    <2>1. /\ state'.active = state.active /\ state.installed \subseteq state'.installed
          /\ job'.step = "saving" /\ UNCHANGED <<prep, ready, child, lastSpawn, del>>
          /\ raced' = (raced \/ Deleting)
      <3>1. job.step' = "saving"
        BY <1>5 DEF DownloadInstalled, TypeInv, TypeOK
      <3>2. QED
        BY <1>0, <1>5, <3>1 DEF DownloadInstalled, SetState, ApplyInstalled, States
    <2>2. QED
      BY <2>1 DEF UsedInv, Deleting
  <1>6. ASSUME NEW b \in Targets, Switch(ApplyActivate(state, b)) PROVE UsedInv'
    <2>1. /\ state'.installed = state.installed
          /\ UNCHANGED <<prep, ready, child, lastSpawn, del, job>>
          /\ raced' = (raced \/ Deleting \/ Spawning)
      BY <1>0, <1>6 DEF Switch, SetState, ApplyActivate, States
    <2>2. QED
      BY <2>1, IdleTypes DEF UsedInv, Deleting, Spawning
  <1>7. ASSUME NEW b \in Targets, Activate(b) PROVE UsedInv'
    BY <1>6, <1>7 DEF Activate
  <1>8. CASE Rollback
    <2>1. state.previous \in Targets
      BY <1>0 DEF States
    <2>2. QED
      BY <1>6, <1>8, <2>1 DEF Rollback
  <1>9. ASSUME NEW d \in Deletions, NEW b \in Builds, DeleteBuild(d, b) PROVE UsedInv'
    <2>1. /\ UNCHANGED <<state, prep, ready, child, lastSpawn, job, raced>>
          /\ del' = [del EXCEPT ![d] = [build |-> b, result |-> ApplyDeleted(state, b)]]
      BY <1>9 DEF DeleteBuild
    <2>2. ~raced => ~Used(b)
      BY <1>9, NothingAssumption DEF Targets, DeleteBuild, Deletable, Running, UsedInv, Used
    <2>3. ASSUME NEW e \in Deletions, del'[e] # Nothing, ~raced
          PROVE  del'[e].result = ApplyDeleted(state, del'[e].build) /\ ~Used(del'[e].build)
      BY <1>0, <2>1, <2>2, <2>3 DEF UsedInv
    <2>4. \A c \in Builds : Used(c)' <=> Used(c)
      BY <2>1 DEF Used
    <2>5. QED
      BY <2>1, <2>3, <2>4 DEF UsedInv, Used
  <1>10. ASSUME NEW d \in Deletions, DeleteFails(d) PROVE UsedInv'
    BY <1>0, <1>10 DEF DeleteFails, UsedInv, Used
  <1>11. ASSUME NEW d \in Deletions, DeleteEnds(d) PROVE UsedInv'
    <2>1. /\ state' = del[d].result /\ UNCHANGED <<prep, ready, child, lastSpawn, job>>
          /\ del' = [del EXCEPT ![d] = Nothing] /\ del[d] # Nothing
          /\ raced' = (raced \/ \E o \in Deletions \ {d} : del[o] # Nothing)
      BY <1>11 DEF DeleteEnds, SetState
    <2> DEFINE b == del[d].build
    <2>2. ~raced => state' = ApplyDeleted(state, b) /\ ~Used(b)
      BY <2>1 DEF UsedInv
    <2>3. ~raced => state'.active = state.active /\ state'.installed = state.installed \ {b}
      BY <1>0, <2>2 DEF ApplyDeleted, States
    <2>4. ~raced' => \A e \in Deletions : del'[e] = Nothing
      BY <1>0, <2>1
    <2>5. QED
      BY <2>1, <2>2, <2>3, <2>4 DEF UsedInv, Used
  \* The answer is the active build, or the panel's.
  <1>answer. ASSUME NEW b \in Targets, Answer(b), ~raced => b \in {Panel, state.active},
                    UNCHANGED <<state, job, del, raced>>
             PROVE  UsedInv'
    <2>1. /\ prep' = NoPrep /\ UNCHANGED <<child, lastSpawn>>
          /\ \A s \in Spawns : ready'[s] \in {ready[s], b}
      BY <1>answer, AnswerTypes DEF TypeInv
    <2>2. ~raced => \A s \in Spawns : ready'[s] \in {Nothing, Panel, state.active}
      BY <1>answer, <2>1 DEF UsedInv
    <2>3. ASSUME NEW c \in Builds, ~raced, Used(c)' PROVE Used(c)
      <3>1. c # Panel /\ c # Nothing /\ prep'.build # c
        BY <2>1, IdleTypes, NothingAssumption DEF Targets
      <3>2. \/ state'.active = c
            \/ \E s \in Spawns : ready'[s] = c
            \/ child' = "alive" /\ lastSpawn'.build = c
        BY <2>3, <3>1 DEF Used
      <3>3. QED
        BY <1>answer, <2>1, <2>2, <2>3, <3>1, <3>2 DEF Used
    <2>4. QED
      BY <1>answer, <1>0, <2>1, <2>2, <2>3, IdleTypes DEF UsedInv
  <1>12. CASE PrepareForSpawn
    <2>1. CASE state.active = Panel
      BY <1>0, <1>12, <1>answer, <2>1 DEF PrepareForSpawn, States
    <2>2. CASE state.active # Panel
      BY <1>12, <2>2 DEF PrepareForSpawn, UsedInv, Used
    <2>3. QED
      BY <2>1, <2>2
  <1>13. CASE MonitorIsCurrent \/ PrepareSaved \/ FallBackToHost
    <2>1. PICK b \in {prep.build, Panel} : Answer(b)
      BY <1>13 DEF MonitorIsCurrent, PrepareSaved, FallBackToHost
    <2>2. b \in Targets /\ (~raced => b \in {Panel, state.active})
      BY DEF TypeInv, TypeOK, UsedInv, Targets
    <2>3. UNCHANGED <<state, job, del, raced>>
      BY <1>13 DEF MonitorIsCurrent, PrepareSaved, FallBackToHost
    <2>4. QED
      BY <1>answer, <2>1, <2>2, <2>3
  <1>14. CASE CopyStarts \/ CopyEnds
    <2>1. prep.step # "idle" /\ prep.build \in Builds
          /\ prep \in [build : Targets, known : BOOLEAN,
                      step : {"idle", "checking", "copying", "saving"}]
      BY <1>14 DEF CopyStarts, CopyEnds, TypeInv, TypeOK, WorkNamed
    <2>2. CASE CopyStarts
      <3>1. /\ prep'.build = prep.build /\ prep'.step # "idle"
            /\ UNCHANGED <<state, ready, child, lastSpawn, job, del, raced>>
        BY <2>1, <2>2 DEF CopyStarts
      <3>2. QED
        BY <3>1 DEF UsedInv, Used
    <2>3. CASE CopyEnds /\ prep.known
      <3>1. /\ prep'.build = prep.build /\ prep'.step # "idle"
            /\ UNCHANGED <<ready, child, lastSpawn, job, del>>
        BY <2>1, <2>3 DEF CopyEnds
      <3>2. /\ state'.active = state.active
            /\ state'.installed = state.installed \cup {prep.build}
            /\ raced' = (raced \/ Deleting)
        BY <1>0, <2>3 DEF CopyEnds, SetState, ApplyInstalled, States
      <3>3. ~raced => prep.build \in state.installed
        BY <1>0, <2>1 DEF UsedInv, Consistent
      <3>4. QED
        BY <3>1, <3>2, <3>3 DEF UsedInv, Deleting
    <2>4. CASE CopyEnds /\ ~prep.known
      <3>1. /\ Answer(prep.build) /\ prep.build \in Targets
            /\ UNCHANGED <<state, job, del, raced>>
            /\ (~raced => prep.build \in {Panel, state.active})
        BY <2>1, <2>4 DEF CopyEnds, UsedInv
      <3>2. QED
        BY <1>answer, <3>1
    <2>5. QED
      BY <1>14, <2>2, <2>3, <2>4
  <1>15. ASSUME NEW s \in Spawns, SpawnFails(s) PROVE UsedInv'
    <2>1. /\ ready' = [ready EXCEPT ![s] = Nothing]
          /\ UNCHANGED <<state, prep, child, lastSpawn, job, del, raced>>
      BY <1>15 DEF SpawnFails
    <2>2. \A e \in Spawns : ready'[e] \in {ready[e], Nothing}
      BY <2>1 DEF TypeInv, TypeOK
    <2>3. \A c \in Builds : Used(c)' => Used(c)
      BY <2>1, <2>2, NothingAssumption DEF Used, Targets
    <2>4. QED
      BY <1>0, <2>1, <2>2, <2>3 DEF UsedInv
  <1>16. ASSUME NEW s \in Spawns, HandleSpawned(s) PROVE UsedInv'
    <2>1. /\ ready' = [ready EXCEPT ![s] = Nothing] /\ ready[s] # Nothing
          /\ child' = "alive" /\ lastSpawn'.build = ready[s]
          /\ UNCHANGED <<state, prep, job, del, raced>>
      BY <1>16 DEF HandleSpawned
    <2>2. \A e \in Spawns : ready'[e] \in {ready[e], Nothing}
      BY <2>1 DEF TypeInv, TypeOK
    <2>3. ~raced => ready[s] \in state.installed \cup {Panel}
      BY <1>0, <2>1 DEF UsedInv, Consistent
    <2>4. \A c \in Builds : Used(c)' => Used(c)
      BY <2>1, <2>2, NothingAssumption DEF Used, Targets
    <2>5. QED
      BY <1>0, <2>1, <2>2, <2>3, <2>4 DEF UsedInv
  <1>17. CASE ServerEnds
    BY <1>17 DEF ServerEnds, UsedInv, Used
  <1>18. CASE HandleBootCompleted
    <2>1. UNCHANGED <<prep, ready, child, job, del>> /\ lastSpawn'.build = lastSpawn.build
      BY <1>18 DEF HandleBootCompleted, TypeInv, TypeOK
    <2>2. CASE OnTrial(state, lastSpawn.build)
      <3>1. /\ state'.active = state.active /\ state'.installed = state.installed
            /\ raced' = (raced \/ Deleting)
        BY <1>0, <1>18, <2>2 DEF HandleBootCompleted, SetState, States
      <3>2. QED
        BY <2>1, <3>1 DEF UsedInv, Deleting
    <2>3. CASE ~OnTrial(state, lastSpawn.build)
      BY <1>18, <2>1, <2>3 DEF HandleBootCompleted, UsedInv, Used
    <2>4. QED
      BY <2>2, <2>3
  <1>19. CASE HandleBootFailed
    <2>1. /\ UNCHANGED <<prep, ready, child, job, del>> /\ lastSpawn'.build = lastSpawn.build
          /\ raced' = (raced \/ Deleting \/ Spawning)
      BY <1>19 DEF HandleBootFailed, TypeInv, TypeOK
    <2>2. state'.installed = state.installed
      BY <1>0, <1>19 DEF HandleBootFailed, SetState, ApplyBootFailed, States
    <2>3. QED
      BY <2>1, <2>2, IdleTypes DEF UsedInv, Deleting, Spawning
  <1>20. CASE UNCHANGED vars
    BY <1>20 DEF vars, UsedInv, Used
  <1>21. QED
    BY <1>1, <1>2, <1>3, <1>4, <1>5, <1>7, <1>8, <1>9, <1>10, <1>11, <1>12, <1>13, <1>14,
       <1>15, <1>16, <1>17, <1>18, <1>19, <1>20 DEF Next

\* The folder of a build that a server runs on, starts on or would start on is
\* never touched, unless a request overlapped with a change it had not seen.
THEOREM UsedBuildKeptSafe == Spec => UsedBuildKept
  <1> DEFINE Kept == \A b \in Builds : Used(b) /\ folder[b] = "whole" /\ ~raced
                                          => folder'[b] = "whole"
  <1>1. TypeInv /\ ChoicesInv /\ UsedInv /\ [Next]_vars => Kept
    <2> SUFFICES ASSUME TypeInv, ChoicesInv, UsedInv, [Next]_vars,
                        NEW b \in Builds, Used(b), folder[b] = "whole", ~raced
                 PROVE  folder'[b] = "whole"
      OBVIOUS
    <2> USE BuildsAssumption
    <2>0. /\ folder \in [Builds -> {"absent", "part", "whole"}] /\ Consistent(state)
      BY DEF TypeInv, TypeOK, ChoicesInv, ChoiceConsistent
    <2>a. b \in {state.active} \/ (child = "alive" /\ lastSpawn.build = b)
      BY NothingAssumption DEF UsedInv, Used, Targets
    <2>b. b \in state.installed
      BY <2>0, <2>a DEF UsedInv, Consistent
    <2>1. CASE folder' = folder
      BY <2>1
    <2>2. CASE DownloadFetched
      BY <2>0, <2>b, <2>2 DEF DownloadFetched, UsedInv
    <2>3. CASE DownloadMoved
      BY <2>0, <2>3 DEF DownloadMoved
    <2>4. ASSUME NEW d \in Deletions, NEW c \in Builds, DeleteBuild(d, c)
          PROVE  folder'[b] = "whole"
      <3>1. c # b
        BY <2>4, <2>a DEF DeleteBuild, Deletable, Running
      <3>2. QED
        BY <2>0, <2>4, <3>1 DEF DeleteBuild
    <2>5. ASSUME NEW d \in Deletions, DeleteEnds(d) PROVE folder'[b] = "whole"
      <3>1. del[d].build # b
        BY <2>5 DEF DeleteEnds, UsedInv
      <3>2. QED
        BY <2>0, <2>5, <3>1 DEF DeleteEnds
    <2>6. CASE CopyEnds
      BY <2>0, <2>6 DEF CopyEnds
    <2>7. QED
      BY <2>1, <2>2, <2>3, <2>4, <2>5, <2>6
         DEF Next, vars, diskVars, WriteState, PanelRestarts, StartDownload, DownloadResolved,
             DownloadInstalled, DownloadDone, DownloadFails, CancelDownload, Activate,
             Rollback, Switch, DeleteFails, PrepareForSpawn, MonitorIsCurrent, CopyStarts,
             PrepareSaved, FallBackToHost, HandleSpawned, SpawnFails, ServerEnds,
             HandleBootCompleted, HandleBootFailed
  <1>2. TypeInv /\ ChoicesInv /\ UsedInv /\ [Next]_vars => [Kept]_vars
    BY <1>1
  <1>3. QED
    BY <1>2, TypeInvInit, TypeInvStep, ChoicesInvInit, ChoicesInvStep, UsedInvInit,
       UsedInvStep, PTL DEF Spec, UsedBuildKept

-----------------------------------------------------------------------------
(* What a restart finds.                                                    *)

\* The state that a file stands for.
Base(file) == IF file = Nothing THEN EmptyState ELSE file

\* A folder with a marker, which a restart takes for a build.
Adoptable(b) == folder[b] = "whole" /\ marker[b] # Nothing

\* The newest snapshot that waits for the disk is the present state.
QueueLast == saveQueue # <<>> => saveQueue[Len(saveQueue)].state = state

\* When none waits and the last one was not lost, the file is at most behind in
\* the builds a restart has adopted since, whose folders are there.
FileBehind ==
    saveQueue = <<>> /\ ~saveFailed =>
        /\ \E extra \in SUBSET Builds :
               state = [Base(stateFile) EXCEPT !.installed = @ \cup extra]
        /\ ~raced => \A b \in state.installed \ Base(stateFile).installed :
                         folder[b] # "absent"

\* What a restart would adopt is on the list, or about to be put there.
AdoptableKnown ==
    ~raced => \A b \in Builds : Adoptable(b) =>
                  b \in state.installed \/ (job.step = "moved" /\ job.build = b)

FileInv == QueueLast /\ FileBehind /\ AdoptableKnown

LEMMA FileInvInit == Init => FileInv
  <1> SUFFICES ASSUME Init PROVE FileInv
    OBVIOUS
  <1>1. /\ saveQueue = <<>> /\ state = EmptyState /\ Base(stateFile) = EmptyState
        /\ \A b \in Builds : ~Adoptable(b)
    BY DEF Init, Base, Adoptable
  <1>2. EmptyState = [EmptyState EXCEPT !.installed = @ \cup {}]
    BY DEF EmptyState
  <1>3. QED
    BY <1>1, <1>2 DEF FileInv, QueueLast, FileBehind, AdoptableKnown

\* A change of the state queues it, so the file has to catch up.
LEMMA SetStateQueued ==
    ASSUME TypeOK, NEW s, NEW w, SetState(s, w)
    PROVE  QueueLast' /\ FileBehind'
  <1>1. saveQueue \in Seq([state : States, waiter : Waiters])
    BY DEF TypeOK
  <1>2. /\ saveQueue' = Append(saveQueue, [state |-> s, waiter |-> w]) /\ state' = s
    BY DEF SetState
  <1>3. /\ Len(saveQueue') = Len(saveQueue) + 1
        /\ saveQueue'[Len(saveQueue) + 1] = [state |-> s, waiter |-> w]
        /\ saveQueue' # <<>>
    BY <1>1, <1>2
  <1>4. QED
    BY <1>2, <1>3 DEF QueueLast, FileBehind

LEMMA FileInvStep == TypeInv /\ ChoicesInv /\ UsedInv /\ FileInv /\ [Next]_vars => FileInv'
  <1> SUFFICES ASSUME TypeInv, ChoicesInv, UsedInv, FileInv, [Next]_vars PROVE FileInv'
    OBVIOUS
  <1> USE BuildsAssumption DEF diskVars, jobVars, spawnVars
  <1>0. /\ TypeOK /\ state \in States /\ Consistent(state) /\ raced \in BOOLEAN
        /\ stateFile \in States \cup {Nothing} /\ Base(stateFile) \in States
        /\ Consistent(Base(stateFile)) /\ state.installed \subseteq Builds
        /\ del \in [Deletions -> [build : Builds, result : States] \cup {Nothing}]
        /\ folder \in [Builds -> {"absent", "part", "whole"}]
        /\ marker \in [Builds -> Versions \cup {Nothing}]
        /\ version \in Versions /\ version # Nothing
        /\ job \in [build : Targets, cancelled : BOOLEAN,
                    step : {"none", "fetching", "replacing", "moved", "saving"}]
    BY EmptyStateType, EmptyConsistent
       DEF TypeInv, TypeOK, ChoicesInv, ChoiceConsistent, Base, States
  \* Steps that leave the state and its file alone.
  <1>1. ASSUME UNCHANGED <<state, saveQueue, stateFile, saveFailed>>, ~raced' => ~raced,
               \A b \in state.installed : folder[b] # "absent"
                   /\ (saveQueue = <<>> /\ ~saveFailed /\ ~raced => b \notin Base(stateFile).installed)
                   => folder'[b] # "absent"
        PROVE  QueueLast' /\ FileBehind'
    <2>1. QueueLast'
      BY <1>1 DEF FileInv, QueueLast
    <2>2. Base(stateFile)' = Base(stateFile)
      BY <1>1 DEF Base
    <2>3. QED
      BY <1>1, <2>1, <2>2 DEF FileInv, FileBehind
  \* Steps that leave the folders alone, too.
  <1>2. ASSUME UNCHANGED <<folder, marker>>
        PROVE  \A b \in Builds : Adoptable(b)' <=> Adoptable(b)
    BY <1>2 DEF Adoptable
  <1>3. ASSUME UNCHANGED <<state, saveQueue, stateFile, saveFailed, folder, marker>>,
               ~raced' => ~raced,
               job.step = "moved" => job' = job
        PROVE  FileInv'
    <2>1. \A b \in Builds : Adoptable(b)' <=> Adoptable(b)
      BY <1>2, <1>3
    <2>2. QueueLast' /\ FileBehind'
      BY <1>0, <1>1, <1>3, <2>1
    <2>3. AdoptableKnown'
      BY <1>3, <2>1 DEF FileInv, AdoptableKnown
    <2>4. QED
      BY <2>2, <2>3 DEF FileInv
  \* Changes of the state that take no build off the list.
  <1>4. ASSUME NEW s, NEW w, SetState(s, w), state.installed \subseteq s.installed,
               UNCHANGED <<folder, marker>>, ~raced' => ~raced,
               job.step = "moved" => job' = job \/ job.build \in s.installed
        PROVE  FileInv'
    <2>1. \A b \in Builds : Adoptable(b)' <=> Adoptable(b)
      BY <1>2, <1>4
    <2>2. QueueLast' /\ FileBehind'
      BY <1>0, <1>4, SetStateQueued
    <2>3. AdoptableKnown'
      BY <1>4, <2>1 DEF FileInv, AdoptableKnown, SetState
    <2>4. QED
      BY <2>2, <2>3 DEF FileInv
  <1>5. CASE WriteState
    <2>1. /\ saveQueue \in Seq([state : States, waiter : Waiters]) /\ saveQueue # <<>>
          /\ saveQueue' = Tail(saveQueue)
          /\ UNCHANGED <<state, folder, marker, job, raced>>
      BY <1>0, <1>5 DEF WriteState, TypeOK
    <2>2. AdoptableKnown'
      <3>1. \A b \in Builds : Adoptable(b)' <=> Adoptable(b)
        BY <1>2, <2>1
      <3>2. QED
        BY <2>1, <3>1 DEF FileInv, AdoptableKnown
    <2>3. QueueLast'
      <3>1. saveQueue' # <<>> => saveQueue'[Len(saveQueue')] = saveQueue[Len(saveQueue)]
        BY <2>1
      <3>2. QED
        BY <2>1, <3>1 DEF FileInv, QueueLast
    <2>4. FileBehind'
      <3> SUFFICES ASSUME saveQueue' = <<>>, ~saveFailed' PROVE FileBehind'
        BY DEF FileBehind
      <3>1. Head(saveQueue) = saveQueue[Len(saveQueue)]
        BY <2>1
      <3>2. stateFile' = state
        BY <1>5, <2>1, <3>1 DEF WriteState, FileInv, QueueLast
      <3>3. Base(stateFile)' = state' /\ state' = state
        BY <1>0, <2>1, <3>2, NothingAssumption DEF Base
      <3>4. state = [state EXCEPT !.installed = @ \cup {}]
        BY <1>0 DEF States
      <3>5. QED
        BY <3>3, <3>4 DEF FileBehind
    <2>5. QED
      BY <2>2, <2>3, <2>4 DEF FileInv
  <1>6. CASE PanelRestarts
    <2>1. /\ stateFile' \in States \cup {Nothing} /\ state' \in LoadedStates(stateFile')
          /\ saveQueue' = <<>> /\ UNCHANGED <<folder, marker>>
      BY <1>0, <1>6 DEF PanelRestarts
    <2>2. \A b \in Builds : Adoptable(b)' <=> Adoptable(b)
      BY <1>2, <2>1
    <2> DEFINE base == Base(stateFile')
    <2>3. base \in States
      BY <2>1, EmptyStateType DEF Base
    <2>4. PICK more \in SUBSET {b \in Builds : folder[b] # "absent"} :
              state' = [base EXCEPT !.installed = @ \cup {b \in Builds : Adoptable(b)} \cup more]
      BY <2>1 DEF LoadedStates, Base, Adoptable
    <2> DEFINE extra == {b \in Builds : Adoptable(b)} \cup more
    <2>5. /\ state' = [base EXCEPT !.installed = @ \cup extra]
          /\ state'.installed = base.installed \cup extra
      BY <2>3, <2>4 DEF States
    <2>6. Base(stateFile)' = base
      BY DEF Base
    <2>7. extra \in SUBSET Builds /\ \A b \in extra : folder[b] # "absent"
      BY DEF Adoptable
    <2>8. FileBehind'
      <3>1. \A b \in state'.installed \ base.installed : folder'[b] # "absent"
        <4> SUFFICES ASSUME NEW b \in extra PROVE folder'[b] # "absent"
          BY <2>5
        <4>1. QED
          BY <2>1, <2>2, <2>7
      <3>2. QED
        BY <2>5, <2>6, <2>7, <3>1 DEF FileBehind
    <2>9. AdoptableKnown'
      BY <2>2, <2>5 DEF AdoptableKnown
    <2>10. QED
      BY <2>1, <2>8, <2>9 DEF FileInv, QueueLast
  <1>7. ASSUME NEW b \in Builds, StartDownload(b) \/ DownloadResolved(b)
        PROVE  FileInv'
    <2>1. /\ UNCHANGED <<state, saveQueue, stateFile, saveFailed, folder, marker>>
          /\ job = NoJob \/ job' = job
          /\ (~raced' => ~raced)
      BY <1>0, <1>7 DEF StartDownload, DownloadResolved
    <2>2. QED
      BY <1>3, <2>1, IdleTypes
  <1>8. CASE DownloadFetched
    <2>1. /\ UNCHANGED <<state, saveQueue, stateFile, saveFailed, raced, marker>>
          /\ folder' = [folder EXCEPT ![job.build] = IF @ = "absent" THEN @ ELSE "part"]
          /\ job.step = "fetching"
      BY <1>8 DEF DownloadFetched
    <2>2. \A b \in Builds : /\ Adoptable(b)' => Adoptable(b)
                            /\ folder[b] # "absent"
                                   => folder'[b] # "absent"
      BY <1>0, <2>1 DEF Adoptable
    <2>3. QueueLast' /\ FileBehind'
      BY <1>0, <1>1, <2>1, <2>2
    <2>4. AdoptableKnown'
      BY <2>1, <2>2 DEF FileInv, AdoptableKnown
    <2>5. QED
      BY <2>3, <2>4 DEF FileInv
  <1>9. CASE DownloadMoved
    <2>1. /\ UNCHANGED <<state, saveQueue, stateFile, saveFailed, raced>>
          /\ folder' = [folder EXCEPT ![job.build] = "whole"]
          /\ marker' = [marker EXCEPT ![job.build] = version]
          /\ job.step = "replacing" /\ job'.step = "moved" /\ job'.build = job.build
      BY <1>0, <1>9 DEF DownloadMoved
    <2>2. \A b \in Builds : /\ Adoptable(b)' => Adoptable(b) \/ b = job.build
                            /\ folder[b] # "absent"
                                   => folder'[b] # "absent"
      BY <1>0, <2>1 DEF Adoptable
    <2>3. QueueLast' /\ FileBehind'
      BY <1>0, <1>1, <2>1, <2>2
    <2>4. AdoptableKnown'
      BY <2>1, <2>2 DEF FileInv, AdoptableKnown
    <2>5. QED
      BY <2>3, <2>4 DEF FileInv
  <1>10. CASE DownloadInstalled
    <2>1. /\ SetState(ApplyInstalled(state, job.build), "job") /\ UNCHANGED <<folder, marker>>
          /\ raced' = (raced \/ Deleting)
      BY <1>10 DEF DownloadInstalled
    <2>2. ApplyInstalled(state, job.build).installed = state.installed \cup {job.build}
      BY <1>0 DEF ApplyInstalled, States
    <2>3. QED
      BY <1>4, <2>1, <2>2
  <1>11. CASE DownloadDone \/ DownloadFails \/ CancelDownload
    BY <1>3, <1>11 DEF DownloadDone, DownloadFails, CancelDownload
  <1>12. ASSUME NEW b \in Targets, Switch(ApplyActivate(state, b)) PROVE FileInv'
    <2>1. ApplyActivate(state, b).installed = state.installed
      BY <1>0 DEF ApplyActivate, States
    <2>2. QED
      BY <1>0, <1>4, <1>12, <2>1 DEF Switch
  <1>13. ASSUME NEW b \in Targets, Activate(b) PROVE FileInv'
    BY <1>12, <1>13 DEF Activate
  <1>14. CASE Rollback
    <2>1. state.previous \in Targets
      BY <1>0 DEF States
    <2>2. QED
      BY <1>12, <1>14, <2>1 DEF Rollback
  <1>15. ASSUME NEW d \in Deletions, NEW c \in Builds, DeleteBuild(d, c) PROVE FileInv'
    <2>1. /\ UNCHANGED <<state, saveQueue, stateFile, saveFailed, raced, job>>
          /\ folder' = [folder EXCEPT ![c] = IF @ = "absent" THEN @ ELSE "part"]
          /\ marker' \in {marker, [marker EXCEPT ![c] = Nothing]}
      BY <1>15 DEF DeleteBuild
    <2>2. \A b \in Builds : /\ Adoptable(b)' => Adoptable(b)
                            /\ folder[b] # "absent"
                                   => folder'[b] # "absent"
      BY <1>0, <2>1 DEF Adoptable
    <2>3. QueueLast' /\ FileBehind'
      BY <1>0, <1>1, <2>1, <2>2
    <2>4. AdoptableKnown'
      BY <2>1, <2>2 DEF FileInv, AdoptableKnown
    <2>5. QED
      BY <2>3, <2>4 DEF FileInv
  <1>16. ASSUME NEW d \in Deletions, DeleteFails(d) PROVE FileInv'
    BY <1>3, <1>16 DEF DeleteFails
  <1>17. ASSUME NEW d \in Deletions, DeleteEnds(d) PROVE FileInv'
    <2> DEFINE c == del[d].build
    <2>1. /\ SetState(del[d].result, "none") /\ del[d] # Nothing /\ c \in Builds
          /\ folder' = [folder EXCEPT ![c] = "absent"]
          /\ marker' = [marker EXCEPT ![c] = Nothing]
          /\ job' = job /\ (~raced' => ~raced)
      BY <1>0, <1>17 DEF DeleteEnds
    <2>2. QueueLast' /\ FileBehind'
      BY <1>0, <2>1, SetStateQueued
    <2>3. \A b \in Builds : Adoptable(b)' => Adoptable(b) /\ b # c
      BY <1>0, <2>1 DEF Adoptable
    <2>4. ~raced => state'.installed = state.installed \ {c}
      <3>1. ~raced => state' = ApplyDeleted(state, c)
        BY <2>1 DEF UsedInv, SetState
      <3>2. ApplyDeleted(state, c).installed = state.installed \ {c}
        BY <1>0 DEF ApplyDeleted, States
      <3>3. QED
        BY <3>1, <3>2
    <2>5. AdoptableKnown'
      BY <2>1, <2>3, <2>4 DEF FileInv, AdoptableKnown
    <2>6. QED
      BY <2>2, <2>5 DEF FileInv
  <1>18. CASE PrepareForSpawn \/ MonitorIsCurrent \/ PrepareSaved \/ FallBackToHost
              \/ (\E s \in Spawns : HandleSpawned(s) \/ SpawnFails(s)) \/ ServerEnds
    BY <1>3, <1>18 DEF PrepareForSpawn, MonitorIsCurrent, PrepareSaved,
                       FallBackToHost, SpawnFails, HandleSpawned, ServerEnds
  \* The build that is prepared is the active one, so it was on the list when
  \* the file was written.
  <1>19. ASSUME prep.build \in Builds
         PROVE  /\ ~raced => prep.build \in state.installed
                /\ ~raced /\ saveQueue = <<>> /\ ~saveFailed
                       => prep.build \in Base(stateFile).installed
    <2>1. ~raced => prep.build = state.active
      BY <1>19 DEF UsedInv
    <2>2. saveQueue = <<>> /\ ~saveFailed => state.active = Base(stateFile).active
      BY <1>0 DEF FileInv, FileBehind, States
    <2>3. QED
      BY <1>0, <1>19, <2>1, <2>2 DEF Consistent
  <1>20. CASE CopyStarts
    <2>1. /\ UNCHANGED <<state, saveQueue, stateFile, saveFailed, raced, folder, job>>
          /\ marker' = [marker EXCEPT ![prep.build] = Nothing] /\ prep.build \in Builds
      BY <1>20 DEF CopyStarts, TypeInv, WorkNamed
    <2>2. \A b \in Builds : /\ Adoptable(b)' => Adoptable(b)
                            /\ b # prep.build /\ folder[b] # "absent"
                                   => folder'[b] # "absent"
      BY <1>0, <2>1 DEF Adoptable
    <2>3. QueueLast' /\ FileBehind'
      <3>1. QueueLast' /\ Base(stateFile)' = Base(stateFile)
        BY <2>1 DEF FileInv, QueueLast, Base
      <3>2. ~raced /\ saveQueue = <<>> /\ ~saveFailed =>
                \A b \in state.installed \ Base(stateFile).installed :
                    folder'[b] # "absent"
        BY <1>0, <1>19, <2>1, <2>2 DEF FileInv, FileBehind
      <3>3. QED
        BY <2>1, <3>1, <3>2 DEF FileInv, FileBehind
    <2>4. AdoptableKnown'
      BY <2>1, <2>2 DEF FileInv, AdoptableKnown
    <2>5. QED
      BY <2>3, <2>4 DEF FileInv
  <1>21. CASE CopyEnds
    <2>1. /\ prep.build \in Builds /\ UNCHANGED <<stateFile, saveFailed, job>>
          /\ folder' = [folder EXCEPT ![prep.build] = IF @ = "absent" THEN "part" ELSE @]
          /\ marker' = [marker EXCEPT ![prep.build] = version]
      BY <1>21 DEF CopyEnds, TypeInv, WorkNamed
    <2>2. \A b \in Builds : /\ Adoptable(b)' => Adoptable(b) \/ b = prep.build
                            /\ folder[b] # "absent"
                                   => folder'[b] # "absent"
      BY <1>0, <2>1 DEF Adoptable
    <2>3. CASE prep.known
      <3>1. /\ SetState(ApplyInstalled(state, prep.build), "spawn")
            /\ raced' = (raced \/ Deleting)
        BY <1>21, <2>3 DEF CopyEnds
      <3>2. QueueLast' /\ FileBehind'
        BY <1>0, <3>1, SetStateQueued
      <3>3. state'.installed = state.installed \cup {prep.build}
        BY <1>0, <3>1 DEF SetState, ApplyInstalled, States
      <3>4. AdoptableKnown'
        BY <2>1, <2>2, <3>1, <3>3 DEF FileInv, AdoptableKnown
      <3>5. QED
        BY <3>2, <3>4 DEF FileInv
    <2>4. CASE ~prep.known
      <3>1. UNCHANGED <<state, saveQueue, raced>>
        BY <1>21, <2>4 DEF CopyEnds
      <3>2. QueueLast' /\ FileBehind'
        BY <1>0, <1>1, <2>1, <2>2, <3>1
      <3>3. AdoptableKnown'
        BY <1>19, <2>1, <2>2, <3>1 DEF FileInv, AdoptableKnown
      <3>4. QED
        BY <3>2, <3>3 DEF FileInv
    <2>5. QED
      BY <2>3, <2>4
  <1>22. CASE HandleBootCompleted
    <2>1. CASE OnTrial(state, lastSpawn.build)
      <3>1. [state EXCEPT !.pending = NoPending].installed = state.installed
        BY <1>0 DEF States
      <3>2. QED
        BY <1>4, <1>22, <2>1, <3>1 DEF HandleBootCompleted
    <2>2. CASE ~OnTrial(state, lastSpawn.build)
      BY <1>3, <1>22, <2>2 DEF HandleBootCompleted
    <2>3. QED
      BY <2>1, <2>2
  <1>23. CASE HandleBootFailed
    <2>1. ApplyBootFailed(state, lastSpawn.build).installed = state.installed
      BY <1>0 DEF ApplyBootFailed, States
    <2>2. QED
      BY <1>0, <1>4, <1>23, <2>1 DEF HandleBootFailed
  <1>24. CASE UNCHANGED vars
    BY <1>3, <1>24 DEF vars
  <1>25. QED
    BY <1>5, <1>6, <1>7, <1>8, <1>9, <1>10, <1>11, <1>13, <1>14, <1>15, <1>16, <1>17, <1>18,
       <1>20, <1>21, <1>22, <1>23, <1>24 DEF Next

\* Once nothing is under way, and no write was lost, a panel that restarts may
\* find the state it had: nothing but the builds it would adopt is missing from
\* the file.
THEOREM RestartKeepsStateSafe == Spec => []RestartKeepsState
  <1>1. TypeInv /\ FileInv => RestartKeepsState
    <2> SUFFICES ASSUME TypeInv, FileInv, Quiet, ~saveFailed, ~raced
                 PROVE  state \in LoadedStates(stateFile)
      BY DEF RestartKeepsState
    <2> DEFINE base    == Base(stateFile)
               adopted == {b \in Builds : Adoptable(b)}
               more    == state.installed \cap ({b \in Builds : folder[b] # "absent"} \ adopted)
    <2>1. /\ base \in States /\ saveQueue = <<>> /\ job.step = "none"
          /\ state.installed \subseteq Builds
      BY EmptyStateType, IdleTypes DEF TypeInv, TypeOK, Base, Quiet, States
    <2>2. adopted \subseteq state.installed
      BY <2>1 DEF FileInv, AdoptableKnown
    <2>3. PICK extra \in SUBSET Builds : state = [base EXCEPT !.installed = @ \cup extra]
      BY <2>1 DEF FileInv, FileBehind
    <2>4. state.installed = base.installed \cup adopted \cup more
      <3>1. base.installed \subseteq state.installed
        BY <2>1, <2>3 DEF States
      <3>2. \A b \in state.installed \ base.installed : b \in adopted \cup more
        BY <2>1 DEF FileInv, FileBehind
      <3>3. QED
        BY <2>2, <3>1, <3>2
    <2>5. state = [base EXCEPT !.installed = @ \cup adopted \cup more]
      BY <2>1, <2>3, <2>4 DEF States
    <2>6. QED
      BY <2>5 DEF LoadedStates, Base, Adoptable
  <1>2. QED
    BY <1>1, TypeInvInit, TypeInvStep, ChoicesInvInit, ChoicesInvStep, UsedInvInit,
       UsedInvStep, FileInvInit, FileInvStep, PTL DEF Spec

-----------------------------------------------------------------------------
(* The refinement of BuildSwitch.                                           *)

\* What a change of the state does to the choice.
LEMMA ChoiceOfChange ==
    ASSUME NEW s \in States
    PROVE  /\ \A b \in Targets :
                 Choice(ApplyActivate(s, b)) = [active |-> b, previous |-> s.active,
                                                trial |-> IF b = Panel THEN "none" ELSE "new"]
           /\ \A b \in Builds : Choice(ApplyInstalled(s, b)) = Choice(s)
           /\ Choice([s EXCEPT !.pending = NoPending]) = [Choice(s) EXCEPT !.trial = "none"]
           /\ \A more \in SUBSET Builds : Choice([s EXCEPT !.installed = @ \cup more]) = Choice(s)
  <1> USE BuildsAssumption
  <1>1. ASSUME NEW b \in Targets
        PROVE  Choice(ApplyActivate(s, b)) = [active |-> b, previous |-> s.active,
                                              trial |-> IF b = Panel THEN "none" ELSE "new"]
    <2>1. CASE b = Panel
      BY <2>1 DEF ApplyActivate, Choice, States
    <2>2. CASE b # Panel
      <3>1. [build |-> b, failures |-> 0] # NoPending
        BY <2>2 DEF NoPending
      <3>2. QED
        BY <2>2, <3>1 DEF ApplyActivate, Choice, States
    <2>3. QED
      BY <2>1, <2>2
  <1>2. ASSUME NEW b \in Builds PROVE Choice(ApplyInstalled(s, b)) = Choice(s)
    BY DEF ApplyInstalled, Choice, States
  <1>3. Choice([s EXCEPT !.pending = NoPending]) = [Choice(s) EXCEPT !.trial = "none"]
    BY DEF Choice, States
  <1>4. ASSUME NEW more \in SUBSET Builds
        PROVE  Choice([s EXCEPT !.installed = @ \cup more]) = Choice(s)
    BY DEF Choice, States
  <1>5. QED
    BY <1>1, <1>2, <1>3, <1>4

\* A deletion of another build than the active one forgets at most the
\* previous choice.
LEMMA ChoiceOfDeletion ==
    ASSUME NEW s \in States, Consistent(s), NEW b \in Builds, s.active # b
    PROVE  \E p \in {Choice(s).previous, Panel} :
               Choice(ApplyDeleted(s, b)) = [Choice(s) EXCEPT !.previous = p]
  <1> USE BuildsAssumption
  <1>1. s.pending.build # b
    BY DEF Consistent
  <1>2. /\ ApplyDeleted(s, b).active = s.active
        /\ ApplyDeleted(s, b).pending = s.pending
        /\ ApplyDeleted(s, b).previous = IF s.previous = b THEN Panel ELSE s.previous
    BY <1>1 DEF ApplyDeleted, States
  <1>3. QED
    BY <1>2 DEF Choice

\* A failed boot of the build on trial.
LEMMA ChoiceOfFailure ==
    ASSUME NEW s \in States, NEW b \in Builds, OnTrial(s, b), s.active = b
    PROVE  \/ /\ Choice(s).trial = "new"
              /\ Choice(ApplyBootFailed(s, b)) = [Choice(s) EXCEPT !.trial = "failed"]
           \/ /\ Choice(s).trial = "failed"
              /\ \E t \in {Choice(s).previous, Panel} :
                    Choice(ApplyBootFailed(s, b)) =
                        [active |-> t, previous |-> Choice(s).active, trial |-> "none"]
  <1> USE BuildsAssumption
  <1>1. /\ s.pending \in [build : Targets, failures : 0 .. MAX_BOOT_FAILURES - 1]
        /\ s.pending.build = b /\ b # Panel /\ s.pending # NoPending
    BY DEF States, OnTrial, NoPending
  <1>2. CASE s.pending.failures = 0
    <2>1. ApplyBootFailed(s, b) = [s EXCEPT !.pending = [s.pending EXCEPT !.failures = @ + 1]]
      BY <1>2 DEF ApplyBootFailed, States, MAX_BOOT_FAILURES
    <2> DEFINE p == [s.pending EXCEPT !.failures = @ + 1]
    <2>2. p.failures = 1 /\ p.build = b
      BY <1>1, <1>2
    <2>3. p # NoPending
      BY <1>1, <2>2 DEF NoPending
    <2>4. Choice(ApplyBootFailed(s, b)) = [Choice(s) EXCEPT !.trial = "failed"]
      BY <1>1, <2>1, <2>2, <2>3 DEF Choice, States
    <2>5. QED
      BY <1>1, <1>2, <2>4 DEF Choice
  <1>3. CASE s.pending.failures = 1
    <2>1. ApplyBootFailed(s, b) = [s EXCEPT !.active = RevertTarget(s), !.previous = b,
                                            !.pending = NoPending]
      BY <1>3 DEF ApplyBootFailed, MAX_BOOT_FAILURES
    <2>2. RevertTarget(s) \in {s.previous, Panel}
      BY DEF RevertTarget
    <2>3. Choice(ApplyBootFailed(s, b)) =
              [active |-> RevertTarget(s), previous |-> s.active, trial |-> "none"]
      BY <2>1 DEF Choice, States
    <2>4. QED
      BY <1>1, <1>3, <2>2, <2>3 DEF Choice
  <1>4. QED
    BY <1>1, <1>2, <1>3 DEF MAX_BOOT_FAILURES

\* What is kept after a change of the state is what was kept, and the choice.
LEMMA KeptAfterChange ==
    ASSUME TypeOK, NEW s \in States, NEW w \in Waiters, SetState(s, w), stateFile' = stateFile,
           \A d \in Deletions : del'[d] # Nothing => del'[d] = del[d]
    PROVE  KeptChoices' \subseteq KeptChoices \cup {Choice(state)'}
  <1> DEFINE Q == {saveQueue[i].state : i \in DOMAIN saveQueue}
             D == {del[d].result : d \in {o \in Deletions : del[o] # Nothing}}
  <1>1. Q' \subseteq Q \cup {s}
    <2>1. saveQueue \in Seq([state : States, waiter : Waiters])
      BY DEF TypeOK
    <2>2. \A i \in DOMAIN saveQueue' :
              \/ i \in DOMAIN saveQueue /\ saveQueue'[i] = saveQueue[i]
              \/ saveQueue'[i] = [state |-> s, waiter |-> w]
      BY <2>1 DEF SetState
    <2>3. QED
      BY <2>2
  <1>2. D' \subseteq D
    OBVIOUS
  <1>3. ASSUME NEW k \in KeptChoices' PROVE k \in KeptChoices \cup {Choice(state)'}
    <2>1. PICK t \in ({stateFile} \ {Nothing})' \cup Q' \cup D' : k = Choice(t)
      BY DEF KeptChoices, Choice
    <2>2. t \in ({stateFile} \ {Nothing}) \cup Q \cup D \/ t = state'
      BY <1>1, <1>2, <2>1 DEF SetState
    <2>3. QED
      BY <2>1, <2>2 DEF KeptChoices, Choice
  <1>4. QED
    BY <1>3

\* A step of FxBuilds is a step of BuildSwitch.
LEMMA SwitchStep ==
    TypeInv /\ ChoicesInv /\ [Next]_vars
        => [Switched!Next]_<<Choice(state), KeptChoices>>
  <1> SUFFICES ASSUME TypeInv, ChoicesInv, [Next]_vars
               PROVE  Switched!Next \/ UNCHANGED <<Choice(state), KeptChoices>>
    OBVIOUS
  <1> USE BuildsAssumption DEF diskVars, jobVars, spawnVars
  <1> DEFINE now == Choice(state)
             K   == KeptChoices
  <1>0. /\ TypeOK /\ state \in States /\ Consistent(state) /\ Targets = Builds \cup {Panel}
        /\ Builds \subseteq Targets /\ Panel \in Targets
        /\ "none" \in Waiters /\ "job" \in Waiters /\ "spawn" \in Waiters
        /\ del \in [Deletions -> [build : Builds, result : States] \cup {Nothing}]
    BY DEF TypeInv, TypeOK, Waiters, Targets, ChoicesInv, ChoiceConsistent
  <1>1. ASSUME K' \subseteq K \cup {now'},
               \/ now' = now
               \/ Switched!Switch \/ Switched!Verify \/ Switched!Fail \/ Switched!Revert
               \/ now' \in K \cup {Switched!Default}
        PROVE  Switched!Next
    <2>1. \A k \in K' : k \in K \/ \E p \in {now.previous, Panel} :
                           k \in {now', [now EXCEPT !.previous = p]}
      BY <1>1
    <2>2. QED
      BY <1>1, <2>1 DEF Switched!Next, Switched!ComeBack
  <1>2. CASE UNCHANGED <<state, saveQueue, stateFile, del>>
    BY <1>2 DEF KeptChoices, Choice
  <1>3. CASE WriteState
    <2>1. saveQueue \in Seq([state : States, waiter : Waiters]) /\ saveQueue # <<>>
      BY <1>0, <1>3 DEF WriteState, TypeOK
    <2>2. /\ 1 \in DOMAIN saveQueue /\ Head(saveQueue) = saveQueue[1]
          /\ \A i \in DOMAIN Tail(saveQueue) :
                 i + 1 \in DOMAIN saveQueue /\ Tail(saveQueue)[i] = saveQueue[i + 1]
      BY <2>1
    <2>3. /\ saveQueue' = Tail(saveQueue) /\ state' = state /\ del' = del
          /\ stateFile' = stateFile \/ stateFile' = Head(saveQueue).state
      BY <1>3 DEF WriteState
    <2>4. K' \subseteq K
      BY <2>2, <2>3 DEF KeptChoices, Choice
    <2>5. now' = now
      BY <2>3 DEF Choice
    <2>6. QED
      BY <1>1, <2>4, <2>5
  <1>4. CASE PanelRestarts
    <2>1. /\ stateFile' \in {stateFile, Nothing} /\ state' \in LoadedStates(stateFile')
          /\ saveQueue' = <<>> /\ del' = [d \in Deletions |-> Nothing]
          /\ stateFile' \in States \cup {Nothing}
      BY <1>0, <1>4 DEF PanelRestarts, TypeOK
    <2> DEFINE base == IF stateFile' = Nothing THEN EmptyState ELSE stateFile'
    <2>2. base \in States
      BY <2>1, EmptyStateType
    <2>3. PICK more \in SUBSET Builds : state' = [base EXCEPT !.installed = @ \cup more]
      BY <2>1, LoadedTypes
    <2>4. now' = Choice(base)
      <3>1. Choice(state') = Choice(base)
        BY <2>2, <2>3, ChoiceOfChange
      <3>2. QED
        BY <3>1 DEF Choice
    <2>5. Choice(EmptyState) = Switched!Default
      BY DEF Choice, EmptyState, Switched!Default
    <2>6. stateFile' # Nothing => Choice(stateFile') \in K
      BY <2>1 DEF KeptChoices
    <2>7. now' \in K \cup {Switched!Default}
      BY <2>4, <2>5, <2>6
    <2>8. K' \subseteq K
      BY <2>1 DEF KeptChoices, Choice
    <2>9. QED
      BY <1>1, <2>7, <2>8
  <1>5. ASSUME NEW s \in States, NEW w \in Waiters, SetState(s, w), stateFile' = stateFile,
               \A d \in Deletions : del'[d] # Nothing => del'[d] = del[d]
        PROVE  /\ K' \subseteq K \cup {now'}
               /\ now' = Choice(s)
    <2>1. K' \subseteq K \cup {now'}
      BY <1>0, <1>5, KeptAfterChange
    <2>2. now' = Choice(s)
      BY <1>5 DEF SetState, Choice
    <2>3. QED
      BY <2>1, <2>2
  <1>6. CASE DownloadInstalled
    <2>1. ApplyInstalled(state, job.build) \in States /\ job.build \in Builds
      BY <1>0, <1>6, StateTypes DEF DownloadInstalled, TypeInv, WorkNamed
    <2>2. /\ SetState(ApplyInstalled(state, job.build), "job")
          /\ stateFile' = stateFile /\ del' = del
      BY <1>6 DEF DownloadInstalled
    <2>3. K' \subseteq K \cup {now'} /\ now' = Choice(ApplyInstalled(state, job.build))
      BY <1>0, <1>5, <2>1, <2>2
    <2>4. Choice(ApplyInstalled(state, job.build)) = now
      BY <1>0, <2>1, ChoiceOfChange
    <2>5. QED
      BY <1>1, <2>3, <2>4
  <1>7. ASSUME NEW b \in Targets, b # state.active, Switch(ApplyActivate(state, b))
        PROVE  Switched!Next
    <2>1. ApplyActivate(state, b) \in States
      BY <1>0, StateTypes
    <2>2. /\ K' \subseteq K \cup {now'}
          /\ now' = [active |-> b, previous |-> state.active,
                     trial |-> IF b = Panel THEN "none" ELSE "new"]
      BY <1>0, <1>5, <1>7, <2>1, ChoiceOfChange DEF Switch
    <2>3. Switched!Switch
      BY <1>0, <1>7, <2>2 DEF Switched!Switch, Choice
    <2>4. QED
      BY <1>1, <2>2, <2>3
  <1>8. ASSUME NEW b \in Targets, Activate(b) PROVE Switched!Next
    BY <1>7, <1>8 DEF Activate
  <1>9. CASE Rollback
    <2>1. state.previous \in Targets
      BY <1>0 DEF States
    <2>2. QED
      BY <1>7, <1>9, <2>1 DEF Rollback, CanRollback
  <1>10. ASSUME NEW d \in Deletions, NEW b \in Builds, DeleteBuild(d, b)
         PROVE  Switched!Next
    <2>1. /\ UNCHANGED <<state, saveQueue, stateFile>> /\ state.active # b
          /\ del' = [del EXCEPT ![d] = [build |-> b, result |-> ApplyDeleted(state, b)]]
      BY <1>10 DEF DeleteBuild, Deletable
    <2>2. PICK p \in {now.previous, Panel} :
              Choice(ApplyDeleted(state, b)) = [now EXCEPT !.previous = p]
      BY <1>0, <2>1, ChoiceOfDeletion
    <2>3. \A e \in Deletions : del'[e] # Nothing =>
              del'[e] = del[e] \/ del'[e].result = ApplyDeleted(state, b)
      BY <1>0, <2>1
    <2>4. K' \subseteq K \cup {Choice(ApplyDeleted(state, b))}
      BY <2>1, <2>3 DEF KeptChoices, Choice
    <2>5. now' = now
      BY <2>1 DEF Choice
    <2>6. QED
      BY <2>2, <2>4, <2>5 DEF Switched!Next
  <1>11. ASSUME NEW d \in Deletions, DeleteFails(d) PROVE Switched!Next
    <2>1. /\ UNCHANGED <<state, saveQueue, stateFile>> /\ del' = [del EXCEPT ![d] = Nothing]
      BY <1>11 DEF DeleteFails
    <2>2. K' \subseteq K /\ now' = now
      BY <1>0, <2>1 DEF KeptChoices, Choice
    <2>3. QED
      BY <1>1, <2>2
  <1>12. ASSUME NEW d \in Deletions, DeleteEnds(d) PROVE Switched!Next
    <2>1. del[d].result \in States /\ del[d] # Nothing /\ stateFile' = stateFile
          /\ del' = [del EXCEPT ![d] = Nothing] /\ SetState(del[d].result, "none")
      BY <1>0, <1>12 DEF DeleteEnds
    <2>2. \A e \in Deletions : del'[e] # Nothing => del'[e] = del[e]
      BY <1>0, <2>1
    <2>3. K' \subseteq K \cup {now'} /\ now' = Choice(del[d].result)
      BY <1>0, <1>5, <2>1, <2>2
    <2>4. now' \in K
      BY <2>1, <2>3 DEF KeptChoices
    <2>5. QED
      BY <1>1, <2>3, <2>4
  <1>13. CASE CopyEnds
    <2>1. CASE prep.known
      <3>1. ApplyInstalled(state, prep.build) \in States /\ prep.build \in Builds
        BY <1>0, <1>13, StateTypes DEF CopyEnds, TypeInv, WorkNamed
      <3>2. /\ SetState(ApplyInstalled(state, prep.build), "spawn")
            /\ stateFile' = stateFile /\ del' = del
        BY <1>13, <2>1 DEF CopyEnds
      <3>3. K' \subseteq K \cup {now'} /\ now' = Choice(ApplyInstalled(state, prep.build))
        BY <1>0, <1>5, <3>1, <3>2
      <3>4. Choice(ApplyInstalled(state, prep.build)) = now
        BY <1>0, <3>1, ChoiceOfChange
      <3>5. QED
        BY <1>1, <3>3, <3>4
    <2>2. CASE ~prep.known
      BY <1>2, <1>13, <2>2 DEF CopyEnds
    <2>3. QED
      BY <2>1, <2>2
  <1>14. CASE HandleBootCompleted
    <2>1. CASE OnTrial(state, lastSpawn.build)
      <3>1. /\ SetState([state EXCEPT !.pending = NoPending], "none")
            /\ stateFile' = stateFile /\ del' = del
        BY <1>14, <2>1 DEF HandleBootCompleted
      <3>2. [state EXCEPT !.pending = NoPending] \in States
        BY <1>0, StateTypes
      <3>3. K' \subseteq K \cup {now'} /\ now' = [now EXCEPT !.trial = "none"]
        BY <1>0, <1>5, <3>1, <3>2, ChoiceOfChange
      <3>4. now.trial # "none"
        BY <1>0, <2>1 DEF Choice, OnTrial, NoPending
      <3>5. QED
        BY <1>1, <3>3, <3>4 DEF Switched!Verify
    <2>2. CASE ~OnTrial(state, lastSpawn.build)
      BY <1>2, <1>14, <2>2 DEF HandleBootCompleted
    <2>3. QED
      BY <2>1, <2>2
  <1>15. CASE HandleBootFailed
    <2> DEFINE b == lastSpawn.build
    <2>1. /\ b \in Builds /\ OnTrial(state, b) /\ state.active = b
          /\ SetState(ApplyBootFailed(state, b), "none")
          /\ stateFile' = stateFile /\ del' = del
      BY <1>0, <1>15 DEF HandleBootFailed, OnTrial, TypeOK
    <2>2. ApplyBootFailed(state, b) \in States
      BY <1>0, <2>1, StateTypes
    <2>3. K' \subseteq K \cup {now'} /\ now' = Choice(ApplyBootFailed(state, b))
      BY <1>0, <1>5, <2>1, <2>2
    <2>4. Switched!Fail \/ Switched!Revert
      BY <1>0, <2>1, <2>3, ChoiceOfFailure DEF Switched!Fail, Switched!Revert
    <2>5. QED
      BY <1>1, <2>3, <2>4
  <1>16. QED
    BY <1>2, <1>3, <1>4, <1>6, <1>8, <1>9, <1>10, <1>11, <1>12, <1>13, <1>14, <1>15
       DEF Next, vars, StartDownload, DownloadResolved, DownloadFetched, DownloadMoved,
           DownloadDone, DownloadFails, CancelDownload, PrepareForSpawn, MonitorIsCurrent,
           CopyStarts, PrepareSaved, FallBackToHost, HandleSpawned, SpawnFails,
           ServerEnds

\* The choice of the build changes as BuildSwitch says: by administrators, by
\* a boot, and at the second failed boot, and is only brought back by a restart
\* or by a deletion that began before.
THEOREM BuildsImplementSwitch == Spec => ImplementsBuildSwitch
  <1>1. Init => Switched!Init
    <2> SUFFICES ASSUME Init PROVE Switched!Init
      OBVIOUS
    <2>1. /\ state = EmptyState /\ stateFile = EmptyState /\ saveQueue = <<>>
          /\ \A d \in Deletions : del[d] = Nothing
      BY DEF Init
    <2>2. Choice(EmptyState) = Switched!Default
      BY DEF Choice, EmptyState, Switched!Default
    <2>3. KeptChoices \subseteq {Switched!Default}
      BY <2>1, <2>2 DEF KeptChoices
    <2>4. QED
      BY <2>1, <2>2, <2>3 DEF Switched!Init
  <1>2. QED
    BY <1>1, TypeInvInit, TypeInvStep, ChoicesInvInit, ChoicesInvStep, SwitchStep, PTL
       DEF Spec, ImplementsBuildSwitch, Switched!Spec

=============================================================================
