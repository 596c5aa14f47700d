---------------------------- MODULE PlayerDatabase ----------------------------
(***************************************************************************)
(* core/modules/Database: the players, actions and whitelist of the panel   *)
(* live in memory and reach the file playersDB.json later.  A change sets a *)
(* write flag with a priority; a check every 15 seconds writes the file     *)
(* when the interval of that priority has passed since the last write.      *)
(*                                                                         *)
(* A change is a number: the first n changes are version n of the data.     *)
(* Time is counted in checks.  A write is asynchronous (other requests run  *)
(* while it lasts), shorter than the 15 seconds between two checks, and     *)
(* atomic on the disk: lowdb writes a temporary file and renames it, one    *)
(* write at a time and the latest data last.                                *)
(***************************************************************************)
EXTENDS Naturals

CONSTANTS
    Interval,       \* checks between two writes, for each priority
    MaxChanges,     \* bound on the changes of a run
    AgeLimit        \* bound on the age of a change that is recorded

STANDBY == 0
LOW     == 1
MEDIUM  == 2
HIGH    == 3
Flags   == LOW .. HIGH

ASSUME DatabaseAssumption ==
    /\ Interval \in [STANDBY .. HIGH -> Nat]
    /\ \A p, q \in STANDBY .. HIGH : p < q => Interval[q] < Interval[p]
    /\ MaxChanges \in Nat
    /\ AgeLimit \in Nat /\ AgeLimit >= 2 * Interval[STANDBY] + 3

VARIABLES
    panel,          \* "down", "ready" or "stopping"
    mem,            \* version of the data in memory
    file,           \* version of playersDB.json
    backup,         \* version of playersDB.backup.json
    backupExists,   \* there is one, and it can be loaded
    readable,       \* playersDB.json can be loaded
    writePending,   \* the flag of the most urgent change
    sinceWrite,     \* checks since lastWrite (no matter beyond the longest interval)
    checkWrite,     \* version a check is writing, or None
    exitWrite,      \* version the shutdown is writing, or None
    sinceBackup,    \* checks since the last backup or the boot
    prio,           \* history: the flag of each change
    age,            \* history: checks since each change, up to AgeLimit
    failed,         \* history: a write failed since the boot
    overlapped,     \* history: a change came during a write since the boot
    graceful,       \* history: the panel ended by a graceful shutdown
    backedUp        \* history: the last backup since the boot was made

diskVars == <<file, backup, backupExists, readable>>
histVars == <<failed, overlapped, graceful, backedUp>>
vars == <<panel, mem, diskVars, writePending, sinceWrite, checkWrite,
          exitWrite, sinceBackup, prio, age, histVars>>

None == MaxChanges + 1      \* no version

Changes == 1 .. MaxChanges

TypeOK ==
    /\ panel \in {"down", "ready", "stopping"}
    /\ mem \in 0 .. MaxChanges
    /\ file \in 0 .. MaxChanges
    /\ backup \in 0 .. MaxChanges
    /\ backupExists \in BOOLEAN
    /\ readable \in BOOLEAN
    /\ writePending \in STANDBY .. HIGH
    /\ sinceWrite \in 0 .. Interval[STANDBY] + 1
    /\ checkWrite \in 0 .. None
    /\ exitWrite \in 0 .. None
    /\ sinceBackup \in 0 .. Interval[STANDBY] + 1
    /\ prio \in [Changes -> Flags]
    /\ age \in [Changes -> 0 .. AgeLimit]
    /\ failed \in BOOLEAN
    /\ overlapped \in BOOLEAN
    /\ graceful \in BOOLEAN
    /\ backedUp \in BOOLEAN

Init ==
    /\ panel = "down"
    /\ mem = 0
    /\ file = 0
    /\ backup = 0
    /\ backupExists = FALSE
    /\ readable = TRUE
    /\ writePending = STANDBY
    /\ sinceWrite = 0
    /\ checkWrite = None
    /\ exitWrite = None
    /\ sinceBackup = 0
    /\ prio = [c \in Changes |-> LOW]
    /\ age = [c \in Changes |-> 0]
    /\ failed = FALSE
    /\ overlapped = FALSE
    /\ graceful = FALSE
    /\ backedUp = FALSE

Writing == checkWrite # None \/ exitWrite # None

-----------------------------------------------------------------------------
\* Mutant: with neither, it starts without data.
LoadAnyway ==
    /\ file' = IF readable THEN file ELSE IF backupExists THEN backup ELSE 0
    /\ readable' = TRUE
    /\ UNCHANGED <<backup, backupExists>>

\* The file is loaded, or restored from the backup; with neither the panel
\* does not start.
Load ==
    \/ readable /\ UNCHANGED diskVars
    \/ /\ ~readable /\ backupExists
       /\ file' = backup
       /\ readable' = TRUE
       /\ UNCHANGED <<backup, backupExists>>

\* setupDatabase
Boot ==
    /\ panel = "down"
    /\ Load
    /\ panel' = "ready"
    /\ mem' = file'
    /\ writePending' = STANDBY
    /\ sinceWrite' = 0
    /\ checkWrite' = None
    /\ exitWrite' = None
    /\ sinceBackup' = 0
    /\ failed' = FALSE
    /\ overlapped' = FALSE
    /\ graceful' = FALSE
    /\ backedUp' = FALSE
    /\ prio' = [c \in Changes |-> IF c <= mem' THEN prio[c] ELSE LOW]
    /\ age' = [c \in Changes |-> IF c <= mem' THEN age[c] ELSE 0]

\* Mutant: the last change decides.
WriteFlagLast(flag) == writePending' = flag

\* writeFlag: the most urgent change decides.
WriteFlag(flag) ==
    writePending' = IF flag > writePending THEN flag ELSE writePending

\* A DAO changes the data: a ban, a warning, a player's session, ...
Change(flag) ==
    /\ panel # "down"
    /\ mem < MaxChanges
    /\ mem' = mem + 1
    /\ prio' = [prio EXCEPT ![mem + 1] = flag]
    /\ age' = [age EXCEPT ![mem + 1] = 0]
    /\ WriteFlag(flag)
    /\ overlapped' = (overlapped \/ Writing)
    /\ UNCHANGED <<panel, diskVars, sinceWrite, checkWrite, exitWrite,
                   sinceBackup, failed, graceful, backedUp>>

\* Mutant: nothing is written while no flag is set.
WriteDueFlagged(since) ==
    /\ writePending # STANDBY
    /\ writePending = HIGH \/ since >= Interval[writePending]

\* checkWriteNeeded: the interval of the flag has passed.  At the very
\* interval it depends on milliseconds.
WriteDue(since) == writePending = HIGH \/ since >= Interval[writePending]

WriteMustStart(since) == writePending = HIGH \/ since > Interval[writePending]

\* The 15-second interval fires.  A write it starts takes the data as it is.
\* A backup that is due does not wait for the next check.
Check ==
    /\ panel # "down"
    /\ ~Writing
    /\ sinceBackup <= Interval[STANDBY]
    /\ sinceWrite' = IF sinceWrite > Interval[STANDBY] THEN sinceWrite ELSE sinceWrite + 1
    /\ sinceBackup' = sinceBackup + 1
    /\ age' = [c \in Changes |->
                 IF c <= mem /\ age[c] < AgeLimit THEN age[c] + 1 ELSE age[c]]
    /\ \/ WriteDue(sinceWrite') /\ checkWrite' = mem
       \/ ~(WriteDue(sinceWrite') /\ WriteMustStart(sinceWrite'))
          /\ UNCHANGED checkWrite
    /\ UNCHANGED <<panel, mem, diskVars, writePending, exitWrite, prio,
                   histVars>>

\* writeDatabase logs an error (disk full, file locked) and resolves all the
\* same.
WriteOutcome(version) ==
    \/ file' = version /\ UNCHANGED failed
    \/ failed' = TRUE /\ UNCHANGED file

\* checkWriteNeeded resumes: the flag is reset, whatever was set meanwhile.
CheckWriteEnds ==
    /\ panel # "down"
    /\ checkWrite # None
    /\ WriteOutcome(checkWrite)
    /\ checkWrite' = None
    /\ writePending' = STANDBY
    /\ sinceWrite' = 0
    /\ UNCHANGED <<panel, mem, backup, backupExists, readable, exitWrite,
                   sinceBackup, prio, age, overlapped, graceful, backedUp>>

\* Mutant: the two writes end in any order.
ExitWriteEndsUnordered ==
    /\ panel # "down"
    /\ exitWrite # None
    /\ WriteOutcome(exitWrite)
    /\ exitWrite' = None
    /\ UNCHANGED <<panel, mem, backup, backupExists, readable, writePending,
                   sinceWrite, checkWrite, sinceBackup, prio, age, overlapped,
                   graceful, backedUp>>

\* The write of the shutdown comes after that of a check.
ExitWriteEnds ==
    /\ panel # "down"
    /\ checkWrite = None
    /\ exitWrite # None
    /\ WriteOutcome(exitWrite)
    /\ exitWrite' = None
    /\ UNCHANGED <<panel, mem, backup, backupExists, readable, writePending,
                   sinceWrite, checkWrite, sinceBackup, prio, age, overlapped,
                   graceful, backedUp>>

\* Mutant: no backup is made of a file that is about to be written.
BackupWhenIdle ==
    /\ panel # "down"
    /\ sinceBackup >= Interval[STANDBY]
    /\ sinceBackup' = 0
    /\ IF writePending = STANDBY
       THEN backup' = file /\ backupExists' = TRUE /\ backedUp' = TRUE
       ELSE UNCHANGED <<backup, backupExists, backedUp>>
    /\ UNCHANGED <<panel, mem, file, readable, writePending, sinceWrite,
                   checkWrite, exitWrite, prio, age, failed, overlapped,
                   graceful>>

\* backupDatabase, five minutes after the boot and every five minutes.  An
\* error of copyFile is only logged: it leaves the old backup, or none when the
\* copy had begun.
Backup ==
    /\ panel # "down"
    /\ sinceBackup >= Interval[STANDBY]
    /\ sinceBackup' = 0
    /\ \/ backup' = file /\ backupExists' = TRUE /\ backedUp' = TRUE
       \/ /\ backedUp' = FALSE
          /\ backupExists' \in {backupExists, FALSE}
          /\ UNCHANGED backup
    /\ UNCHANGED <<panel, mem, file, readable, writePending, sinceWrite,
                   checkWrite, exitWrite, prio, age, failed, overlapped,
                   graceful>>

\* gracefulShutdown calls handleShutdown: write if something is flagged.
HandleShutdown ==
    /\ panel = "ready"
    /\ panel' = "stopping"
    /\ exitWrite' = IF writePending # STANDBY THEN mem ELSE None
    /\ UNCHANGED <<mem, diskVars, writePending, sinceWrite, checkWrite,
                   sinceBackup, prio, age, histVars>>

\* With the process end its timers, and the writes in flight.
ProcessEnds ==
    /\ panel' = "down"
    /\ writePending' = STANDBY
    /\ sinceWrite' = 0
    /\ checkWrite' = None
    /\ exitWrite' = None
    /\ sinceBackup' = 0
    /\ UNCHANGED <<mem, file, backup, prio, age, failed, overlapped, backedUp>>

\* quitProcess: the promise of the write was not handed to gracefulShutdown,
\* which ends with the other handlers.
QuitProcess ==
    /\ panel = "stopping"
    /\ ProcessEnds
    /\ graceful' = TRUE
    /\ UNCHANGED <<backupExists, readable>>

\* The panel or its host is killed.  The file may be damaged, and a backup
\* that is due may be cut off.
Crash ==
    /\ panel # "down"
    /\ ProcessEnds
    /\ graceful' = FALSE
    /\ readable' \in {TRUE, FALSE}
    /\ \/ UNCHANGED backupExists
       \/ sinceBackup >= Interval[STANDBY] /\ backupExists' = FALSE

Next ==
    \/ Boot
    \/ \E flag \in Flags : Change(flag)
    \/ Check
    \/ CheckWriteEnds
    \/ ExitWriteEnds
    \/ Backup
    \/ HandleShutdown
    \/ QuitProcess
    \/ Crash

Spec == Init /\ [][Next]_vars

\* The timers fire, a write ends, and a write tried again and again succeeds
\* some day.
Fairness ==
    /\ WF_vars(Check)
    /\ WF_vars(Backup)
    /\ WF_vars(CheckWriteEnds)
    /\ WF_vars(ExitWriteEnds)
    /\ SF_vars(CheckWriteEnds /\ file' = checkWrite)

FairSpec == Spec /\ Fairness

-----------------------------------------------------------------------------
(* Properties.                                                              *)

Unsaved == {c \in Changes : panel # "down" /\ file < c /\ c <= mem}

\* While no write fails, no change waits for the disk longer than the standby
\* interval, however it was flagged and whichever flag got lost: the write
\* without a flag is what makes up for the flags checkWriteNeeded resets.
UnsavedBounded == ~failed => \A c \in Unsaved : age[c] <= Interval[STANDBY] + 1

InTime(c) == age[c] <= Interval[prio[c]] + 1

\* While no write fails and no change came during one, every change reaches
\* the disk within the interval of its own priority, also when it follows
\* more urgent or less urgent ones.
PriorityKept == ~failed /\ ~overlapped /\ ~Writing => \A c \in Unsaved : InTime(c)

\* While no write fails, every change reaches the disk within the interval of
\* its own priority.  ("Checks if it's time to write the database to disk,
\* taking in consideration the priority flag", checkWriteNeeded.)
PrioritySaved == ~failed /\ ~Writing => \A c \in Unsaved : InTime(c)

\* What is on the disk is a state of the data that was, and never an older
\* one than before, unless the backup had to be restored.
FileAdvances == [][file' >= file \/ ~readable]_vars

\* "A five minute rollback is expected.", setupDatabase: what the backup takes
\* back was not on the disk twice five minutes ago.
RollbackBounded ==
    [][panel = "down" /\ ~readable /\ panel' = "ready" =>
          \A c \in Changes : backup < c /\ c <= file => age[c] <= 2 * Interval[STANDBY]]_vars

\* What the code keeps of it: when the last backup since the boot was made, and
\* as long as no write failed, a rollback takes back no change older than two
\* intervals, one that it may wait for the file and one that the file waits for
\* the backup, each with the check that ends it.
RollbackLimited ==
    [][panel = "down" /\ ~readable /\ panel' = "ready" /\ backedUp /\ ~failed =>
          \A c \in Changes :
              backup < c /\ c <= file => age[c] <= 2 * (Interval[STANDBY] + 1)]_vars

\* As long as the panel runs, every change reaches the disk, though writes
\* fail and checkWriteNeeded forgets what was flagged when one does.
ChangesReachDisk ==
    \A c \in Changes : mem >= c ~> (file >= c \/ panel = "down")

Data ==
    INSTANCE DurableData
    WITH up <- panel # "down", live <- mem, disk <- file, intact <- readable,
         copy <- IF backupExists THEN backup ELSE None, NoCopy <- None

\* The file, the backup and the data in memory change as DurableData says:
\* whatever writes overlap, fail or are cut off, the panel goes on from a
\* state of the data that was on the disk, and from the latest that can be
\* loaded.
ImplementsDurableData == Data!Spec

\* "Writes the database to the disk if pending.": a graceful shutdown leaves
\* no change behind.
ShutdownSaves == (panel = "down" /\ graceful) => file = mem

=============================================================================
