------------------------- MODULE PlayerDatabaseProofs -------------------------
(***************************************************************************)
(* Proofs about PlayerDatabase for every interval and number of changes.    *)
(* The order of the versions (FileInv) gives FileAdvances.  UnsavedInv      *)
(* relates how long a change waited to the checks since the last write, as  *)
(* long as no write failed; as long as no change came during a write        *)
(* either, FlagInv relates it to the flag that is set.  BackupInv adds the  *)
(* time since the last backup, for what a restored backup takes back.       *)
(* With FileInv, the database implements DurableData.                       *)
(***************************************************************************)
EXTENDS PlayerDatabase, TLAPS

LEMMA NoneFacts == None \in Nat /\ \A v \in 0 .. MaxChanges : v # None
  BY DatabaseAssumption DEF None

LEMMA IntervalFacts ==
    /\ \A p \in STANDBY .. HIGH : Interval[p] \in Nat /\ Interval[p] <= Interval[STANDBY]
    /\ \A p, q \in STANDBY .. HIGH : p <= q => Interval[q] <= Interval[p]
  <1>1. \A p \in STANDBY .. HIGH : Interval[p] \in Nat
    BY DatabaseAssumption DEF STANDBY, HIGH
  <1>2. \A p, q \in STANDBY .. HIGH : p <= q => Interval[q] <= Interval[p]
    BY <1>1, DatabaseAssumption DEF STANDBY, HIGH
  <1>3. QED
    BY <1>1, <1>2 DEF STANDBY, HIGH

-----------------------------------------------------------------------------
\* Every variable keeps its type, the counters within their bounds included.
THEOREM DatabaseTypeCorrect == Spec => []TypeOK
  <1>1. Init => TypeOK
    <2>1. LOW \in Flags /\ 0 \in 0 .. AgeLimit /\ 0 \in 0 .. MaxChanges
      BY DatabaseAssumption DEF Flags, LOW, HIGH
    <2>2. None \in 0 .. None /\ STANDBY \in STANDBY .. HIGH
      BY NoneFacts DEF STANDBY, HIGH
    <2>3. 0 \in 0 .. Interval[STANDBY] + 1
      BY IntervalFacts DEF STANDBY, HIGH
    <2>4. QED
      BY <2>1, <2>2, <2>3 DEF Init, TypeOK
  <1>2. TypeOK /\ [Next]_vars => TypeOK'
    <2> SUFFICES ASSUME TypeOK, [Next]_vars PROVE TypeOK'
      OBVIOUS
    <2> USE NoneFacts
    <2>0. Interval[STANDBY] \in Nat
      BY IntervalFacts DEF STANDBY, HIGH
    <2>1. CASE Boot
      <3>1. file' \in 0 .. MaxChanges /\ backup' \in 0 .. MaxChanges
            /\ backupExists' \in BOOLEAN /\ readable' \in BOOLEAN
        BY <2>1 DEF Boot, Load, TypeOK, diskVars
      <3>2. prio' \in [Changes -> Flags] /\ age' \in [Changes -> 0 .. AgeLimit]
        BY <2>1, DatabaseAssumption DEF Boot, Load, TypeOK, Flags, LOW, HIGH
      <3>3. None \in 0 .. None /\ STANDBY \in STANDBY .. HIGH
            /\ 0 \in 0 .. Interval[STANDBY] + 1
        BY <2>0 DEF STANDBY, HIGH
      <3>4. /\ panel' = "ready" /\ mem' = file' /\ graceful' = FALSE
              /\ failed' = FALSE /\ overlapped' = FALSE /\ backedUp' = FALSE
            /\ writePending' = STANDBY /\ sinceWrite' = 0 /\ sinceBackup' = 0
            /\ checkWrite' = None /\ exitWrite' = None
        BY <2>1 DEF Boot
      <3>5. QED
        BY <3>1, <3>2, <3>3, <3>4 DEF TypeOK
    <2>2. ASSUME NEW flag \in Flags, Change(flag) PROVE TypeOK'
      <3>0. 0 \in 0 .. AgeLimit
        BY DatabaseAssumption
      <3>1. prio' \in [Changes -> Flags] /\ age' \in [Changes -> 0 .. AgeLimit]
        <4>1. /\ prio' = [prio EXCEPT ![mem + 1] = flag]
              /\ age' = [age EXCEPT ![mem + 1] = 0]
          BY <2>2 DEF Change
        <4>2. prio \in [Changes -> Flags] /\ age \in [Changes -> 0 .. AgeLimit]
          BY DEF TypeOK
        <4>3. QED
          BY <3>0, <4>1, <4>2, <2>2
      <3>2. writePending' \in STANDBY .. HIGH
        BY <2>2 DEF Change, TypeOK, WriteFlag, Flags, STANDBY, LOW, HIGH
      <3>3. mem' \in 0 .. MaxChanges
        BY <2>2, DatabaseAssumption DEF Change, TypeOK
      <3>4. QED
        BY <2>2, <3>1, <3>2, <3>3 DEF Change, TypeOK, diskVars, histVars
    <2>3. CASE Check
      <3>1. sinceWrite' \in 0 .. Interval[STANDBY] + 1
        BY <2>3, <2>0 DEF Check, TypeOK
      <3>2. sinceBackup' \in 0 .. Interval[STANDBY] + 1
        BY <2>3, <2>0 DEF Check, TypeOK
      <3>3. age' \in [Changes -> 0 .. AgeLimit]
        BY <2>3, DatabaseAssumption DEF Check, TypeOK
      <3>4. checkWrite' \in 0 .. None
        BY <2>3, DatabaseAssumption DEF Check, TypeOK, None
      <3>5. QED
        BY <2>3, <3>1, <3>2, <3>3, <3>4 DEF Check, TypeOK, diskVars, histVars
    <2>4. CASE CheckWriteEnds
      <3>1. failed' \in BOOLEAN
        BY <2>4 DEF CheckWriteEnds, WriteOutcome, TypeOK
      <3>2. /\ file' \in 0 .. MaxChanges
            /\ checkWrite' \in 0 .. None
            /\ sinceWrite' \in 0 .. Interval[STANDBY] + 1
            /\ writePending' \in STANDBY .. HIGH
        BY <2>4, <2>0, DatabaseAssumption
        DEF CheckWriteEnds, WriteOutcome, TypeOK, None, STANDBY, HIGH
      <3>3. QED
        BY <2>4, <3>1, <3>2 DEF CheckWriteEnds, TypeOK
    <2>5. CASE ExitWriteEnds
      <3>1. failed' \in BOOLEAN
        BY <2>5 DEF ExitWriteEnds, WriteOutcome, TypeOK
      <3>2. file' \in 0 .. MaxChanges /\ exitWrite' \in 0 .. None
        BY <2>5, DatabaseAssumption DEF ExitWriteEnds, WriteOutcome, TypeOK, None
      <3>3. QED
        BY <2>5, <3>1, <3>2 DEF ExitWriteEnds, TypeOK
    <2>6. CASE Backup
      <3>1. backupExists' \in BOOLEAN /\ backedUp' \in BOOLEAN /\ backup' \in 0 .. MaxChanges
        BY <2>6 DEF Backup, TypeOK
      <3>2. sinceBackup' \in 0 .. Interval[STANDBY] + 1
        BY <2>6, <2>0 DEF Backup
      <3>3. QED
        BY <2>6, <3>1, <3>2 DEF Backup, TypeOK
    <2>7. CASE HandleShutdown
      BY <2>7, DatabaseAssumption DEF HandleShutdown, TypeOK, diskVars, histVars, None
    <2>8. CASE QuitProcess \/ Crash
      <3>1. /\ ProcessEnds
            /\ readable' \in BOOLEAN /\ backupExists' \in BOOLEAN /\ graceful' \in BOOLEAN
        BY <2>8 DEF QuitProcess, Crash, TypeOK
      <3>2. None \in 0 .. None /\ STANDBY \in STANDBY .. HIGH
            /\ 0 \in 0 .. Interval[STANDBY] + 1
        BY <2>0 DEF STANDBY, HIGH
      <3>3. QED
        BY <3>1, <3>2 DEF ProcessEnds, TypeOK
    <2>9. CASE UNCHANGED vars
      BY <2>9 DEF vars, diskVars, histVars, TypeOK
    <2>10. QED
      BY <2>1, <2>2, <2>3, <2>4, <2>5, <2>6, <2>7, <2>8, <2>9 DEF Next
  <1>3. QED
    BY <1>1, <1>2, PTL DEF Spec

-----------------------------------------------------------------------------
(* The order of the versions.                                               *)

FileInv ==
    panel # "down" =>
        /\ file <= mem
        /\ checkWrite # None => file <= checkWrite /\ checkWrite <= mem
        /\ exitWrite # None => file <= exitWrite /\ exitWrite <= mem
        /\ (checkWrite # None /\ exitWrite # None) => checkWrite <= exitWrite

LEMMA FileInvInit == Init => FileInv
  BY DEF Init, FileInv

LEMMA FileInvStep == TypeOK /\ FileInv /\ [Next]_vars => FileInv'
  <1> SUFFICES ASSUME TypeOK, FileInv, [Next]_vars PROVE FileInv'
    OBVIOUS
  <1> USE NoneFacts
  <1>0. file \in Nat /\ mem \in Nat /\ checkWrite \in Nat /\ exitWrite \in Nat /\ backup \in Nat
    BY DEF TypeOK
  <1>1. CASE Boot
    BY <1>0, <1>1 DEF Boot, Load, FileInv, diskVars
  <1>2. ASSUME NEW flag \in Flags, Change(flag) PROVE FileInv'
    BY <1>0, <1>2 DEF Change, FileInv, diskVars
  <1>3. CASE Check
    BY <1>0, <1>3 DEF Check, FileInv, Writing, diskVars
  <1>4. CASE CheckWriteEnds
    BY <1>0, <1>4 DEF CheckWriteEnds, WriteOutcome, FileInv
  <1>5. CASE ExitWriteEnds
    BY <1>0, <1>5 DEF ExitWriteEnds, WriteOutcome, FileInv
  <1>6. CASE Backup
    BY <1>0, <1>6 DEF Backup, FileInv
  <1>7. CASE HandleShutdown
    BY <1>0, <1>7 DEF HandleShutdown, FileInv, diskVars
  <1>8. CASE QuitProcess
    BY <1>8 DEF QuitProcess, ProcessEnds, FileInv
  <1>9. CASE Crash
    BY <1>9 DEF Crash, ProcessEnds, FileInv
  <1>10. CASE UNCHANGED vars
    BY <1>10 DEF vars, diskVars, FileInv
  <1>11. QED
    BY <1>1, <1>2, <1>3, <1>4, <1>5, <1>6, <1>7, <1>8, <1>9, <1>10 DEF Next

\* The file never goes back to an older state of the data, unless it could not
\* be read and the backup replaced it.
THEOREM FileAdvancesSafe == Spec => FileAdvances
  <1>1. TypeOK /\ FileInv /\ [Next]_vars => [file' >= file \/ ~readable]_vars
    <2> SUFFICES ASSUME TypeOK, FileInv, [Next]_vars
                 PROVE  file' >= file \/ ~readable \/ UNCHANGED vars
      OBVIOUS
    <2>0. file \in Nat /\ checkWrite \in Nat /\ exitWrite \in Nat
      BY NoneFacts DEF TypeOK
    <2>1. CASE CheckWriteEnds
      BY <2>0, <2>1 DEF CheckWriteEnds, WriteOutcome, FileInv
    <2>2. CASE ExitWriteEnds
      BY <2>0, <2>2 DEF ExitWriteEnds, WriteOutcome, FileInv
    <2>3. CASE Boot
      BY <2>0, <2>3 DEF Boot, Load, diskVars
    <2>4. CASE \E flag \in Flags : Change(flag)
      <3>1. file' = file
        BY <2>4 DEF Change, diskVars
      <3>2. QED
        BY <2>0, <3>1
    <2>5. CASE Check \/ Backup \/ HandleShutdown \/ QuitProcess \/ Crash
      <3>1. file' = file
        BY <2>5 DEF Check, Backup, HandleShutdown, QuitProcess, Crash, ProcessEnds, diskVars
      <3>2. QED
        BY <2>0, <3>1
    <2>6. QED
      BY <2>1, <2>2, <2>3, <2>4, <2>5 DEF Next
  <1>2. QED
    BY <1>1, DatabaseTypeCorrect, FileInvInit, FileInvStep, PTL DEF Spec, FileAdvances

-----------------------------------------------------------------------------
(* How long a change waits, whichever flags are lost.                       *)

UnsavedInv ==
    ~failed =>
        /\ \A c \in Unsaved : age[c] <= sinceWrite
        /\ panel # "down" =>
              /\ checkWrite = None => sinceWrite <= Interval[STANDBY]
              /\ checkWrite # None =>
                    \A c \in Changes : checkWrite < c /\ c <= mem => age[c] = 0

LEMMA UnsavedInvInit == Init => UnsavedInv
  BY DEF Init, UnsavedInv, Unsaved

LEMMA UnsavedInvStep ==
    TypeOK /\ FileInv /\ UnsavedInv /\ [Next]_vars => UnsavedInv'
  <1> SUFFICES ASSUME TypeOK, FileInv, UnsavedInv, [Next]_vars, ~failed'
               PROVE  UnsavedInv'
    BY DEF UnsavedInv
  <1> USE NoneFacts
  <1>0. /\ file \in Nat /\ mem \in Nat /\ checkWrite \in Nat /\ exitWrite \in Nat
        /\ backup \in Nat /\ sinceWrite \in Nat /\ Interval[STANDBY] \in Nat
        /\ mem <= MaxChanges
        /\ \A c \in Changes : c \in Nat /\ age[c] \in Nat
    BY IntervalFacts, DatabaseAssumption DEF TypeOK, Changes, STANDBY, HIGH
  <1>1. CASE Boot
    <2>1. Unsaved' = {}
      BY <1>0, <1>1 DEF Boot, Load, Unsaved, diskVars
    <2>2. QED
      BY <1>0, <1>1, <2>1 DEF Boot, Load, UnsavedInv, Unsaved
  <1>2. ASSUME NEW flag \in Flags, Change(flag) PROVE UnsavedInv'
    <2>1. \A c \in Changes : age'[c] = IF c = mem + 1 THEN 0 ELSE age[c]
      BY <1>2 DEF Change, TypeOK
    <2>2. /\ panel' = panel /\ panel # "down" /\ file' = file /\ mem' = mem + 1
          /\ checkWrite' = checkWrite /\ sinceWrite' = sinceWrite
          /\ ~failed
      BY <1>2 DEF Change, diskVars
    <2>3. \A c \in Changes : c <= mem + 1 /\ c # mem + 1 => c <= mem
      BY <1>0
    <2>4. \A c \in Unsaved' : age'[c] <= sinceWrite
      BY <1>0, <2>1, <2>2, <2>3 DEF UnsavedInv, Unsaved
    <2>5. checkWrite # None =>
            \A c \in Changes : checkWrite < c /\ c <= mem + 1 => age'[c] = 0
      BY <1>0, <2>1, <2>2, <2>3 DEF UnsavedInv
    <2>6. QED
      BY <2>2, <2>4, <2>5 DEF UnsavedInv
  <1>3. CASE Check
    <2>1. /\ panel' = panel /\ file' = file /\ mem' = mem /\ checkWrite = None
          /\ panel # "down" /\ writePending' = writePending /\ ~failed
      BY <1>3 DEF Check, Writing, diskVars, histVars
    <2>2. sinceWrite' = sinceWrite + 1
      BY <1>0, <1>3, <2>1 DEF Check, UnsavedInv
    <2>3. \A c \in Changes : age'[c] <= age[c] + 1
      BY <1>0, <1>3 DEF Check
    <2>4. \A c \in Unsaved' : age'[c] <= sinceWrite'
      <3> TAKE c \in Unsaved'
      <3>1. c \in Unsaved /\ c \in Changes
        BY <2>1 DEF Unsaved
      <3>2. age'[c] \in Nat
        BY <1>0, <1>3, <3>1 DEF Check
      <3>3. QED
        BY <1>0, <2>1, <2>2, <2>3, <3>1, <3>2 DEF UnsavedInv
    <2>5. CASE checkWrite' = mem
      BY <1>0, <2>1, <2>4, <2>5 DEF UnsavedInv, TypeOK
    <2>6. CASE ~(WriteDue(sinceWrite') /\ WriteMustStart(sinceWrite')) /\ checkWrite' = checkWrite
      <3>1. writePending \in STANDBY .. HIGH
        BY DEF TypeOK
      <3>2. Interval[writePending] \in Nat /\ Interval[writePending] <= Interval[STANDBY]
        BY <3>1, IntervalFacts
      <3>3. sinceWrite' <= Interval[writePending]
        BY <1>0, <2>2, <2>6, <3>2 DEF WriteDue, WriteMustStart
      <3>4. sinceWrite' <= Interval[STANDBY]
        BY <1>0, <2>2, <3>2, <3>3
      <3>5. QED
        BY <2>1, <2>4, <2>6, <3>4 DEF UnsavedInv
    <2>7. QED
      BY <1>3, <2>5, <2>6 DEF Check
  <1>4. CASE CheckWriteEnds
    <2>1. /\ file' = checkWrite /\ checkWrite' = None /\ sinceWrite' = 0
          /\ panel' = panel /\ mem' = mem /\ age' = age /\ checkWrite # None
          /\ panel # "down" /\ ~failed
      BY <1>4 DEF CheckWriteEnds, WriteOutcome
    <2>2. \A c \in Unsaved' : age[c] = 0
      BY <2>1 DEF Unsaved, UnsavedInv
    <2>3. QED
      BY <1>0, <2>1, <2>2 DEF UnsavedInv
  <1>5. CASE ExitWriteEnds
    <2>1. /\ file' = exitWrite /\ exitWrite # None /\ panel # "down"
          /\ panel' = panel /\ mem' = mem /\ age' = age /\ checkWrite' = checkWrite
          /\ sinceWrite' = sinceWrite /\ ~failed
      BY <1>5 DEF ExitWriteEnds, WriteOutcome
    <2>2. Unsaved' \subseteq Unsaved
      BY <1>0, <2>1 DEF Unsaved, FileInv
    <2>3. QED
      BY <2>1, <2>2 DEF UnsavedInv
  <1>6. CASE Backup
    BY <1>6 DEF Backup, UnsavedInv, Unsaved, histVars
  <1>7. CASE HandleShutdown
    BY <1>7 DEF HandleShutdown, UnsavedInv, Unsaved, diskVars, histVars
  <1>8. CASE QuitProcess
    BY <1>8 DEF QuitProcess, ProcessEnds, UnsavedInv, Unsaved
  <1>9. CASE Crash
    BY <1>9 DEF Crash, ProcessEnds, UnsavedInv, Unsaved
  <1>10. CASE UNCHANGED vars
    BY <1>10 DEF vars, diskVars, histVars, UnsavedInv, Unsaved
  <1>11. QED
    BY <1>1, <1>2, <1>3, <1>4, <1>5, <1>6, <1>7, <1>8, <1>9, <1>10 DEF Next

\* While no write fails, no change waits for the disk longer than the standby
\* interval, even when its flag was reset by a write that missed it.
THEOREM UnsavedBoundedSafe == Spec => []UnsavedBounded
  <1>1. TypeOK /\ UnsavedInv => UnsavedBounded
    <2> SUFFICES ASSUME TypeOK, UnsavedInv, ~failed, NEW c \in Unsaved
                 PROVE  age[c] <= Interval[STANDBY] + 1
      BY DEF UnsavedBounded
    <2>1. age[c] \in Nat /\ age[c] <= sinceWrite
      BY DatabaseAssumption DEF TypeOK, UnsavedInv, Unsaved
    <2>2. sinceWrite \in Nat /\ sinceWrite <= Interval[STANDBY] + 1
      BY IntervalFacts DEF TypeOK, STANDBY, HIGH
    <2>3. QED
      BY <2>1, <2>2, IntervalFacts DEF STANDBY, HIGH
  <1>2. QED
    BY <1>1, DatabaseTypeCorrect, FileInvInit, FileInvStep, UnsavedInvInit,
       UnsavedInvStep, PTL DEF Spec

-----------------------------------------------------------------------------
(* As long as no change comes during a write, no flag is lost.              *)

FlagInv ==
    (panel # "down" /\ ~failed /\ ~overlapped) =>
        /\ panel = "ready" => exitWrite = None
        /\ checkWrite # None => checkWrite = mem
        /\ exitWrite # None => exitWrite = mem
        /\ ~Writing => \A c \in Unsaved : /\ prio[c] <= writePending
                                          /\ age[c] <= Interval[prio[c]]

LEMMA FlagInvInit == Init => FlagInv
  BY DEF Init, FlagInv

LEMMA FlagInvStep ==
    TypeOK /\ FileInv /\ UnsavedInv /\ FlagInv /\ [Next]_vars => FlagInv'
  <1> SUFFICES ASSUME TypeOK, FileInv, UnsavedInv, FlagInv, [Next]_vars,
                      ~failed', ~overlapped'
               PROVE  FlagInv'
    BY DEF FlagInv
  <1> USE NoneFacts
  <1>0. /\ file \in Nat /\ mem \in Nat /\ checkWrite \in Nat /\ exitWrite \in Nat
        /\ sinceWrite \in Nat /\ mem <= MaxChanges
        /\ writePending \in STANDBY .. HIGH
        /\ \A c \in Changes : c \in Nat /\ age[c] \in Nat /\ prio[c] \in LOW .. HIGH
    BY DatabaseAssumption DEF TypeOK, Changes, Flags
  <1>i. \A c \in Changes : Interval[prio[c]] \in Nat
    BY <1>0, IntervalFacts DEF STANDBY, LOW, HIGH
  <1>1. CASE Boot
    <2>1. Unsaved' = {}
      BY <1>0, <1>1 DEF Boot, Load, Unsaved, TypeOK, diskVars
    <2>2. QED
      BY <1>1, <2>1 DEF Boot, Load, FlagInv
  <1>2. ASSUME NEW flag \in Flags, Change(flag) PROVE FlagInv'
    <2>1. /\ panel' = panel /\ panel # "down" /\ file' = file /\ mem' = mem + 1
          /\ checkWrite' = checkWrite /\ exitWrite' = exitWrite /\ ~Writing
          /\ ~failed /\ ~overlapped
      BY <1>2 DEF Change, diskVars
    <2>2. \A c \in Changes :
             /\ age'[c] = IF c = mem + 1 THEN 0 ELSE age[c]
             /\ prio'[c] = IF c = mem + 1 THEN flag ELSE prio[c]
      BY <1>2 DEF Change, TypeOK
    <2>3. flag <= writePending' /\ writePending <= writePending' /\ writePending' \in Nat
      BY <1>0, <1>2 DEF Change, WriteFlag, Flags, STANDBY, LOW, HIGH
    <2>4. flag \in Nat /\ Interval[flag] \in Nat
      BY IntervalFacts DEF Flags, STANDBY, LOW, HIGH
    <2>5. ASSUME NEW c \in Unsaved'
          PROVE  prio'[c] <= writePending' /\ age'[c] <= Interval[prio'[c]]
      <3>1. CASE c = mem + 1
        BY <2>2, <2>3, <2>4, <2>5, <3>1 DEF Unsaved
      <3>2. CASE c # mem + 1
        <4>1. c \in Unsaved /\ c \in Changes
          BY <1>0, <2>1, <2>5, <3>2 DEF Unsaved
        <4>2. prio[c] <= writePending /\ age[c] <= Interval[prio[c]]
          BY <2>1, <4>1 DEF FlagInv
        <4>3. prio[c] \in Nat /\ writePending \in Nat
          BY <1>0, <4>1 DEF LOW, HIGH, STANDBY
        <4>4. prio[c] <= writePending'
          BY <2>3, <4>2, <4>3
        <4>5. QED
          BY <2>2, <3>2, <4>1, <4>2, <4>4
      <3>3. QED
        BY <3>1, <3>2
    <2>6. QED
      BY <2>1, <2>5 DEF FlagInv, Writing
  <1>3. CASE Check
    <2>1. /\ panel' = panel /\ file' = file /\ mem' = mem /\ checkWrite = None
          /\ exitWrite' = exitWrite /\ exitWrite = None /\ ~Writing /\ panel # "down"
          /\ writePending' = writePending /\ prio' = prio
          /\ ~failed /\ ~overlapped
      BY <1>3 DEF Check, Writing, diskVars, histVars
    <2>2. CASE checkWrite' = mem
      BY <1>0, <2>1, <2>2 DEF FlagInv, Writing, TypeOK
    <2>3. CASE ~(WriteDue(sinceWrite') /\ WriteMustStart(sinceWrite')) /\ checkWrite' = checkWrite
      <3>1. sinceWrite' \in Nat
        BY <1>0, <1>3 DEF Check
      <3>2. Interval[writePending] \in Nat
        BY <1>0, IntervalFacts
      <3>3. sinceWrite' <= Interval[writePending]
        BY <2>3, <3>1, <3>2 DEF WriteDue, WriteMustStart
      <3>4. UnsavedInv'
        BY UnsavedInvStep
      <3>5. ASSUME NEW c \in Unsaved'
            PROVE  prio[c] <= writePending /\ age'[c] <= Interval[prio[c]]
        <4>1. c \in Unsaved /\ c \in Changes
          BY <2>1 DEF Unsaved
        <4>2. prio[c] <= writePending
          BY <2>1, <4>1 DEF FlagInv
        <4>3. age'[c] <= sinceWrite' /\ age'[c] \in Nat
          BY <1>0, <1>3, <3>4, <4>1 DEF UnsavedInv, Check
        <4>4. prio[c] \in STANDBY .. HIGH
          BY <1>0, <4>1 DEF STANDBY, LOW, HIGH
        <4>5. Interval[writePending] <= Interval[prio[c]]
          BY <1>0, <4>2, <4>4, IntervalFacts
        <4>6. QED
          BY <1>i, <3>1, <3>2, <3>3, <4>1, <4>2, <4>3, <4>5
      <3>6. QED
        BY <2>1, <2>3, <3>5 DEF FlagInv
    <2>4. QED
      BY <1>3, <2>2, <2>3 DEF Check
  <1>4. CASE CheckWriteEnds
    <2>1. file' = mem' /\ checkWrite' = None /\ exitWrite' = exitWrite /\ mem' = mem
          /\ panel' = panel /\ panel # "down" /\ ~failed /\ ~overlapped
      BY <1>4 DEF CheckWriteEnds, WriteOutcome, FlagInv
    <2>2. Unsaved' = {}
      BY <1>0, <2>1 DEF Unsaved
    <2>3. QED
      BY <2>1, <2>2 DEF FlagInv
  <1>5. CASE ExitWriteEnds
    <2>1. file' = mem' /\ exitWrite' = None /\ checkWrite' = checkWrite /\ mem' = mem
          /\ panel' = panel /\ panel # "down" /\ ~failed /\ ~overlapped
      BY <1>5 DEF ExitWriteEnds, WriteOutcome, FlagInv
    <2>2. Unsaved' = {}
      BY <1>0, <2>1 DEF Unsaved
    <2>3. QED
      BY <2>1, <2>2 DEF FlagInv
  <1>6. CASE Backup
    BY <1>6 DEF Backup, FlagInv, Unsaved, Writing, histVars
  <1>7. CASE HandleShutdown
    BY <1>7 DEF HandleShutdown, FlagInv, Unsaved, Writing, diskVars, histVars
  <1>8. CASE QuitProcess
    BY <1>8 DEF QuitProcess, ProcessEnds, FlagInv
  <1>9. CASE Crash
    BY <1>9 DEF Crash, ProcessEnds, FlagInv
  <1>10. CASE UNCHANGED vars
    BY <1>10 DEF vars, diskVars, histVars, FlagInv, Unsaved, Writing
  <1>11. QED
    BY <1>1, <1>2, <1>3, <1>4, <1>5, <1>6, <1>7, <1>8, <1>9, <1>10 DEF Next

\* While no write fails and no change comes during one, every change is saved
\* within the interval of its own flag.
THEOREM PriorityKeptSafe == Spec => []PriorityKept
  <1>1. TypeOK /\ FlagInv => PriorityKept
    <2> SUFFICES ASSUME TypeOK, FlagInv, ~failed, ~overlapped, ~Writing,
                        NEW c \in Unsaved
                 PROVE  age[c] <= Interval[prio[c]] + 1
      BY DEF PriorityKept, InTime
    <2>1. age[c] \in Nat /\ prio[c] \in STANDBY .. HIGH
      BY DatabaseAssumption DEF TypeOK, Unsaved, Flags, STANDBY, LOW, HIGH
    <2>2. age[c] <= Interval[prio[c]]
      BY DEF FlagInv, Unsaved
    <2>3. QED
      BY <2>1, <2>2, IntervalFacts
  <1>2. QED
    BY <1>1, DatabaseTypeCorrect, FileInvInit, FileInvStep, UnsavedInvInit,
       UnsavedInvStep, FlagInvInit, FlagInvStep, PTL DEF Spec

-----------------------------------------------------------------------------
(* What the backup takes back.                                              *)

\* A change that reached the file after the last backup was not saved when it
\* was made.
BackupWait == IF panel = "down" THEN Interval[STANDBY] + 1 ELSE sinceBackup

BackupInv ==
    backedUp /\ ~failed =>
        \A c \in Changes :
            backup < c /\ c <= file => age[c] <= BackupWait + Interval[STANDBY] + 1

LEMMA BackupInvInit == Init => BackupInv
  BY DEF Init, BackupInv

LEMMA BackupInvStep ==
    TypeOK /\ FileInv /\ UnsavedInv /\ BackupInv /\ [Next]_vars => BackupInv'
  <1> SUFFICES ASSUME TypeOK, FileInv, UnsavedInv, BackupInv, [Next]_vars,
                      backedUp', ~failed', NEW c \in Changes, backup' < c, c <= file'
               PROVE  age'[c] <= BackupWait' + Interval[STANDBY] + 1
    BY DEF BackupInv
  <1> USE NoneFacts
  <1>0. /\ file \in Nat /\ mem \in Nat /\ checkWrite \in Nat /\ exitWrite \in Nat
        /\ backup \in Nat /\ sinceBackup \in Nat /\ sinceWrite \in Nat
        /\ Interval[STANDBY] \in Nat /\ sinceWrite <= Interval[STANDBY] + 1
        /\ sinceBackup <= Interval[STANDBY] + 1
        /\ c \in Nat /\ age[c] \in Nat
    BY IntervalFacts, DatabaseAssumption DEF TypeOK, Changes, STANDBY, HIGH
  <1>1. CASE Boot
    BY <1>1 DEF Boot
  <1>2. ASSUME NEW flag \in Flags, Change(flag)
        PROVE  age'[c] <= BackupWait' + Interval[STANDBY] + 1
    <2>1. /\ panel # "down" /\ panel' = panel /\ file' = file /\ backup' = backup /\ sinceBackup' = sinceBackup
          /\ backedUp /\ ~failed
          /\ age' = [age EXCEPT ![mem + 1] = 0]
      BY <1>2 DEF Change, diskVars
    <2>2. c # mem + 1
      BY <1>0, <2>1 DEF FileInv
    <2>3. age'[c] = age[c]
      BY <2>1, <2>2 DEF TypeOK
    <2>4. QED
      BY <2>1, <2>3 DEF BackupInv, BackupWait
  <1>3. CASE Check
    <2>1. /\ panel # "down" /\ panel' = panel /\ file' = file /\ backup' = backup /\ sinceBackup' = sinceBackup + 1
          /\ backedUp /\ ~failed
          /\ age'[c] <= age[c] + 1 /\ age'[c] \in Nat
      BY <1>0, <1>3 DEF Check, diskVars, histVars
    <2>2. age[c] <= sinceBackup + Interval[STANDBY] + 1
      BY <2>1 DEF BackupInv, BackupWait
    <2>3. QED
      BY <1>0, <2>1, <2>2 DEF BackupWait
  <1>4. CASE CheckWriteEnds \/ ExitWriteEnds
    <2>1. /\ panel # "down" /\ panel' = panel
          /\ backup' = backup /\ sinceBackup' = sinceBackup
          /\ backedUp /\ ~failed /\ age' = age
          /\ \/ checkWrite # None /\ file' = checkWrite
             \/ exitWrite # None /\ file' = exitWrite
      <3>1. CASE CheckWriteEnds
        BY <3>1 DEF CheckWriteEnds, WriteOutcome
      <3>2. CASE ExitWriteEnds
        BY <3>2 DEF ExitWriteEnds, WriteOutcome
      <3>3. QED
        BY <1>4, <3>1, <3>2
    <2>2. CASE c <= file
      BY <2>1, <2>2 DEF BackupInv, BackupWait
    <2>3. CASE file < c
      <3>1. c <= mem
        BY <1>0, <2>1 DEF FileInv
      <3>2. age[c] <= sinceWrite
        BY <2>1, <2>3, <3>1 DEF UnsavedInv, Unsaved
      <3>3. QED
        BY <1>0, <2>1, <3>2 DEF BackupWait
    <2>4. QED
      BY <1>0, <2>2, <2>3
  <1>5. CASE Backup
    BY <1>0, <1>5 DEF Backup
  <1>6. CASE HandleShutdown \/ UNCHANGED vars
    <2>1. /\ UNCHANGED <<file, backup, sinceBackup, backedUp, failed, age>>
          /\ (panel' = "down") = (panel = "down")
      BY <1>6 DEF HandleShutdown, vars, diskVars, histVars
    <2>2. QED
      BY <2>1 DEF BackupInv, BackupWait
  <1>7. CASE QuitProcess \/ Crash
    <2>1. /\ panel # "down" /\ panel' = "down"
          /\ UNCHANGED <<file, backup, backedUp, failed, age>>
      BY <1>7 DEF QuitProcess, Crash, ProcessEnds
    <2>2. age[c] <= sinceBackup + Interval[STANDBY] + 1
      BY <2>1 DEF BackupInv, BackupWait
    <2>3. QED
      BY <1>0, <2>1, <2>2 DEF BackupWait
  <1>8. QED
    BY <1>1, <1>2, <1>3, <1>4, <1>5, <1>6, <1>7 DEF Next

\* When the last backup since the boot was made, and while no write failed,
\* restoring it takes back no change older than two standby intervals and their
\* checks.
THEOREM RollbackLimitedSafe == Spec => RollbackLimited
  <1>1. TypeOK /\ BackupInv =>
          (backedUp /\ ~failed =>
             \A c \in Changes :
                 backup < c /\ c <= file => age[c] <= 2 * (Interval[STANDBY] + 1))
    <2> SUFFICES ASSUME TypeOK, BackupInv, backedUp, ~failed, NEW c \in Changes,
                        backup < c, c <= file
                 PROVE  age[c] <= 2 * (Interval[STANDBY] + 1)
      OBVIOUS
    <2>1. /\ age[c] \in Nat /\ sinceBackup \in Nat /\ Interval[STANDBY] \in Nat
          /\ sinceBackup <= Interval[STANDBY] + 1
      BY IntervalFacts, DatabaseAssumption DEF TypeOK, STANDBY, HIGH
    <2>2. age[c] <= BackupWait + Interval[STANDBY] + 1
      BY DEF BackupInv
    <2>3. QED
      BY <2>1, <2>2 DEF BackupWait
  <1>2. TypeOK /\ BackupInv /\ [Next]_vars =>
          [panel = "down" /\ ~readable /\ panel' = "ready" /\ backedUp /\ ~failed =>
             \A c \in Changes :
                 backup < c /\ c <= file => age[c] <= 2 * (Interval[STANDBY] + 1)]_vars
    BY <1>1
  <1>3. QED
    BY <1>2, DatabaseTypeCorrect, FileInvInit, FileInvStep, UnsavedInvInit,
       UnsavedInvStep, BackupInvInit, BackupInvStep, PTL DEF Spec, RollbackLimited

-----------------------------------------------------------------------------
(* DurableData.                                                             *)

\* The database implements DurableData: a write that ends, or fails, saves a
\* state between that of the file and that of the memory, and every other step
\* but a change, a backup, an end and a start is of no consequence.
THEOREM DatabaseImplementsDurableData == Spec => ImplementsDurableData
  <1>1. Init => Data!Init
    BY DEF Init, Data!Init
  <1>2. TypeOK /\ FileInv /\ [Next]_vars => [Data!Next]_Data!vars
    <2> SUFFICES ASSUME TypeOK, FileInv, [Next]_vars
                 PROVE  Data!Next \/ UNCHANGED Data!vars
      OBVIOUS
    <2>0. /\ file \in Nat /\ mem \in Nat /\ checkWrite \in Nat /\ exitWrite \in Nat
          /\ backup # None
      BY NoneFacts DEF TypeOK
    <2>1. CASE Boot
      BY <2>0, <2>1 DEF Boot, Load, diskVars, Data!Next, Data!Start
    <2>2. ASSUME NEW flag \in Flags, Change(flag) PROVE Data!Next
      BY <2>2 DEF Change, diskVars, Data!Next, Data!Commit
    <2>3. CASE CheckWriteEnds \/ ExitWriteEnds
      <3>1. /\ panel # "down" /\ panel' = panel
            /\ UNCHANGED <<mem, backup, backupExists, readable>>
            /\ \/ file' = file
               \/ checkWrite # None /\ file' = checkWrite
               \/ exitWrite # None /\ file' = exitWrite
        <4>1. CASE CheckWriteEnds
          BY <4>1 DEF CheckWriteEnds, WriteOutcome
        <4>2. CASE ExitWriteEnds
          BY <4>2 DEF ExitWriteEnds, WriteOutcome
        <4>3. QED
          BY <2>3, <4>1, <4>2
      <3>2. file' \in file .. mem
        BY <2>0, <3>1 DEF FileInv
      <3>3. QED
        BY <3>1, <3>2 DEF Data!Next, Data!Save
    <2>4. CASE Backup
      <3>1. /\ panel # "down" /\ panel' = panel /\ UNCHANGED <<mem, file, readable>>
            /\ \/ backup' = file /\ backupExists' = TRUE
               \/ backup' = backup /\ (backupExists' = FALSE \/ backupExists' = backupExists)
        BY <2>4 DEF Backup
      <3>2. CASE backup' = backup /\ backupExists' = backupExists
        BY <3>1, <3>2 DEF Data!vars
      <3>3. CASE (backup' = file /\ backupExists' = TRUE) \/ backupExists' = FALSE
        BY <3>1, <3>3 DEF Data!Next, Data!Copy
      <3>4. QED
        BY <3>1, <3>2, <3>3
    <2>5. CASE QuitProcess \/ Crash
      <3>1. /\ panel # "down" /\ panel' = "down" /\ readable' \in BOOLEAN
            /\ UNCHANGED <<mem, file, backup>>
            /\ backupExists' = backupExists \/ backupExists' = FALSE
        <4>1. CASE QuitProcess
          BY <4>1 DEF QuitProcess, ProcessEnds, TypeOK
        <4>2. CASE Crash
          BY <4>2 DEF Crash, ProcessEnds
        <4>3. QED
          BY <2>5, <4>1, <4>2
      <3>2. QED
        BY <3>1 DEF Data!Next, Data!Stop
    <2>6. CASE Check \/ HandleShutdown \/ UNCHANGED vars
      <3>1. /\ UNCHANGED <<mem, file, backup, backupExists, readable>>
            /\ (panel' # "down") = (panel # "down")
        BY <2>6 DEF Check, HandleShutdown, vars, diskVars
      <3>2. QED
        BY <3>1 DEF Data!vars
    <2>7. QED
      BY <2>1, <2>2, <2>3, <2>4, <2>5, <2>6 DEF Next
  <1>3. QED
    BY <1>1, <1>2, DatabaseTypeCorrect, FileInvInit, FileInvStep, PTL
       DEF Spec, ImplementsDurableData, Data!Spec

=============================================================================
