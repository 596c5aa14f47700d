-------------------------- MODULE FxSchedulerProofs --------------------------
(***************************************************************************)
(* Proofs about FxScheduler for every length of the day, every set of       *)
(* schedules and any lag of the interval: its type invariant; that a        *)
(* temporary restart never comes after one of the settings; and, until      *)
(* somebody sets a temporary restart, that a skipped restart stays skipped; *)
(* and that the restarts of the settings happen when the interval fires.    *)
(***************************************************************************)
EXTENDS FxScheduler, WellFoundedInduction, TLAPS

-----------------------------------------------------------------------------
(* Facts about the least element of a set of minutes.                       *)

\* A set of minutes with an element has a least one, which Earliest picks.
LEMMA EarliestLeast ==
    ASSUME NEW T, T \subseteq Nat, T # {}
    PROVE  /\ Earliest(T) \in T
           /\ \A k \in T : Earliest(T) <= k
<1>1. PICK x \in T : \A y \in T : ~(<<y, x>> \in OpToRel(<, Nat))
    BY NatLessThanWellFounded, WFMin
<1>2. ASSUME NEW y \in T PROVE x <= y
    <2>1. ~(y < x)
        BY <1>1 DEF OpToRel
    <2>. QED  BY <2>1
<1>. QED  BY <1>2 DEF Earliest

\* The minutes the settings name are minutes, from a on, for a day.
LEMMA SettingTimesRange ==
    ASSUME NEW a \in Nat
    PROVE  /\ SettingTimes(a) \subseteq Nat
           /\ \A m \in SettingTimes(a) : a <= m /\ m <= a + DayLength - 1
BY SchedulerAssumption DEF SettingTimes

\* The window of a day only gains its last minute when the clock moves on.
LEMMA SettingTimesShift ==
    ASSUME NEW a \in Nat, NEW m \in SettingTimes(a + 1)
    PROVE  m \in SettingTimes(a) \/ m = a + DayLength
BY SchedulerAssumption DEF SettingTimes

\* The next restart of the settings, when there is one, is in the window and
\* nothing of the window comes before it.
LEMMA NextScheduledLeast ==
    ASSUME now \in Nat, SettingTimes(now) # {}
    PROVE  /\ NextScheduled \in SettingTimes(now)
           /\ NextScheduled \in Nat
           /\ \A k \in SettingTimes(now) : NextScheduled <= k
BY EarliestLeast, SettingTimesRange DEF NextScheduled

\* What checkSchedule takes for the next restart is a time or false.
LEMMA NextRestartType ==
    ASSUME now \in Nat, NEW temp \in Times
    PROVE  NextRestart(temp) \in Times
BY NextScheduledLeast DEF NextRestart, Times

-----------------------------------------------------------------------------
(* The type invariant.                                                      *)

\* checkSchedule keeps the types of what it writes.
LEMMA CheckScheduleType ==
    ASSUME TypeOK, NEW temp \in Times, NEW skip \in Times,
           CheckSchedule(temp, skip)
    PROVE  /\ nextTempSchedule' \in Times
           /\ calculatedNext' \in Times
           /\ nextSkip' \in Times
           /\ triggered' \in Times
           /\ runner' \in {"idle", "respawning", "alive", "notice", "dead"}
           /\ inGrace' \in BOOLEAN
<1>1. now \in Nat
    BY SchedulerAssumption DEF TypeOK
<1>2. NextRestart(temp) \in Times
    BY <1>1, NextRestartType
<1>. QED
    BY <1>2 DEF TypeOK, CheckSchedule, TriggerServerRestart, InBootCooldown,
                serverVars, Times

LEMMA TypeInit == Init => TypeOK
<1>. SUFFICES ASSUME Init PROVE TypeOK
    OBVIOUS
<1>1. Never \in Times /\ now \in Nat
    BY SchedulerAssumption DEF Init, Times
<1>2. NextRestart(Never) \in Times
    BY <1>1, NextRestartType
<1>3. now \in 0 .. LastMinute /\ lag \in 0 .. MaxLag
    BY SchedulerAssumption DEF Init
<1>. QED  BY <1>1, <1>2, <1>3 DEF Init, TypeOK

LEMMA TypeNext == TypeOK /\ [Next]_vars => TypeOK'
<1>. SUFFICES ASSUME TypeOK, [Next]_vars PROVE TypeOK'
    OBVIOUS
<1>0. /\ Never \in Times
      /\ now \in Nat
      /\ nextTempSchedule \in Times
      /\ nextSkip \in Times
      /\ calculatedNext \in Times
    BY SchedulerAssumption DEF TypeOK, Times
<1>1. CASE MinutePasses
    BY <1>1, SchedulerAssumption
    DEF TypeOK, MinutePasses, schedVars, serverVars, Times
<1>2. CASE Tick
    <2>1. CheckSchedule(nextTempSchedule, nextSkip)
        BY <1>2 DEF Tick
    <2>. QED
        BY <1>0, <1>2, <2>1, CheckScheduleType, SchedulerAssumption DEF TypeOK, Tick
<1>3. CASE SaveSchedule
    BY <1>3, <1>0 DEF TypeOK, SaveSchedule, schedVars, serverVars
<1>4. CASE HandleConfigUpdate
    <2>1. CheckSchedule(Never, Never)
        BY <1>4 DEF HandleConfigUpdate
    <2>. QED
        BY <1>0, <1>4, <2>1, CheckScheduleType DEF TypeOK, HandleConfigUpdate
<1>5. CASE SetNextTempSchedule
    <2>1. PICK d \in TempOffsets :
              /\ CheckSchedule(now + d, nextSkip)
              /\ tempUsed' = TRUE
              /\ UNCHANGED <<now, lag, schedule, settingsChanged, cancelled>>
        BY <1>5 DEF SetNextTempSchedule
    <2>2. now + d \in Times
        BY <1>0, SchedulerAssumption DEF Times
    <2>. QED
        BY <1>0, <2>1, <2>2, CheckScheduleType DEF TypeOK
<1>6. CASE CancelNext
    <2>1. PICK s \in Times : CheckSchedule(Never, s)
        BY <1>0, <1>6 DEF CancelNext
    <2>2. cancelled' \subseteq Nat \X BOOLEAN
        <3>1. cancelled \subseteq Nat \X BOOLEAN
            BY DEF TypeOK
        <3>2. CASE nextTempSchedule # Never
            <4>1. <<nextTempSchedule, TRUE>> \in Nat \X BOOLEAN
                BY <1>0, <3>2 DEF Times
            <4>. QED  BY <1>6, <3>1, <3>2, <4>1 DEF CancelNext
        <3>3. CASE nextTempSchedule = Never /\ calculatedNext # Never
            <4>1. <<calculatedNext, FALSE>> \in Nat \X BOOLEAN
                BY <1>0, <3>3 DEF Times
            <4>. QED  BY <1>6, <3>1, <3>3, <4>1 DEF CancelNext
        <3>. QED  BY <1>6, <3>1, <3>2, <3>3 DEF CancelNext
    <2>3. UNCHANGED <<now, lag, schedule, settingsChanged, tempUsed>>
        BY <1>6 DEF CancelNext
    <2>. QED
        BY <1>0, <2>1, <2>2, <2>3, CheckScheduleType DEF TypeOK
<1>7. CASE EnableNext
    <2>1. CheckSchedule(nextTempSchedule, Never)
        BY <1>7 DEF EnableNext
    <2>. QED
        BY <1>0, <1>7, <2>1, CheckScheduleType DEF TypeOK, EnableNext
<1>8. CASE ServerKilled
    <2>1. NextRestart(Never) \in Times
        BY <1>0, NextRestartType
    <2>2. nextSkip' \in Times
        BY <1>0, <1>8, <2>1 DEF ServerKilled, HandleServerClose, SkipOnClose
    <2>3. cancelled' \subseteq Nat \X BOOLEAN
        <3>1. cancelled \subseteq Nat \X BOOLEAN
            BY DEF TypeOK
        <3>2. Imminent(NextRestart(Never))
                  => <<NextRestart(Never), FALSE>> \in Nat \X BOOLEAN
            BY <2>1 DEF Imminent, Times
        <3>3. cancelled' = cancelled \cup
                  (IF Imminent(NextRestart(Never))
                   THEN {<<NextRestart(Never), FALSE>>} ELSE {})
            BY <1>8 DEF ServerKilled, HandleServerClose
        <3>. QED  BY <3>1, <3>2, <3>3
    <2>. QED
        BY <1>0, <1>8, <2>1, <2>2, <2>3
        DEF ServerKilled, HandleServerClose, TypeOK
<1>9. CASE ServerChanges
    BY <1>0, <1>9 DEF ServerChanges, TypeOK, schedVars
<1>10. CASE UNCHANGED vars
    BY <1>10 DEF vars, schedVars, serverVars, TypeOK
<1>. QED
    BY <1>1, <1>2, <1>3, <1>4, <1>5, <1>6, <1>7, <1>8, <1>9, <1>10 DEF Next

\* Every variable of the scheduler keeps its type.
THEOREM SchedulerTypeCorrect == Spec => []TypeOK
BY TypeInit, TypeNext, PTL DEF Spec

-----------------------------------------------------------------------------
(* What a check leaves behind.                                              *)

\* After a check the calculated restart is the temporary one, or the first
\* of the settings; and what it triggers is due now and not skipped.
LEMMA CheckScheduleResult ==
    ASSUME TypeOK, NEW temp \in Times, NEW skip \in Times,
           CheckSchedule(temp, skip), UNCHANGED <<now, schedule>>
    PROVE  /\ nextSkip' = skip
           /\ nextTempSchedule' \in {temp, Never}
           /\ temp = Never /\ calculatedNext' # Never =>
                 /\ calculatedNext' \in SettingTimes(now)'
                 /\ \A m \in SettingTimes(now)' : calculatedNext' <= m
           /\ temp = Never /\ calculatedNext' = Never => SettingTimes(now)' = {}
           /\ triggered' # Never =>
                 /\ triggered' = now
                 /\ calculatedNext' = now
                 /\ now # skip
<1>1. now \in Nat /\ Never \notin Nat
    BY SchedulerAssumption DEF TypeOK
<1>2. SettingTimes(now)' = SettingTimes(now)
    BY DEF SettingTimes
<1>3. SettingTimes(now) # {} =>
          /\ NextScheduled \in SettingTimes(now)
          /\ NextScheduled \in Nat
          /\ \A k \in SettingTimes(now) : NextScheduled <= k
    BY <1>1, NextScheduledLeast
<1>4. calculatedNext' = NextRestart(temp)
    BY DEF CheckSchedule
<1>5. nextSkip' = skip /\ nextTempSchedule' \in {temp, Never}
    BY DEF CheckSchedule
<1>6. triggered' # Never =>
          triggered' = now /\ calculatedNext' = now /\ now # skip
    BY DEF CheckSchedule
<1>7. temp = Never /\ SettingTimes(now) # {} => calculatedNext' = NextScheduled
    BY <1>4 DEF NextRestart
<1>8. temp = Never /\ SettingTimes(now) = {} => calculatedNext' = Never
    BY <1>4 DEF NextRestart
<1>. QED  BY <1>1, <1>2, <1>3, <1>5, <1>6, <1>7, <1>8

-----------------------------------------------------------------------------
(* A temporary restart comes before those of the settings.  The bound by a  *)
(* day is what makes this survive the clock: the minute the window of a day *)
(* gains when the clock moves on is later than any temporary restart.       *)

TempInv ==
    /\ TypeOK
    /\ nextTempSchedule # Never => nextTempSchedule < now + DayLength
    /\ TempBeforeSetting

LEMMA TempInit == Init => TempInv
BY TypeInit DEF Init, TempInv, TempBeforeSetting

LEMMA TempNext == TempInv /\ [Next]_vars => TempInv'
<1>. SUFFICES ASSUME TempInv, [Next]_vars PROVE TempInv'
    OBVIOUS
<1>. DEFINE Soon(t) == /\ t # Never => t < now + DayLength
                       /\ (t # Never /\ ~settingsChanged)
                              => \A m \in SettingTimes(now) : t <= m
<1>0. /\ TypeOK
      /\ TypeOK'
      /\ Never \in Times
      /\ now \in Nat
      /\ nextTempSchedule \in Times
      /\ nextSkip \in Times
      /\ calculatedNext \in Times
      /\ Soon(nextTempSchedule)
    BY TypeNext, SchedulerAssumption DEF TempInv, TypeOK, Times, TempBeforeSetting
<1>a. ASSUME nextTempSchedule' = Never PROVE TempInv'
    BY <1>a, <1>0 DEF TempInv, TempBeforeSetting
<1>b. ASSUME NEW t \in Times, nextTempSchedule' \in {t, Never}, Soon(t),
             UNCHANGED <<now, schedule, settingsChanged>>
      PROVE  TempInv'
    <2>1. SettingTimes(now)' = SettingTimes(now)
        BY <1>b DEF SettingTimes
    <2>. QED  BY <1>b, <1>0, <2>1 DEF TempInv, TempBeforeSetting
<1>1. CASE MinutePasses
    <2>1. \A m \in SettingTimes(now)' :
              m \in SettingTimes(now) \/ m = now + DayLength
        BY <1>0, <1>1, SettingTimesShift DEF MinutePasses, SettingTimes
    <2>2. /\ now' = now + 1
          /\ nextTempSchedule' = nextTempSchedule
          /\ settingsChanged' = settingsChanged
        BY <1>1 DEF MinutePasses, schedVars
    <2>3. nextTempSchedule' # Never => nextTempSchedule' \in Nat
        BY <1>0, <2>2 DEF Times
    <2>. QED
        BY <1>0, <2>1, <2>2, <2>3, SchedulerAssumption
        DEF TempInv, TempBeforeSetting
<1>2. CASE Tick
    BY <1>0, <1>2, <1>b, CheckScheduleResult DEF Tick
<1>3. CASE SaveSchedule
    BY <1>0, <1>3 DEF SaveSchedule, schedVars, TempInv, TempBeforeSetting
<1>4. CASE HandleConfigUpdate
    BY <1>0, <1>4, <1>a, CheckScheduleResult DEF HandleConfigUpdate
<1>5. CASE SetNextTempSchedule
    <2>1. PICK d \in TempOffsets :
              /\ SettingTimes(now) # {} => ~(NextScheduled < now + d)
              /\ CheckSchedule(now + d, nextSkip)
              /\ UNCHANGED <<now, lag, schedule, settingsChanged, cancelled>>
        BY <1>5 DEF SetNextTempSchedule
    <2>2. now + d \in Times /\ now + d \in Nat /\ now + d < now + DayLength
        BY <1>0, SchedulerAssumption DEF Times
    <2>3. nextTempSchedule' \in {now + d, Never}
        BY <1>0, <2>1, <2>2, CheckScheduleResult
    <2>4. \A m \in SettingTimes(now) : now + d <= m
        BY <1>0, <2>1, <2>2, NextScheduledLeast, SettingTimesRange
    <2>. QED  BY <1>b, <2>1, <2>2, <2>3, <2>4
<1>6. CASE CancelNext
    <2>1. PICK s \in Times : CheckSchedule(Never, s)
        BY <1>0, <1>6 DEF CancelNext
    <2>2. UNCHANGED <<now, schedule>>
        BY <1>6 DEF CancelNext
    <2>. QED  BY <1>0, <1>a, <2>1, <2>2, CheckScheduleResult
<1>7. CASE EnableNext
    BY <1>0, <1>7, <1>b, CheckScheduleResult DEF EnableNext
<1>8. CASE ServerKilled
    BY <1>8, <1>a DEF ServerKilled, HandleServerClose
<1>9. CASE ServerChanges
    BY <1>0, <1>9, <1>b DEF ServerChanges, schedVars
<1>10. CASE UNCHANGED vars
    BY <1>0, <1>10, <1>b DEF vars, schedVars
<1>. QED
    BY <1>1, <1>2, <1>3, <1>4, <1>5, <1>6, <1>7, <1>8, <1>9, <1>10 DEF Next

\* For any schedule, clock and delay of the interval, the temporary restart
\* never comes after one of the settings once their change was handled.
THEOREM TempBeforeSettingSafe == Spec => []TempBeforeSetting
<1>1. TempInv => TempBeforeSetting
    BY DEF TempInv
<1>. QED  BY TempInit, TempNext, <1>1, PTL DEF Spec

-----------------------------------------------------------------------------
(* Without temporary restarts a skip is kept.  While a cancelled restart is *)
(* not over, it is still the one that was calculated last, so nothing can   *)
(* have overwritten the skip.                                               *)

CalculatedIsNext ==
    calculatedNext # Never =>
        /\ calculatedNext < now + DayLength
        /\ \A m \in SettingTimes(now) : calculatedNext <= m
        /\ calculatedNext >= now => calculatedNext \in SettingTimes(now)

CancelledIsSkipped ==
    \A m \in Nat : (<<m, FALSE>> \in cancelled /\ m >= now)
                       => m = calculatedNext /\ m = nextSkip

SkipInv ==
    /\ TypeOK
    /\ ~tempUsed =>
          /\ nextTempSchedule = Never
          /\ ~settingsChanged => CalculatedIsNext /\ CancelledIsSkipped
          /\ SkipKept

LEMMA SkipInit == Init => SkipInv
<1>. SUFFICES ASSUME Init PROVE SkipInv
    OBVIOUS
<1>1. TypeOK /\ now \in Nat /\ Never \notin Nat
    BY TypeInit, SchedulerAssumption DEF TypeOK
<1>2. CalculatedIsNext
    <2>1. calculatedNext = NextRestart(Never)
        BY DEF Init
    <2>2. CASE SettingTimes(now) = {}
        BY <2>1, <2>2 DEF CalculatedIsNext, NextRestart
    <2>3. CASE SettingTimes(now) # {}
        <3>1. calculatedNext = NextScheduled
            BY <2>1, <2>3 DEF NextRestart
        <3>2. /\ calculatedNext \in SettingTimes(now)
              /\ \A k \in SettingTimes(now) : calculatedNext <= k
            BY <1>1, <2>3, <3>1, NextScheduledLeast
        <3>3. calculatedNext < now + DayLength
            BY <1>1, <3>2, SettingTimesRange, SchedulerAssumption
        <3>. QED  BY <3>2, <3>3 DEF CalculatedIsNext
    <2>. QED  BY <2>2, <2>3
<1>. QED  BY <1>1, <1>2 DEF Init, SkipInv, CancelledIsSkipped, SkipKept

LEMMA SkipNext == SkipInv /\ [Next]_vars => SkipInv'
<1>. SUFFICES ASSUME SkipInv, [Next]_vars, ~tempUsed' PROVE SkipInv'
    BY TypeNext DEF SkipInv
<1>0. /\ TypeOK
      /\ TypeOK'
      /\ Never \in Times /\ Never \notin Nat
      /\ now \in Nat
      /\ nextSkip \in Times
      /\ calculatedNext \in Times
      /\ ~tempUsed =>
            /\ nextTempSchedule = Never
            /\ ~settingsChanged => CalculatedIsNext /\ CancelledIsSkipped
    BY TypeNext, SchedulerAssumption DEF SkipInv, TypeOK, Times
<1>a. ASSUME NEW s \in Times, CheckSchedule(Never, s),
             UNCHANGED <<now, schedule>>,
             ~settingsChanged' => \A m \in Nat :
                 (<<m, FALSE>> \in cancelled' /\ m >= now)
                     => m = s /\ m \in SettingTimes(now)
                              /\ \A k \in SettingTimes(now) : m <= k
      PROVE  SkipInv'
    <2>1. /\ nextSkip' = s
          /\ nextTempSchedule' = Never
          /\ calculatedNext' # Never =>
                /\ calculatedNext' \in SettingTimes(now)'
                /\ \A m \in SettingTimes(now)' : calculatedNext' <= m
          /\ calculatedNext' = Never => SettingTimes(now)' = {}
          /\ triggered' # Never =>
                triggered' = now /\ calculatedNext' = now /\ now # s
        BY <1>a, <1>0, CheckScheduleResult
    <2>2. SettingTimes(now)' = SettingTimes(now)
        BY <1>a DEF SettingTimes
    <2>3. \A m \in SettingTimes(now) : m \in Nat /\ m < now + DayLength
        BY <1>0, SettingTimesRange, SchedulerAssumption
    <2>4. CalculatedIsNext'
        BY <1>a, <2>1, <2>2, <2>3 DEF CalculatedIsNext
    <2>5. ~settingsChanged' => CancelledIsSkipped'
        <3>. SUFFICES ASSUME ~settingsChanged', NEW m \in Nat,
                             <<m, FALSE>> \in cancelled', m >= now
                      PROVE  m = calculatedNext' /\ m = nextSkip'
            BY <1>a DEF CancelledIsSkipped
        <3>1. /\ m = s
              /\ m \in SettingTimes(now)
              /\ \A k \in SettingTimes(now) : m <= k
            BY <1>a
        <3>2. /\ calculatedNext' \in SettingTimes(now)
              /\ calculatedNext' <= m
            BY <2>1, <2>2, <3>1
        <3>. QED  BY <2>1, <2>3, <3>1, <3>2
    <2>6. SkipKept'
        <3>. SUFFICES ASSUME ~settingsChanged', <<triggered', FALSE>> \in cancelled'
                      PROVE  FALSE
            BY DEF SkipKept
        <3>1. triggered' \in Nat
            BY <1>0 DEF TypeOK
        <3>2. triggered' = now /\ now # s
            BY <1>0, <2>1, <3>1
        <3>3. <<now, FALSE>> \in cancelled' /\ now >= now
            BY <1>0, <3>2
        <3>4. now = s
            BY <1>a, <1>0, <3>3
        <3>. QED  BY <3>2, <3>4
    <2>. QED  BY <1>0, <2>1, <2>4, <2>5, <2>6 DEF SkipInv
<1>b. ASSUME ~settingsChanged, ~tempUsed
      PROVE  \A m \in Nat : (<<m, FALSE>> \in cancelled /\ m >= now)
                 => /\ m = nextSkip
                    /\ m = calculatedNext
                    /\ m \in SettingTimes(now)
                    /\ \A k \in SettingTimes(now) : m <= k
    BY <1>b, <1>0 DEF CalculatedIsNext, CancelledIsSkipped
<1>c. ASSUME UNCHANGED <<now, schedule, settingsChanged, schedVars, cancelled,
                         tempUsed>>,
             triggered' = Never
      PROVE  SkipInv'
    <2>1. SettingTimes(now)' = SettingTimes(now)
        BY <1>c DEF SettingTimes
    <2>2. <<Never, FALSE>> \notin cancelled
        BY <1>0 DEF TypeOK
    <2>. QED
        BY <1>c, <1>0, <2>1, <2>2
        DEF SkipInv, CalculatedIsNext, CancelledIsSkipped, SkipKept, schedVars
<1>1. CASE MinutePasses
    <2>1. /\ now' = now + 1
          /\ UNCHANGED <<settingsChanged, schedVars>>
          /\ triggered' = Never
          /\ cancelled' \subseteq cancelled
          /\ ~tempUsed
        BY <1>1 DEF MinutePasses
    <2>2. \A m \in SettingTimes(now)' :
              m \in SettingTimes(now) \/ m = now + DayLength
        BY <1>0, <1>1, SettingTimesShift DEF MinutePasses, SettingTimes
    <2>3. \A m \in SettingTimes(now) : m > now => m \in SettingTimes(now)'
        BY <1>0, <1>1, SchedulerAssumption DEF MinutePasses, SettingTimes
    <2>4. calculatedNext # Never => calculatedNext \in Nat
        BY <1>0 DEF Times
    <2>5. ~settingsChanged' => CalculatedIsNext'
        BY <1>0, <2>1, <2>2, <2>3, <2>4, SchedulerAssumption
        DEF CalculatedIsNext, schedVars
    <2>6. ~settingsChanged' => CancelledIsSkipped'
        <3>. SUFFICES ASSUME ~settingsChanged', NEW m \in Nat,
                             <<m, FALSE>> \in cancelled', m >= now'
                      PROVE  m = calculatedNext' /\ m = nextSkip'
            BY DEF CancelledIsSkipped
        <3>1. ~settingsChanged /\ <<m, FALSE>> \in cancelled /\ m >= now
            BY <1>0, <2>1
        <3>2. m = calculatedNext /\ m = nextSkip
            BY <1>0, <2>1, <3>1 DEF CancelledIsSkipped
        <3>. QED  BY <2>1, <3>2 DEF schedVars
    <2>7. SkipKept'
        BY <1>0, <2>1 DEF SkipKept, TypeOK
    <2>. QED  BY <1>0, <2>1, <2>5, <2>6, <2>7 DEF SkipInv, schedVars
<1>2. CASE Tick
    <2>1. /\ CheckSchedule(Never, nextSkip)
          /\ UNCHANGED <<now, schedule, settingsChanged, cancelled>>
          /\ ~tempUsed
        BY <1>0, <1>2 DEF Tick
    <2>. QED  BY <1>0, <1>a, <1>b, <2>1
<1>3. CASE SaveSchedule
    BY <1>0, <1>3 DEF SaveSchedule, schedVars, SkipInv, SkipKept
<1>4. CASE HandleConfigUpdate
    BY <1>0, <1>4, <1>a DEF HandleConfigUpdate
<1>5. CASE SetNextTempSchedule
    BY <1>5 DEF SetNextTempSchedule
<1>6. CASE CancelNext
    <2>0. UNCHANGED <<now, schedule, settingsChanged>> /\ ~tempUsed
        BY <1>6 DEF CancelNext
    <2>1. CASE calculatedNext # Never
        <3>1. /\ CheckSchedule(Never, calculatedNext)
              /\ cancelled' = cancelled \cup {<<calculatedNext, FALSE>>}
            BY <1>0, <1>6, <2>0, <2>1 DEF CancelNext
        <3>2. ~settingsChanged /\ calculatedNext >= now =>
                  /\ calculatedNext \in SettingTimes(now)
                  /\ \A k \in SettingTimes(now) : calculatedNext <= k
            BY <1>0, <2>0, <2>1 DEF CalculatedIsNext
        <3>3. ~settingsChanged => \A m \in Nat :
                  (<<m, FALSE>> \in cancelled' /\ m >= now)
                      => m = calculatedNext
            BY <1>b, <2>0, <3>1
        <3>. QED  BY <1>0, <1>a, <2>0, <3>1, <3>2, <3>3
    <2>2. CASE calculatedNext = Never
        <3>1. CheckSchedule(Never, nextSkip) /\ cancelled' = cancelled
            BY <1>0, <1>6, <2>0, <2>2 DEF CancelNext
        <3>. QED  BY <1>0, <1>a, <1>b, <2>0, <3>1
    <2>. QED  BY <2>1, <2>2
<1>7. CASE EnableNext
    <2>1. /\ CheckSchedule(Never, Never)
          /\ cancelled' = {}
          /\ UNCHANGED <<now, schedule>>
        BY <1>0, <1>7 DEF EnableNext
    <2>. QED  BY <1>0, <1>a, <2>1
<1>8. CASE ServerKilled
    <2>. DEFINE next == NextRestart(Never)
    <2>0. /\ UNCHANGED <<now, schedule, settingsChanged>>
          /\ ~tempUsed
          /\ triggered' = Never
          /\ nextTempSchedule' = Never
          /\ calculatedNext' = next
          /\ nextSkip' = IF Imminent(next) THEN next ELSE nextSkip
          /\ cancelled' = cancelled \cup
                 (IF Imminent(next) THEN {<<next, FALSE>>} ELSE {})
        BY <1>8 DEF ServerKilled, HandleServerClose, SkipOnClose
    <2>1. SettingTimes(now)' = SettingTimes(now)
        BY <2>0 DEF SettingTimes
    <2>2. \/ /\ SettingTimes(now) = {} /\ next = Never
          \/ /\ next \in SettingTimes(now) /\ next \in Nat /\ next # Never
             /\ \A k \in SettingTimes(now) : next <= k
        BY <1>0, NextScheduledLeast DEF NextRestart
    <2>3. \A m \in SettingTimes(now) : m \in Nat /\ m < now + DayLength
        BY <1>0, SettingTimesRange, SchedulerAssumption
    <2>. HIDE DEF next
    <2>4. CalculatedIsNext'
        BY <2>0, <2>1, <2>2, <2>3 DEF CalculatedIsNext
    <2>5. ~settingsChanged => CancelledIsSkipped'
        <3>. SUFFICES ASSUME ~settingsChanged, NEW m \in Nat,
                             <<m, FALSE>> \in cancelled', m >= now
                      PROVE  m = calculatedNext' /\ m = nextSkip'
            BY <2>0 DEF CancelledIsSkipped
        <3>1. CASE <<m, FALSE>> \in cancelled
            <4>1. /\ m = nextSkip
                  /\ m \in SettingTimes(now)
                  /\ \A k \in SettingTimes(now) : m <= k
                BY <1>b, <2>0, <3>1
            <4>2. m = next
                BY <2>2, <4>1
            <4>. QED  BY <2>0, <4>1, <4>2
        <3>2. CASE <<m, FALSE>> \notin cancelled
            <4>1. Imminent(next) /\ m = next
                BY <2>0, <3>2
            <4>. QED  BY <2>0, <4>1
        <3>. QED  BY <3>1, <3>2
    <2>6. SkipKept'
        BY <1>0, <2>0 DEF SkipKept, TypeOK
    <2>. QED  BY <1>0, <2>0, <2>4, <2>5, <2>6 DEF SkipInv
<1>9. CASE ServerChanges
    BY <1>9, <1>c DEF ServerChanges
<1>10. CASE UNCHANGED vars
    <2>1. SettingTimes(now)' = SettingTimes(now)
        BY <1>10 DEF vars, SettingTimes
    <2>. QED
        BY <1>0, <1>10, <2>1
        DEF vars, schedVars, SkipInv, CalculatedIsNext, CancelledIsSkipped, SkipKept
<1>. QED
    BY <1>1, <1>2, <1>3, <1>4, <1>5, <1>6, <1>7, <1>8, <1>9, <1>10 DEF Next

\* Until somebody sets a temporary restart, a cancelled or skipped restart of
\* the settings is never carried out unless enabled, or saved anew, since.
THEOREM SkipKeptSafe == Spec => []SkipKeptWithoutTemp
<1>1. SkipInv => SkipKeptWithoutTemp
    BY DEF SkipInv, SkipKeptWithoutTemp
<1>2. SkipInv /\ [Next]_vars => SkipInv'
    BY SkipNext
<1>. QED  BY SkipInit, <1>1, <1>2, PTL DEF Spec

-----------------------------------------------------------------------------
(* Restarts of the settings happen.                                         *)

\* In a minute that the settings name, that minute is the next restart.
LEMMA DueIsNext ==
    ASSUME now \in Nat, now % DayLength \in schedule
    PROVE  NextRestart(Never) = now
<1>1. now \in SettingTimes(now)
    BY SchedulerAssumption DEF SettingTimes
<1>2. NextScheduled \in Nat /\ NextScheduled <= now /\ now <= NextScheduled
    BY <1>1, NextScheduledLeast, SettingTimesRange
<1>. QED  BY <1>1, <1>2 DEF NextRestart

\* For every schedule and lag of the interval: when it fires in a minute that
\* the settings name, a server that is alive gets its notice, unless that
\* restart was skipped or a temporary one is set.
THEOREM ScheduledRestartSafe == Spec => ScheduledRestartHappens
<1>1. ASSUME TypeOK, [Next]_vars, lag > 0, lag' = 0,
             now % DayLength \in schedule,
             nextTempSchedule = Never, nextSkip # now, runner = "alive"
      PROVE  runner' = "notice"
    <2>1. now \in Nat /\ lag \in Nat /\ Never \notin Nat
        BY <1>1, SchedulerAssumption DEF TypeOK
    <2>2. Tick
        <3>1. ~MinutePasses
            BY <1>1, <2>1 DEF MinutePasses
        <3>2. lag' # lag
            BY <1>1
        <3>. QED
            BY <1>1, <3>1, <3>2
            DEF Next, SaveSchedule, HandleConfigUpdate, SetNextTempSchedule,
                CancelNext, EnableNext, ServerKilled, ServerChanges, vars
    <2>3. CheckSchedule(Never, nextSkip)
        BY <1>1, <2>2 DEF Tick
    <2>4. NextRestart(Never) = now
        BY <1>1, <2>1, DueIsNext
    <2>. QED
        BY <1>1, <2>1, <2>3, <2>4 DEF CheckSchedule, TriggerServerRestart
<1>2. TypeOK /\ [Next]_vars =>
          [(/\ lag > 0 /\ lag' = 0
            /\ now % DayLength \in schedule
            /\ nextTempSchedule = Never /\ nextSkip # now
            /\ runner = "alive") => runner' = "notice"]_vars
    BY <1>1
<1>. QED
    BY SchedulerTypeCorrect, <1>2, PTL DEF Spec, ScheduledRestartHappens

=============================================================================
