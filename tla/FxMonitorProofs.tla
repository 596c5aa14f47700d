--------------------------- MODULE FxMonitorProofs ---------------------------
(***************************************************************************)
(* Proofs about FxMonitor for every value of the limits.                    *)
(***************************************************************************)
EXTENDS FxMonitor, Integers, TLAPS

LEMMA LimitFacts ==
    /\ AgeLimit \in Nat /\ Never = AgeLimit + 1
    /\ \A l \in Limits : l \in Nat /\ 1 <= l /\ l < AgeLimit
    /\ 0 \in Age /\ Never \in Age /\ 0 # Never
  BY MonitorAssumption DEF Never, Age

LEMMA LaterFacts ==
  ASSUME NEW age \in Age, NEW secs \in Nat
  PROVE  /\ Later(age, secs) \in Age
         /\ (Later(age, secs) = Never) <=> (age = Never)
         /\ age # Never => Later(age, secs) = Capped(age + secs)
  BY LimitFacts DEF Later, Capped, Age

LEMMA ResetFacts ==
    /\ sw \in [Watches -> Age] => ResetWatches \in [Watches -> Age]
    /\ ResetWatches["heartBeat"] = Never
    /\ ResetWatches["firstHeartBeat"] = Never
    /\ ResetWatches["healthCheck"] = Never
    /\ ResetWatches["statusUpdate"] = Never
    /\ ResetWatches["hangWarning"] = 0
  BY LimitFacts DEF ResetWatches, Watches
LEMMA LimitsNat ==
    /\ HBDelay \in Limits /\ HBFatal \in Limits /\ HCDelay \in Limits
    /\ HCFatal \in Limits /\ BootInitAfterHb \in Limits /\ BootNoEvent \in Limits
    /\ BootResEventGap \in Limits /\ Tolerance \in Limits /\ Grace \in Limits
    /\ FrozenLimit \in Limits /\ HangWarnGap \in Limits /\ HangWarnLead \in Limits
  BY DEF Limits

-----------------------------------------------------------------------------
LEMMA TypeUpdateStatus == TypeOK /\ UpdateStatus => TypeOK'
  <1> SUFFICES ASSUME TypeOK, UpdateStatus PROVE TypeOK'
    OBVIOUS
  <1> USE LimitFacts
  <1>1. ResetState => sw' \in [Watches -> Age] /\ booted' \in BOOLEAN
    BY ResetFacts DEF ResetState, TypeOK
  <1>2. Look => steady' \in 0 .. HangWarnLead
    BY LimitsNat DEF Look, TypeOK
  <1>3. sw' \in [Watches -> Age]
    BY <1>1 DEF UpdateStatus, SkipIdle, SkipRestarting, SkipFrozen, SkipHealthy,
                Restart, Wait, TypeOK
  <1>4. booted' \in BOOLEAN /\ isAwaitingRestart' \in BOOLEAN /\ due' \in BOOLEAN
    BY <1>1 DEF UpdateStatus, SkipIdle, SkipRestarting, SkipFrozen, SkipHealthy,
                Restart, Wait, TypeOK
  <1>5. failures' \in 0 .. 2
    BY DEF UpdateStatus, SkipIdle, SkipRestarting, SkipFrozen, SkipHealthy,
           Restart, Wait, TypeOK, historyVars
  <1>6. confirmed' \in BOOLEAN /\ answered' \in BOOLEAN /\ quiet' \in 0 .. HBDelay
        /\ warned' \in Age
    BY DEF UpdateStatus, SkipIdle, SkipRestarting, SkipFrozen, SkipHealthy,
           Restart, Wait, TypeOK, historyVars
  <1>7. steady' \in 0 .. HangWarnLead
    BY <1>2 DEF UpdateStatus, SkipIdle, SkipRestarting, SkipFrozen, SkipHealthy,
                Restart, Wait, TypeOK, historyVars
  <1>8. UNCHANGED <<serverVars, lateAnswer>>
    BY DEF UpdateStatus
  <1>9. QED
    BY <1>3, <1>4, <1>5, <1>6, <1>7, <1>8 DEF TypeOK, serverVars

LEMMA TypePass ==
  ASSUME TypeOK, NEW secs \in Nat, Pass(secs), quiet' \in 0 .. HBDelay
  PROVE  TypeOK'
  <1> USE LimitFacts
  <1>1. \A w \in Watches : Later(sw[w], secs) \in Age
    BY LaterFacts DEF TypeOK
  <1>2. sw' \in [Watches -> Age] /\ warned' \in Age
    BY <1>1, LaterFacts DEF Pass, TypeOK
  <1>3. uptime' \in 0 .. AgeLimit
    BY DEF Pass, Capped, TypeOK
  <1>4. QED
    BY <1>2, <1>3 DEF Pass, TypeOK

\* Every variable of the monitor keeps its type; in particular the clocks stay
\* within their bound.
THEOREM MonitorTypeCorrect == Spec => []TypeOK
  <1>1. Init => TypeOK
    <2>1. 0 \in 0 .. HBDelay /\ 0 \in 0 .. HangWarnLead /\ 0 \in 0 .. AgeLimit
      BY LimitFacts, LimitsNat
    <2> SUFFICES ASSUME Init PROVE TypeOK
      OBVIOUS
    <2>2. sw \in [Watches -> Age]
      BY LimitFacts DEF Init
    <2>3. /\ child = "none" /\ isAwaitingSpawn = FALSE /\ uptime = 0
          /\ isAwaitingRestart = FALSE /\ booted = FALSE /\ due = FALSE
          /\ lateAnswer = FALSE /\ failures = 0 /\ confirmed = FALSE
          /\ answered = FALSE /\ quiet = 0 /\ warned = Never /\ steady = 0
      BY DEF Init
    <2>4. failures \in 0 .. 2 /\ warned \in Age
      BY <2>3, LimitFacts
    <2>5. QED
      BY <2>1, <2>2, <2>3, <2>4 DEF TypeOK
  <1>2. TypeOK /\ [Next]_vars => TypeOK'
    <2> SUFFICES ASSUME TypeOK, [Next]_vars PROVE TypeOK'
      OBVIOUS
    <2> USE LimitFacts
    <2>1. CASE UpdateStatus
      BY <2>1, TypeUpdateStatus
    <2>2. CASE Second
      <3>1. quiet' \in 0 .. HBDelay
        BY <2>2, LimitsNat DEF Second, TypeOK
      <3>2. Pass(1)
        BY <2>2 DEF Second
      <3>3. QED
        BY <3>1, <3>2, TypePass
    <2>3. ASSUME NEW secs \in FreezeLengths, Freeze(secs) PROVE TypeOK'
      <3>1. secs \in Nat
        BY MonitorAssumption
      <3>2. Pass(secs) /\ quiet' \in 0 .. HBDelay
        BY <2>3 DEF Freeze, TypeOK
      <3>3. QED
        BY <3>1, <3>2, TypePass
    <2>4. CASE HandleHeartBeat
      <3>1. sw' \in [Watches -> Age]
        BY <2>4 DEF HandleHeartBeat, TypeOK
      <3>2. quiet' \in 0 .. HBDelay
        BY <2>4, LimitsNat DEF HandleHeartBeat
      <3>3. QED
        BY <2>4, <3>1, <3>2 DEF HandleHeartBeat, TypeOK, serverVars
    <2>5. CASE HealthCheckAnswered
      BY <2>5 DEF HealthCheckAnswered, TypeOK, serverVars
    <2>6. CASE LateAnswer
      BY <2>6 DEF LateAnswer, TypeOK, serverVars, historyVars
    <2>7. CASE OnResourceStarting
      BY <2>7 DEF OnResourceStarting, TypeOK, serverVars, historyVars
    <2>8. CASE OnResourceStart
      BY <2>8 DEF OnResourceStart, TypeOK, serverVars, historyVars
    <2>9. CASE Exit
      BY <2>9 DEF Exit, TypeOK, historyVars
    <2>10. CASE Close
      BY <2>10 DEF Close, TypeOK, historyVars
    <2>11. ASSUME NEW toRestart \in BOOLEAN, KillServer(toRestart) PROVE TypeOK'
      <3>1. sw' \in [Watches -> Age] /\ lateAnswer' \in BOOLEAN
        BY <2>11, MonitorAssumption DEF KillServer, TypeOK
      <3>2. QED
        BY <2>11, <3>1 DEF KillServer, TypeOK, historyVars
    <2>12. CASE SpawnDelayOver
      BY <2>12 DEF SpawnDelayOver, TypeOK, historyVars
    <2>13. CASE SpawnServer
      <3>1. sw' \in [Watches -> Age] /\ booted' = FALSE
        BY <2>13, ResetFacts DEF SpawnServer, ResetState, TypeOK
      <3>2. 0 \in 0 .. HBDelay /\ 0 \in 0 .. HangWarnLead
        BY LimitsNat
      <3>3. QED
        <4>1. /\ child' = "alive" /\ isAwaitingRestart' = FALSE /\ failures' = 0
              /\ confirmed' = FALSE /\ answered' = FALSE /\ quiet' = 0
              /\ warned' = Never /\ steady' = 0
              /\ UNCHANGED <<isAwaitingSpawn, uptime, due, lateAnswer>>
          BY <2>13 DEF SpawnServer
        <4>2. failures' \in 0 .. 2 /\ warned' \in Age
          BY <4>1
        <4>3. QED
          BY <3>1, <3>2, <4>1, <4>2 DEF TypeOK
    <2>14. CASE UNCHANGED vars
      BY <2>14 DEF vars, serverVars, historyVars, TypeOK
    <2>15. QED
      BY <2>1, <2>2, <2>3, <2>4, <2>5, <2>6, <2>7, <2>8, <2>9, <2>10, <2>11,
         <2>12, <2>13, <2>14 DEF Next
  <1>3. QED
    BY <1>1, <1>2, PTL DEF Spec

-----------------------------------------------------------------------------
(* One boot failure per server.                                             *)

BootInv ==
    /\ child = "none" => uptime = 0
    /\ failures <= 1
    /\ confirmed => failures = 0
    /\ (child # "none" /\ ~isAwaitingRestart) =>
          /\ failures = 0
          /\ confirmed => booted

LEMMA BootInvInit == Init => BootInv
  BY DEF Init, BootInv

LEMMA BootInvStep == TypeOK /\ BootInv /\ [Next]_vars => BootInv'
  <1> SUFFICES ASSUME TypeOK, BootInv, [Next]_vars PROVE BootInv'
    OBVIOUS
  <1> USE LimitFacts
  <1>1. CASE UpdateStatus
    <2>0. UNCHANGED <<child, uptime>>
      BY <1>1 DEF UpdateStatus, serverVars
    <2>1. CASE SkipIdle
      BY <2>0, <2>1 DEF SkipIdle, IsIdle, BootInv, historyVars
    <2>2. CASE SkipRestarting
      BY <2>0, <2>2 DEF SkipRestarting, BootInv, historyVars
    <2>3. CASE SkipFrozen
      BY <2>0, <2>3 DEF SkipFrozen, BootInv, historyVars
    <2>4. CASE SkipHealthy
      BY <2>0, <2>4 DEF SkipHealthy, Judged, BootInv
    <2>5. CASE Restart
      <3>1. child # "none"
        BY <2>5, LimitsNat DEF Restart, MustRestart, BootInv
      <3>2. QED
        BY <2>0, <2>5, <3>1 DEF Restart, Judged, BootInv
    <2>6. CASE Wait
      BY <2>0, <2>6 DEF Wait, BootInv
    <2>7. QED
      BY <1>1, <2>1, <2>2, <2>3, <2>4, <2>5, <2>6 DEF UpdateStatus
  <1>2. ASSUME NEW secs, Pass(secs) PROVE BootInv'
    BY <1>2 DEF Pass, BootInv
  <1>3. CASE Second \/ \E secs \in FreezeLengths : Freeze(secs)
    BY <1>2, <1>3 DEF Second, Freeze
  <1>4. CASE HandleHeartBeat \/ HealthCheckAnswered
    BY <1>4 DEF HandleHeartBeat, HealthCheckAnswered, BootInv, serverVars
  <1>5. CASE LateAnswer \/ OnResourceStarting \/ OnResourceStart
    BY <1>5 DEF LateAnswer, OnResourceStarting, OnResourceStart, BootInv,
                serverVars, historyVars
  <1>6. CASE Exit \/ Close \/ SpawnDelayOver
    BY <1>6 DEF Exit, Close, SpawnDelayOver, BootInv, historyVars
  <1>7. ASSUME NEW toRestart \in BOOLEAN, KillServer(toRestart) PROVE BootInv'
    BY <1>7 DEF KillServer, BootInv, historyVars
  <1>8. CASE SpawnServer
    BY <1>8 DEF SpawnServer, IsIdle, BootInv
  <1>9. CASE UNCHANGED vars
    BY <1>9 DEF vars, serverVars, historyVars, BootInv
  <1>10. QED
    BY <1>1, <1>3, <1>4, <1>5, <1>6, <1>7, <1>8, <1>9 DEF Next

\* One server makes at most one boot failure, and none once its boot was
\* confirmed, however it is frozen, killed and restarted.
THEOREM BootFailureOnceSafe == Spec => []BootFailureOnce
  <1>1. BootInv => BootFailureOnce
    BY DEF BootInv, BootFailureOnce
  <1>2. QED
    BY <1>1, MonitorTypeCorrect, BootInvInit, BootInvStep, PTL DEF Spec

-----------------------------------------------------------------------------
(* A hang or a stuck boot is caught.                                        *)

HangInv ==
    /\ child = "none" => uptime = 0
    /\ Started("heartBeat") <=> Started("firstHeartBeat")
    /\ isAwaitingRestart => ~Started("statusUpdate")
    /\ Started("statusUpdate") => sw["statusUpdate"] <= IF due THEN 1 ELSE 0
    /\ HangCaught

LEMMA HangInvInit == Init => HangInv
  BY LimitFacts DEF Init, HangInv, HangCaught, Started, Watches

\* The steps that leave the monitor's clocks alone, or kill the server.
LEMMA HangInvServer ==
  ASSUME TypeOK, HangInv,
         \/ Exit \/ Close \/ SpawnDelayOver
         \/ \E toRestart \in BOOLEAN : KillServer(toRestart)
         \/ SpawnServer
  PROVE  HangInv'
  <1> USE LimitFacts
  <1>1. CASE Exit \/ Close \/ SpawnDelayOver
    BY <1>1 DEF Exit, Close, SpawnDelayOver, HangInv, HangCaught, Started
  <1>2. ASSUME NEW toRestart \in BOOLEAN, KillServer(toRestart) PROVE HangInv'
    <2>1. /\ child' = "none" /\ uptime' = 0
          /\ UNCHANGED <<isAwaitingRestart, due>>
          /\ \A w \in {"heartBeat", "firstHeartBeat", "statusUpdate"} : sw'[w] = sw[w]
      BY <1>2 DEF KillServer, TypeOK, Watches
    <2>2. QED
      BY <2>1 DEF HangInv, HangCaught, Started
  <1>3. CASE SpawnServer
    <2>1. /\ child' = "alive" /\ uptime' = 0 /\ isAwaitingRestart' = FALSE
          /\ sw' = ResetWatches
      BY <1>3 DEF SpawnServer, IsIdle, ResetState, HangInv
    <2>2. ~(0 >= Grace)
      BY LimitsNat
    <2>3. QED
      BY <2>1, <2>2, ResetFacts DEF HangInv, HangCaught, Started
  <1>4. QED
    BY <1>1, <1>2, <1>3

\* What reaches the monitor only makes clocks start anew.
LEMMA HangInvEvent ==
  ASSUME TypeOK, HangInv,
         \/ HandleHeartBeat \/ HealthCheckAnswered \/ LateAnswer
         \/ OnResourceStarting \/ OnResourceStart
  PROVE  HangInv'
  <1> USE LimitFacts
  <1>l. /\ 0 < HBFatal /\ 0 < HCFatal /\ 0 <= BootInitAfterHb /\ 0 < Tolerance
    BY LimitsNat
  <1>1. CASE HandleHeartBeat
    <2>1. /\ sw'["heartBeat"] = 0
          /\ sw'["firstHeartBeat"] = IF sw["firstHeartBeat"] = Never THEN 0
                                                     ELSE sw["firstHeartBeat"]
          /\ \A w \in Watches \ {"heartBeat", "firstHeartBeat"} : sw'[w] = sw[w]
          /\ UNCHANGED <<child, uptime, isAwaitingRestart, due>>
      BY <1>1 DEF HandleHeartBeat, TypeOK, Watches, serverVars
    <2>2. QED
      BY <1>l, <2>1 DEF HangInv, HangCaught, Started, Watches
  <1>2. CASE HealthCheckAnswered \/ LateAnswer
    <2>1. /\ sw'["healthCheck"] = 0
          /\ \A w \in Watches \ {"healthCheck"} : sw'[w] = sw[w]
          /\ UNCHANGED <<child, uptime, isAwaitingRestart, due>>
      BY <1>2 DEF HealthCheckAnswered, LateAnswer, TypeOK, Watches, serverVars
    <2>2. QED
      BY <1>l, <2>1 DEF HangInv, HangCaught, Started, Watches
  <1>3. CASE OnResourceStarting
    <2>1. /\ sw'["resBooting"] = 0
          /\ \A w \in Watches \ {"resBooting"} : sw'[w] = sw[w]
          /\ UNCHANGED <<child, uptime, isAwaitingRestart, due>>
      BY <1>3 DEF OnResourceStarting, TypeOK, Watches, serverVars
    <2>2. QED
      BY <1>l, <2>1 DEF HangInv, HangCaught, Started, Watches
  <1>4. CASE OnResourceStart
    <2>1. /\ sw'["lastBooted"] = 0
          /\ \A w \in Watches \ {"lastBooted"} : sw'[w] = sw[w]
          /\ UNCHANGED <<child, uptime, isAwaitingRestart, due>>
      BY <1>4 DEF OnResourceStart, TypeOK, Watches, serverVars
    <2>2. QED
      BY <2>1 DEF HangInv, HangCaught, Started, Watches
  <1>5. QED
    BY <1>1, <1>2, <1>3, <1>4

\* A second later every clock that runs is one second older.
LEMMA SecondFacts ==
  ASSUME TypeOK, Second
  PROVE  \A w \in Watches : /\ sw[w] \in Age
                            /\ (sw'[w] = Never) <=> (sw[w] = Never)
                            /\ sw[w] # Never => sw'[w] = Capped(sw[w] + 1)
  <1> SUFFICES ASSUME NEW w \in Watches
               PROVE  /\ sw[w] \in Age
                      /\ (sw'[w] = Never) <=> (sw[w] = Never)
                      /\ sw[w] # Never => sw'[w] = Capped(sw[w] + 1)
    OBVIOUS
  <1>1. sw'[w] = Later(sw[w], 1)
    BY DEF Second, Pass
  <1>2. sw[w] \in Age
    BY DEF TypeOK
  <1>3. QED
    BY <1>1, <1>2, LaterFacts

LEMMA HangInvSecond == TypeOK /\ HangInv /\ Second => HangInv'
  <1> SUFFICES ASSUME TypeOK, HangInv, Second PROVE HangInv'
    OBVIOUS
  <1> USE LimitFacts
  <1>1. /\ ~due /\ due' = TRUE
        /\ UNCHANGED <<child, isAwaitingRestart>>
        /\ child # "alive" => uptime' = uptime
    BY DEF Second, Pass
  <1>2. \A w \in Watches : /\ sw[w] \in Age
                           /\ (sw'[w] = Never) <=> (sw[w] = Never)
                           /\ sw[w] # Never => sw'[w] = Capped(sw[w] + 1)
    BY SecondFacts
  <1>3. Started("statusUpdate")' => sw'["statusUpdate"] <= 1
    <2>1. sw["statusUpdate"] # Never => sw["statusUpdate"] <= 0
      BY <1>1 DEF HangInv, Started
    <2>2. QED
      BY <1>2, <2>1 DEF Capped, Started, Watches, Age
  <1>4. QED
    BY <1>1, <1>2, <1>3 DEF HangInv, HangCaught, Started, Watches

LEMMA HangInvUpdate ==
  ASSUME FrozenLimit > 1
  PROVE  TypeOK /\ HangInv /\ UpdateStatus => HangInv'
  <1> SUFFICES ASSUME TypeOK, HangInv, UpdateStatus PROVE HangInv'
    OBVIOUS
  <1> USE LimitFacts
  <1>0. UNCHANGED <<child, uptime>> /\ due' = FALSE
    BY DEF UpdateStatus, serverVars
  <1>n. FrozenLimit \in Nat
    BY LimitsNat
  <1>1. CASE SkipIdle
    <2>1. sw' = ResetWatches /\ child = "none" /\ isAwaitingRestart' = FALSE
      BY <1>1 DEF SkipIdle, IsIdle, ResetState
    <2>2. QED
      BY <1>0, <2>1, ResetFacts DEF HangInv, HangCaught, Started
  <1>2. CASE SkipRestarting
    <2>1. sw' = sw /\ isAwaitingRestart /\ isAwaitingRestart' = isAwaitingRestart
      BY <1>2 DEF SkipRestarting
    <2>2. QED
      BY <1>0, <2>1 DEF HangInv, HangCaught, Started
  <1>3. CASE SkipFrozen
    <2>1. sw["statusUpdate"] # Never /\ sw["statusUpdate"] >= FrozenLimit
      BY <1>3 DEF SkipFrozen, IsOver, Started
    <2>2. sw["statusUpdate"] <= 1
      BY <2>1 DEF HangInv, Started, UpdateStatus
    <2>3. sw["statusUpdate"] \in Nat
      BY DEF TypeOK, Watches, Age
    <2>4. QED
      BY <1>n, <2>1, <2>2, <2>3
  <1>4. CASE Restart
    <2>1. sw' = ResetWatches /\ isAwaitingRestart'
      BY <1>4 DEF Restart, ResetState
    <2>2. QED
      BY <1>0, <2>1, ResetFacts DEF HangInv, HangCaught, Started
  <1>5. CASE SkipHealthy \/ Wait
    <2>1. /\ sw'["statusUpdate"] = 0
          /\ \A w \in Watches \ {"statusUpdate", "hangWarning"} : sw'[w] = sw[w]
          /\ UNCHANGED isAwaitingRestart /\ ~isAwaitingRestart
      BY <1>5 DEF SkipHealthy, Wait, Judged, TypeOK, Watches
    <2>a. \A w \in Watches : sw[w] \in Age
      BY DEF TypeOK
    <2>2. CASE SkipHealthy
      <3>1. /\ Started("heartBeat") /\ sw["heartBeat"] < HBFatal
            /\ Started("healthCheck") /\ sw["healthCheck"] < HCFatal
        <4>1. /\ Started("heartBeat") /\ ~(sw["heartBeat"] >= HBDelay)
              /\ Started("healthCheck") /\ ~(sw["healthCheck"] >= HCDelay)
          BY <2>2 DEF SkipHealthy, HBHealthy, HCHealthy, IsOver
        <4>2. sw["heartBeat"] \in Nat /\ sw["healthCheck"] \in Nat
          BY <2>a DEF Watches, Age
        <4>3. QED
          BY <4>1, <4>2, LimitsNat, MonitorAssumption
      <3>2. QED
        BY <1>0, <2>1, <3>1 DEF HangInv, HangCaught, Started, Watches
    <2>3. CASE Wait
      <3>1. ASSUME uptime >= Grace
            PROVE  ~HttpBootTimedOut /\ ~ResourceBootTimedOut /\ ~Fatal
        BY <2>3, <3>1 DEF Wait, MustRestart
      <3>2. \A w \in Watches : sw[w] \in Nat
        BY <2>a DEF Age
      <3>3. ASSUME uptime >= Grace
            PROVE  /\ Started("heartBeat") => sw["heartBeat"] < HBFatal
                   /\ Started("healthCheck") => sw["healthCheck"] < HCFatal
        BY <3>1, <3>2, <3>3, LimitsNat DEF Fatal, IsOver, Watches
      <3>4. ASSUME uptime >= Grace, Started("heartBeat"), ~Started("healthCheck")
            PROVE  sw["firstHeartBeat"] <= BootInitAfterHb
        BY <3>1, <3>2, <3>4, LimitsNat DEF HttpBootTimedOut, Watches
      <3>5. ASSUME uptime >= Grace, ~Started("heartBeat"), Started("resBooting")
            PROVE  sw["resBooting"] < Tolerance
        BY <3>1, <3>2, <3>5, LimitsNat DEF ResourceBootTimedOut, IsOver, Watches
      <3>6. ASSUME uptime >= Grace, ~Started("heartBeat"), ~Started("resBooting"),
                   ~Started("lastBooted")
            PROVE  uptime <= BootNoEvent
        BY <3>1, <3>6, LimitsNat DEF ResourceBootTimedOut, TypeOK
      <3>7. QED
        BY <1>0, <2>1, <3>3, <3>4, <3>5, <3>6
        DEF HangInv, HangCaught, Started, Watches
    <2>4. QED
      BY <1>5, <2>2, <2>3
  <1>6. QED
    BY <1>1, <1>2, <1>3, <1>4, <1>5 DEF UpdateStatus

\* On a machine that is never frozen, whatever the limits: a server out of its
\* grace period that the monitor lets live is neither hung nor stuck booting.
THEOREM HangCaughtSafe ==
  ASSUME FreezeLengths = {}, FrozenLimit > 1
  PROVE  Spec => []HangCaught
  <1>1. TypeOK /\ HangInv /\ [Next]_vars => HangInv'
    <2> SUFFICES ASSUME TypeOK, HangInv, [Next]_vars PROVE HangInv'
      OBVIOUS
    <2>1. CASE UNCHANGED vars
      BY <2>1 DEF vars, serverVars, HangInv, HangCaught, Started
    <2>2. QED
      BY <2>1, HangInvServer, HangInvEvent, HangInvSecond, HangInvUpdate DEF Next
  <1>2. HangInv => HangCaught
    BY DEF HangInv
  <1>3. QED
    BY <1>1, <1>2, MonitorTypeCorrect, HangInvInit, PTL DEF Spec

-----------------------------------------------------------------------------
(* Players are warned of a partial hang.                                    *)

Hang == HCFatal - HangWarnLead      \* a hang longer than this is warned of

Since == IF due THEN 1 ELSE 0       \* seconds since the monitor looked

\* With h the time without an answer: the last warning, w seconds ago, was
\* either before that answer or in this very hang, and once the hang was looked
\* at with healthy heartbeats it was announced, as long ago as they have been
\* healthy.
WarnInv ==
    (child = "alive" /\ ~isAwaitingRestart) =>
        /\ Started("healthCheck") => sw["healthCheck"] <= uptime
        /\ Started("hangWarning")
        /\ warned = Never => sw["hangWarning"] >= uptime
        /\ warned # Never => sw["hangWarning"] = warned
        /\ (warned # Never /\ Started("healthCheck")) =>
              \/ warned >= sw["healthCheck"]
              \/ warned <= sw["healthCheck"] - Hang - 1
        /\ (/\ Started("healthCheck") /\ steady >= 1
            /\ sw["healthCheck"] - Since > Hang) =>
              /\ warned # Never
              /\ warned <= sw["healthCheck"] - Hang - 1
              /\ \/ steady <= warned - Since + 1
                 \/ warned - Since >= sw["healthCheck"] - Since - Hang - 1

LEMMA WarnInvInit == Init => WarnInv
  BY DEF Init, WarnInv

\* The limits of the code, and a grace period that ends before a hang is warned of.
WarnLimits ==
    /\ FreezeLengths = {}
    /\ FrozenLimit > 1
    /\ HangWarnLead > 1
    /\ HangWarnLead <= HangWarnGap
    /\ HangWarnGap <= Hang + 1
    /\ HCDelay <= Hang + 1
    /\ Grace <= Hang + 1

LEMMA WarnTypes ==
  ASSUME TypeOK
  PROVE  /\ \A w \in Watches : sw[w] \in Nat
         /\ uptime \in Nat /\ uptime <= AgeLimit /\ warned \in Nat /\ steady \in Nat
         /\ Hang \in Nat /\ 1 <= Hang /\ Hang = HCFatal - HangWarnLead
         /\ \A l \in {HCFatal, HangWarnLead, HangWarnGap, HCDelay, Grace, FrozenLimit} :
               l \in Nat /\ 1 <= l /\ l < AgeLimit
         /\ AgeLimit \in Nat /\ Never = AgeLimit + 1
  BY LimitFacts, LimitsNat, MonitorAssumption DEF TypeOK, Age, Hang

\* While the monitor watches, a hang is shorter than the limit at each look.
LEMMA HangBelowLimit ==
  ASSUME WarnLimits, TypeOK, HangInv, WarnInv,
         child = "alive", ~isAwaitingRestart, ~due, Started("healthCheck")
  PROVE  sw["healthCheck"] < HCFatal
  <1>1. CASE uptime >= Grace
    BY <1>1 DEF HangInv, HangCaught
  <1>2. CASE ~(uptime >= Grace)
    <2>1. sw["healthCheck"] <= uptime
      BY DEF WarnInv
    <2>2. QED
      BY <1>2, <2>1, WarnTypes DEF WarnLimits, Watches
  <1>3. QED
    BY <1>1, <1>2

LEMMA WarnInvSecond ==
  ASSUME WarnLimits, TypeOK, HangInv, WarnInv, Second
  PROVE  WarnInv'
  <1> SUFFICES ASSUME child' = "alive", ~isAwaitingRestart' PROVE WarnInv'
    BY DEF WarnInv
  <1>1. /\ child = "alive" /\ ~isAwaitingRestart /\ ~due /\ due' = TRUE
        /\ uptime' = Capped(uptime + 1) /\ warned' = Later(warned, 1)
        /\ steady' = steady
    BY DEF Second, Pass
  <1>2. DEFINE h == sw["healthCheck"]
               g == sw["hangWarning"]
               w == warned
               u == uptime
  <1>3. /\ h \in Nat /\ g \in Nat /\ w \in Nat /\ u \in Nat /\ steady \in Nat
        /\ h <= Never /\ g <= Never /\ w <= Never /\ u <= AgeLimit
        /\ AgeLimit \in Nat /\ Never = AgeLimit + 1
    BY WarnTypes, LimitFacts DEF Watches, TypeOK, Age
  <1>4. /\ (h' = Never) <=> (h = Never)
        /\ h # Never => h' = IF h + 1 > AgeLimit THEN AgeLimit ELSE h + 1
        /\ (g' = Never) <=> (g = Never)
        /\ g # Never => g' = IF g + 1 > AgeLimit THEN AgeLimit ELSE g + 1
    BY SecondFacts DEF Watches, Capped
  <1>5. /\ (w' = Never) <=> (w = Never)
        /\ w # Never => w' = IF w + 1 > AgeLimit THEN AgeLimit ELSE w + 1
        /\ u' = IF u + 1 > AgeLimit THEN AgeLimit ELSE u + 1
    BY <1>1, <1>3, LaterFacts DEF Capped, TypeOK
  <1>6. h # Never => h + 1 < AgeLimit
    BY <1>1, <1>3, HangBelowLimit, WarnTypes DEF Started
  <1>7. /\ h # Never => h <= u
        /\ g # Never
        /\ w = Never => g >= u
        /\ w # Never => g = w
        /\ (w # Never /\ h # Never) => w >= h \/ w <= h - Hang - 1
        /\ (h # Never /\ steady >= 1 /\ h > Hang) =>
              /\ w # Never
              /\ w <= h - Hang - 1
              /\ steady <= w + 1 \/ w >= h - Hang - 1
    <2>1. Since = 0
      BY <1>1 DEF Since
    <2>2. h - 0 = h /\ w - 0 = w
      BY <1>3
    <2>3. QED
      BY <1>1, <2>1, <2>2 DEF WarnInv, Started
  <1>8. Hang \in Nat
    BY WarnTypes
  <1> HIDE DEF h, g, w, u
  <1>9. h' # Never => h' <= u'
    BY <1>3, <1>4, <1>5, <1>6, <1>7
  <1>10. w' = Never => g' >= u'
    BY <1>3, <1>4, <1>5, <1>7
  <1>11. g' # Never /\ (w' # Never => g' = w')
    BY <1>3, <1>4, <1>5, <1>7
  <1>12. (w' # Never /\ h' # Never) => w' >= h' \/ w' <= h' - Hang - 1
    BY <1>3, <1>4, <1>5, <1>6, <1>7, <1>8
  <1>13. ASSUME h' # Never, steady >= 1, h' - 1 > Hang
         PROVE  /\ w' # Never
                /\ w' <= h' - Hang - 1
                /\ steady <= w' - 1 + 1 \/ w' - 1 >= h' - 1 - Hang - 1
    <2>1. h # Never /\ h' = h + 1
      BY <1>3, <1>4, <1>6, <1>13
    <2>2. /\ w # Never
          /\ w <= h - Hang - 1
          /\ steady <= w + 1 \/ w >= h - Hang - 1
      BY <1>3, <1>7, <1>8, <1>13, <2>1
    <2>3. w' = w + 1
      BY <1>3, <1>5, <1>6, <1>8, <2>1, <2>2
    <2>4. h' - 1 - Hang = h - Hang
      BY <1>3, <1>8, <2>1
    <2>5. QED
      BY <1>3, <1>8, <2>1, <2>2, <2>3, <2>4
  <1>14. Since' = 1
    BY <1>1 DEF Since
  <1>15. QED
    BY <1>1, <1>9, <1>10, <1>11, <1>12, <1>13, <1>14 DEF WarnInv, Started, h, g, w, u

\* The monitor gives the server more time, and warns its players or does not.
LEMMA WarnInvWait ==
  ASSUME WarnLimits, TypeOK, WarnInv, UpdateStatus, Wait
  PROVE  WarnInv'
  <1> SUFFICES ASSUME child' = "alive", ~isAwaitingRestart' PROVE WarnInv'
    BY DEF WarnInv
  <1>1. /\ child = "alive" /\ ~isAwaitingRestart /\ due /\ due' = FALSE
        /\ uptime' = uptime
    BY DEF UpdateStatus, Wait, serverVars
  <1>2. DEFINE h == sw["healthCheck"]
               g == sw["hangWarning"]
               w == warned
               u == uptime
  <1>3. /\ h \in Nat /\ g \in Nat /\ w \in Nat /\ u \in Nat /\ steady \in Nat
        /\ Never \in Nat /\ Never # 0
    BY WarnTypes, LimitFacts DEF Watches
  <1>4. /\ h' = h
        /\ MustWarn => g' = 0 /\ w' = 0
        /\ ~MustWarn => g' = g /\ w' = w
    BY DEF Wait, TypeOK, Watches
  <1>5. /\ h # Never => h <= u
        /\ g # Never
        /\ w = Never => g >= u
        /\ w # Never => g = w
        /\ (w # Never /\ h # Never) => w >= h \/ w <= h - Hang - 1
        /\ (h # Never /\ steady >= 1 /\ h - 1 > Hang) =>
              /\ w # Never
              /\ w <= h - Hang - 1
              /\ steady <= w - 1 + 1 \/ w - 1 >= h - 1 - Hang - 1
    <2>1. Since = 1
      BY <1>1 DEF Since
    <2>2. QED
      BY <1>1, <2>1 DEF WarnInv, Started
  <1>6. /\ Hang \in Nat /\ HangWarnGap \in Nat /\ HangWarnLead \in Nat /\ HCFatal \in Nat
        /\ Hang = HCFatal - HangWarnLead /\ Grace \in Nat /\ 1 <= HangWarnLead
        /\ HangWarnLead <= HangWarnGap /\ HangWarnGap <= Hang + 1 /\ Grace <= Hang + 1
    BY WarnTypes DEF WarnLimits
  <1>7. h # Never => h < HCFatal \/ h <= Hang
    <2>1. CASE uptime >= Grace
      <3>1. ~IsOver("healthCheck", HCFatal)
        BY <2>1 DEF Wait, MustRestart, Fatal
      <3>2. QED
        BY <1>3, <1>6, <3>1 DEF IsOver, Started
    <2>2. CASE ~(uptime >= Grace)
      BY <1>3, <1>5, <1>6, <2>2
    <2>3. QED
      BY <2>1, <2>2
  <1>8. MustWarn <=> (u >= Grace /\ HBHealthy /\ g # Never /\ g >= HangWarnGap /\ h > Hang)
    BY DEF MustWarn, IsOver, Started, Hang
  <1>9. /\ steady' \in Nat /\ steady' <= steady + 1
        /\ steady' >= 1 => HBHealthy
        /\ steady' >= 2 => steady >= 1
    <2>1. Look
      BY DEF Wait
    <2>2. HangWarnLead > 1
      BY DEF WarnLimits
    <2>3. QED
      BY <1>3, <1>6, <2>1, <2>2 DEF Look
  <1>13. steady' \in Nat
    BY <1>9
  <1>14. steady' <= steady + 1
    BY <1>9
  <1> HIDE DEF h, g, w, u
  <1>10. CASE MustWarn
    <2>1. ASSUME h # Never, steady' >= 2, h > Hang + 1 PROVE FALSE
      <3>1. w # Never /\ w <= h - Hang - 1
        BY <1>3, <1>5, <1>6, <1>9, <2>1
      <3>2. g = w /\ g >= HangWarnGap
        BY <1>5, <1>8, <1>10, <3>1
      <3>3. h < HCFatal
        BY <1>3, <1>6, <1>7, <2>1
      <3>4. QED
        BY <1>3, <1>6, <3>1, <3>2, <3>3
    <2>2. ASSUME h # Never, steady' >= 1, h > Hang
          PROVE  /\ 0 <= h - Hang - 1
                 /\ steady' <= 0 + 1 \/ 0 >= h - Hang - 1
      <3>1. steady' <= 1 \/ h - Hang <= 1
        BY <1>3, <1>6, <1>9, <2>1, <2>2
      <3>2. steady' <= 1 => steady' <= 0 + 1
        BY <1>13
      <3>3. h - Hang <= 1 => 0 >= h - Hang - 1
        BY <1>3, <1>6
      <3>4. 0 <= h - Hang - 1
        BY <1>3, <1>6, <2>2
      <3>5. QED
        BY <3>1, <3>2, <3>3, <3>4
    <2>3. h # Never => 0 <= h - Hang - 1
      BY <1>3, <1>6, <1>8, <1>10
    <2>4. Since' = 0
      BY <1>1 DEF Since
    <2>5. /\ h' = h /\ g' = 0 /\ w' = 0 /\ u' = u /\ 0 # Never
          /\ h' - 0 = h' /\ w' - 0 = w'
      BY <1>1, <1>3, <1>4, <1>10 DEF u
    <2>6. QED
      BY <1>5, <2>2, <2>3, <2>4, <2>5 DEF WarnInv, Started, h, g, w, u
  <1>11. CASE ~MustWarn
    <2>1. ASSUME h # Never, steady' >= 1, h > Hang
          PROVE  /\ w # Never
                 /\ w <= h - Hang - 1
                 /\ steady' <= w + 1 \/ w >= h - Hang - 1
      <3>1. g < HangWarnGap
        BY <1>3, <1>5, <1>6, <1>8, <1>9, <1>11, <2>1
      <3>2. w # Never /\ g = w
        BY <1>3, <1>5, <1>6, <2>1, <3>1
      <3>3. w <= h - Hang - 1
        BY <1>3, <1>5, <1>6, <2>1, <3>1, <3>2
      <3>4. CASE steady >= 1 /\ h - 1 > Hang
        <4>1. steady <= w - 1 + 1 \/ w - 1 >= h - 1 - Hang - 1
          BY <1>5, <2>1, <3>4
        <4>2. w >= steady \/ w >= h - 1 - Hang
          BY <1>3, <1>6, <4>1
        <4>3. w >= steady => steady' <= w + 1
          BY <1>3, <1>13, <1>14
        <4>4. w >= h - 1 - Hang => w >= h - Hang - 1
          BY <1>3, <1>6
        <4>5. QED
          BY <3>2, <3>3, <4>2, <4>3, <4>4
      <3>5. CASE ~(steady >= 1 /\ h - 1 > Hang)
        <4>1. steady' <= 1 \/ h - Hang <= 1
          BY <1>3, <1>6, <1>9, <2>1, <3>5
        <4>2. steady' <= 1 => steady' <= w + 1
          BY <1>3, <1>13
        <4>3. h - Hang <= 1 => w >= h - Hang - 1
          BY <1>3, <1>6
        <4>4. QED
          BY <3>2, <3>3, <4>1, <4>2, <4>3
      <3>6. QED
        BY <3>2, <3>3, <3>4, <3>5
    <2>2. Since' = 0
      BY <1>1 DEF Since
    <2>3. /\ h' = h /\ g' = g /\ w' = w /\ u' = u
          /\ h' - 0 = h' /\ w' - 0 = w'
      BY <1>1, <1>3, <1>4, <1>11 DEF u
    <2>4. QED
      BY <1>5, <2>1, <2>2, <2>3 DEF WarnInv, Started, h, g, w, u
  <1>12. QED
    BY <1>10, <1>11

\* The other outcomes of a look.
LEMMA WarnInvUpdate ==
  ASSUME WarnLimits, TypeOK, HangInv, WarnInv, UpdateStatus
  PROVE  WarnInv'
  <1>0. UNCHANGED <<child, uptime>> /\ due /\ due' = FALSE
    BY DEF UpdateStatus, serverVars
  <1>1. CASE SkipIdle
    BY <1>0, <1>1 DEF SkipIdle, IsIdle, WarnInv
  <1>2. CASE SkipRestarting
    BY <1>2 DEF SkipRestarting, WarnInv
  <1>3. CASE SkipFrozen
    <2>1. /\ sw["statusUpdate"] # Never /\ sw["statusUpdate"] >= FrozenLimit
          /\ sw["statusUpdate"] <= 1
      BY <1>0, <1>3 DEF SkipFrozen, IsOver, HangInv, Started
    <2>2. QED
      BY <2>1, WarnTypes DEF WarnLimits, Watches
  <1>4. CASE SkipHealthy
    <2>1. /\ UNCHANGED <<isAwaitingRestart, warned>>
          /\ sw'["healthCheck"] = sw["healthCheck"]
          /\ sw'["hangWarning"] = sw["hangWarning"]
      BY <1>4 DEF SkipHealthy, TypeOK, Watches
    <2>2. sw["healthCheck"] < HCDelay
      BY <1>4, WarnTypes DEF SkipHealthy, HCHealthy, IsOver, Watches
    <2>3. Since' = 0 /\ sw["healthCheck"] - 0 = sw["healthCheck"]
      BY <1>0, WarnTypes DEF Since, Watches
    <2>4. ~(sw["healthCheck"] > Hang)
      BY <2>2, WarnTypes DEF WarnLimits, Watches
    <2>5. QED
      BY <1>0, <2>1, <2>3, <2>4 DEF WarnInv, Started
  <1>5. CASE Restart
    BY <1>5 DEF Restart, WarnInv
  <1>6. CASE Wait
    BY <1>6, WarnInvWait
  <1>7. QED
    BY <1>1, <1>2, <1>3, <1>4, <1>5, <1>6 DEF UpdateStatus

LEMMA WarnInvOther ==
  ASSUME WarnLimits, TypeOK, HangInv, WarnInv,
         \/ HandleHeartBeat \/ HealthCheckAnswered \/ LateAnswer
         \/ OnResourceStarting \/ OnResourceStart
         \/ Exit \/ Close \/ SpawnDelayOver
         \/ \E toRestart \in BOOLEAN : KillServer(toRestart)
         \/ SpawnServer
  PROVE  WarnInv'
  <1>1. CASE HandleHeartBeat \/ OnResourceStarting \/ OnResourceStart
    <2>1. /\ UNCHANGED <<child, uptime, isAwaitingRestart, due, warned, steady>>
          /\ sw'["healthCheck"] = sw["healthCheck"]
          /\ sw'["hangWarning"] = sw["hangWarning"]
      BY <1>1 DEF HandleHeartBeat, OnResourceStarting, OnResourceStart, TypeOK,
                  Watches, serverVars, historyVars
    <2>2. QED
      BY <2>1 DEF WarnInv, Started, Since
  <1>2. CASE HealthCheckAnswered \/ LateAnswer
    <2>1. /\ UNCHANGED <<child, uptime, isAwaitingRestart, due, warned, steady>>
          /\ sw'["healthCheck"] = 0
          /\ sw'["hangWarning"] = sw["hangWarning"]
      BY <1>2 DEF HealthCheckAnswered, LateAnswer, TypeOK, Watches, serverVars, historyVars
    <2>2. ~(0 - Since > Hang)
      BY WarnTypes DEF Since
    <2>3. 0 <= uptime /\ warned >= 0
      BY WarnTypes
    <2>4. Since' = Since
      BY <2>1 DEF Since
    <2>5. QED
      BY <2>1, <2>2, <2>3, <2>4 DEF WarnInv, Started
  <1>3. CASE Exit
    BY <1>3 DEF Exit, WarnInv
  <1>4. CASE Close \/ SpawnDelayOver
    BY <1>4 DEF Close, SpawnDelayOver, WarnInv, Started, Since, historyVars
  <1>5. ASSUME NEW toRestart \in BOOLEAN, KillServer(toRestart) PROVE WarnInv'
    BY <1>5 DEF KillServer, WarnInv
  <1>6. CASE SpawnServer
    <2>1. /\ sw' = ResetWatches /\ warned' = Never /\ uptime' = 0
      BY <1>6 DEF SpawnServer, IsIdle, ResetState, HangInv
    <2>2. QED
      BY <2>1, ResetFacts, LimitFacts DEF WarnInv, Started
  <1>7. QED
    BY <1>1, <1>2, <1>3, <1>4, <1>5, <1>6

\* On a machine that is never frozen, with the limits in the order they have
\* in the code: nobody is restarted for a partial hang unannounced.
THEOREM PlayersWarnedSafe == ASSUME WarnLimits PROVE Spec => PlayersWarned
  <1>1. TypeOK /\ HangInv /\ [Next]_vars => HangInv'
    <2> SUFFICES ASSUME TypeOK, HangInv, [Next]_vars PROVE HangInv'
      OBVIOUS
    <2>1. CASE UNCHANGED vars
      BY <2>1 DEF vars, serverVars, HangInv, HangCaught, Started
    <2>2. FrozenLimit > 1 /\ FreezeLengths = {}
      BY DEF WarnLimits
    <2>3. QED
      BY <2>1, <2>2, HangInvServer, HangInvEvent, HangInvSecond, HangInvUpdate DEF Next
  <1>2. TypeOK /\ HangInv /\ WarnInv /\ [Next]_vars => WarnInv'
    <2> SUFFICES ASSUME TypeOK, HangInv, WarnInv, [Next]_vars PROVE WarnInv'
      OBVIOUS
    <2>1. CASE UNCHANGED vars
      BY <2>1 DEF vars, serverVars, historyVars, WarnInv, Started, Since
    <2>2. FreezeLengths = {}
      BY DEF WarnLimits
    <2>3. QED
      BY <2>1, <2>2, WarnInvOther, WarnInvSecond, WarnInvUpdate DEF Next
  <1>3. TypeOK /\ HangInv /\ WarnInv /\ [Next]_vars =>
          [(/\ isAwaitingRestart' /\ ~isAwaitingRestart
            /\ child = "alive" /\ HBHealthy /\ IsOver("healthCheck", HCFatal)
            /\ steady >= HangWarnLead - 1) =>
                /\ HangWarnLead - 1 <= warned
                /\ warned < sw["healthCheck"]]_vars
    <2> SUFFICES ASSUME TypeOK, HangInv, WarnInv, [Next]_vars,
                        isAwaitingRestart', ~isAwaitingRestart, child = "alive",
                        IsOver("healthCheck", HCFatal), steady >= HangWarnLead - 1
                 PROVE  HangWarnLead - 1 <= warned /\ warned < sw["healthCheck"]
      OBVIOUS
    <2>1. due
      BY DEF Next, UpdateStatus, Second, Freeze, Pass, HandleHeartBeat,
             HealthCheckAnswered, LateAnswer, OnResourceStarting, OnResourceStart,
             Exit, Close, KillServer, SpawnDelayOver, SpawnServer, vars
    <2>2. Since = 1
      BY <2>1 DEF Since
    <2>3. Started("healthCheck") /\ sw["healthCheck"] >= HCFatal /\ steady >= 1
          /\ sw["healthCheck"] - 1 > Hang
      BY WarnTypes DEF IsOver, WarnLimits, Watches
    <2>4. /\ warned # Never
          /\ warned <= sw["healthCheck"] - Hang - 1
          /\ \/ steady <= warned - 1 + 1
             \/ warned - 1 >= sw["healthCheck"] - 1 - Hang - 1
      BY <2>2, <2>3 DEF WarnInv
    <2>5. QED
      BY <2>3, <2>4, WarnTypes DEF Watches
  <1>4. QED
    BY <1>1, <1>2, <1>3, MonitorTypeCorrect, HangInvInit, WarnInvInit, PTL
    DEF Spec, PlayersWarned

=============================================================================
