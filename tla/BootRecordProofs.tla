-------------------------- MODULE BootRecordProofs --------------------------
(* Theorems about BootRecord, for any number of lives and any levels of the  *)
(* comparator.                                                               *)
EXTENDS BootRecord, TLAPS

Booting == {"log", "brownout", "storage", "setup"}

BootTyped ==
    /\ pc \in {"off", "run", "stop"} \cup Booting
    /\ life \in Nat
    /\ stage \in 0..9 /\ restartStage \in 0..9
    /\ pc = "stop" => stage \in 1..8 /\ restartStage = stage

\* From the second life on the reset reason is how the last one ended.
ReasonIsEnd ==
    /\ lastEnd # "none" => reason = lastEnd
    /\ lastEnd = "none" => life <= 1 /\ (pc = "off" => life = 0)

\* The flag of a crash loop is down, and no stage is on record, once the board is
\* up; a restart in order never raises either.
UpIsClean ==
    /\ pc \in {"run", "stop"} => crashLoop = FALSE
    /\ pc \in {"brownout", "storage", "setup", "run"} => restartStage = NoStage

\* What a life that follows an ordered end finds in RTC memory.
OrderedEnd == reason = "restart" \/ (reason = "sleep" /\ lastAt = "run")

OrderedIsSeen ==
    OrderedEnd =>
        /\ pc = "off" => crashLoop = FALSE /\ restartStage \in {NoStage, IN_ESP_RESTART}
        /\ pc = "log" => crashLoopSuspected = FALSE /\ restartStage \in {NoStage, IN_ESP_RESTART}
        /\ pc \in {"brownout", "storage"} =>
              crashLoopSuspected = FALSE /\ restartReport \in {NoStage, IN_ESP_RESTART}

TrailInv == BootTyped /\ ReasonIsEnd /\ UpIsClean /\ OrderedIsSeen

\* The first life begins without a trail.
LEMMA TrailInit == Init => TrailInv
  BY DEF Init, TrailInv, BootTyped, ReasonIsEnd, UpIsClean, OrderedIsSeen, OrderedEnd, NoStage, Booting

\* Every step keeps the trail, when esp_restart() runs the handler that ends it.
LEMMA TrailStep ==
    ASSUME "noSlot" \notin Races, TrailInv, [Next]_vars
    PROVE  TrailInv'
<1> USE DEF TrailInv, BootTyped, ReasonIsEnd, UpIsClean, OrderedIsSeen, OrderedEnd,
            NoStage, IN_ESP_RESTART, Booting
<1>0. ASSUME UNCHANGED <<pc, life, reason, stage, restartStage, crashLoop, restartReport,
                         crashLoopSuspected, lastEnd, lastAt>>
      PROVE  TrailInv'
  BY <1>0
<1>1. CASE PowerUp
  <2>1. /\ pc = "off" /\ pc' = "log" /\ life' = life + 1 /\ crashLoopSuspected' = crashLoop
        /\ UNCHANGED <<reason, stage, restartStage, restartReport, lastEnd, lastAt>>
    BY <1>1 DEF PowerUp, stop, history
  <2> QED
    BY <2>1
<1>2. CASE PrintResetReason
  <2>1. /\ pc = "log" /\ pc' = "brownout" /\ restartReport' = restartStage /\ restartStage' = 0
        /\ UNCHANGED <<life, reason, stage, crashLoop, crashLoopSuspected, lastEnd, lastAt>>
    BY <1>2 DEF PrintResetReason, stop, history
  <2> QED
    BY <2>1
<1>3. CASE InitBrownout
  <2>1. /\ pc = "brownout" /\ pc' = "storage"
        /\ UNCHANGED <<life, reason, stage, restartStage, crashLoop, restartReport, crashLoopSuspected,
                       lastEnd, lastAt>>
    BY <1>3 DEF InitBrownout, stop
  <2> QED
    BY <2>1
<1>4. CASE RemoteLogInit
  <2>1. /\ pc = "storage" /\ pc' = "setup"
        /\ UNCHANGED <<life, reason, stage, restartStage, crashLoop, crashLoopSuspected, lastEnd, lastAt>>
    BY <1>4 DEF RemoteLogInit, stop, rtc
  <2> QED
    BY <2>1
<1>5. CASE SetupEnds
  <2>1. /\ pc = "setup" /\ pc' = "run" /\ crashLoop' = FALSE
        /\ UNCHANGED <<life, reason, stage, restartStage, restartReport, crashLoopSuspected, lastEnd, lastAt>>
    BY <1>5 DEF SetupEnds, stop, report, history
  <2> QED
    BY <2>1
<1>14. CASE PingAnswered
  <2>1. /\ pc = "setup" /\ pc' = "setup" /\ crashLoop' = FALSE
        /\ UNCHANGED <<life, reason, stage, restartStage, restartReport, crashLoopSuspected, lastEnd, lastAt>>
    BY <1>14 DEF PingAnswered, stop, report, history
  <2> QED
    BY <2>1
<1>6. CASE OtaConfirm \/ OtaWritten
  BY <1>0, <1>6 DEF OtaConfirm, OtaWritten, stop, rtc, report, history
<1>7. CASE RailMoves \/ BatterySags \/ SagShutdown
  BY <1>0, <1>7 DEF RailMoves, BatterySags, SagShutdown, stop, rtc, report, history
<1>8. CASE Warned \/ BodLevel \/ ProbeStart \/ ProbeStep \/ ProbeEnds
  BY <1>0, <1>8 DEF Warned, BodLevel, ProbeStart, ProbeStep, ProbeEnds, stop, rtc, report, history
<1>9. CASE DoRestart
  <2>1. /\ pc = "run" /\ pc' = "stop" /\ stage' = 1 /\ restartStage' = 1
        /\ UNCHANGED <<life, reason, crashLoop, restartReport, crashLoopSuspected, lastEnd, lastAt>>
    BY <1>9 DEF DoRestart, Mark, report
  <2> QED
    BY <2>1
<1>10. CASE StageDone
  <2>1. /\ pc = "stop" /\ pc' = "stop" /\ stage \in 1..7 /\ stage' = stage + 1 /\ restartStage' = stage + 1
        /\ UNCHANGED <<life, reason, crashLoopSuspected, restartReport, lastEnd, lastAt>>
    BY <1>10 DEF StageDone, Mark, CALLING_ESP_RESTART, report
  <2>2. crashLoop' = FALSE
    BY <1>10, <2>1 DEF StageDone
  <2> QED
    BY <2>1, <2>2
<1>11. CASE EspRestart
  <2>1. /\ pc = "stop" /\ pc' = "off" /\ life' = life /\ stage' = 0
        /\ reason' = "restart" /\ lastEnd' = "restart" /\ crashLoop' = crashLoop
    BY <1>11 DEF EspRestart, LifeOver
  <2>2. restartStage' = 9
    BY <1>11 DEF EspRestart, Provided
  <2> QED
    BY <2>1, <2>2
<1>12. CASE \E cause \in Causes : Fails(cause)
  <2>1. PICK cause \in Causes : Fails(cause)
    BY <1>12
  <2>2. /\ pc \notin {"off", "log"} /\ pc' = "off" /\ life' = life /\ stage' = 0
        /\ reason' = cause /\ lastEnd' = cause /\ (lastAt' = "run" <=> pc = "run")
    BY <2>1 DEF Fails, LifeOver
  <2>3. cause \notin {"none", "restart"}
    BY BootAssumption
  <2>4. CASE cause = "power"
    <3>1. restartStage' = 0
      BY <2>1, <2>4 DEF Fails
    <3> QED
      BY <2>2, <2>4, <3>1
  <2>5. CASE cause = "sleep"
    <3>1. UNCHANGED <<restartStage, crashLoop>>
      BY <2>1, <2>5 DEF Fails
    <3> QED
      BY <2>2, <2>5, <3>1
  <2>6. CASE cause \notin {"power", "sleep"}
    <3>1. UNCHANGED restartStage
      BY <2>1, <2>6 DEF Fails
    <3> QED
      BY <2>2, <2>3, <2>6, <3>1
  <2> QED
    BY <2>4, <2>5, <2>6
<1>13. CASE UNCHANGED vars
  BY <1>0, <1>13 DEF vars, stop, rtc, report, history
<1> QED
  BY <1>1, <1>2, <1>3, <1>4, <1>5, <1>6, <1>7, <1>8, <1>9, <1>10, <1>11, <1>12, <1>13, <1>14
     DEF Next

\* What remote_log_init() decides stays decided.
LogFitsReason ==
    pc \in {"setup", "run", "stop"} =>
        /\ reason \notin Controlled /\ sdLog /\ sd => crashLog
        /\ crashLog => ~OrderedEnd /\ reason # "power"

\* Every step keeps the log of a crash, on the card or still in RTC memory.
LEMMA LogStep ==
    ASSUME TrailInv, LogFitsReason, [Next]_vars
    PROVE  LogFitsReason'
<1>0. ASSUME UNCHANGED <<pc, reason, sd, crashLog, lastAt>>
      PROVE  LogFitsReason'
  BY <1>0 DEF LogFitsReason, OrderedEnd
<1>1. CASE PowerUp \/ PrintResetReason \/ InitBrownout \/ EspRestart \/ \E cause \in Causes : Fails(cause)
  <2>1. pc' \in {"log", "brownout", "storage", "off"}
    BY <1>1 DEF PowerUp, PrintResetReason, InitBrownout, EspRestart, Fails, LifeOver
  <2> QED
    BY <2>1 DEF LogFitsReason
<1>2. CASE RemoteLogInit
  <2>1. crashLog' = KeepsLog /\ UNCHANGED <<sd, reason, lastAt>> /\ pc = "storage"
    BY <1>2 DEF RemoteLogInit
  <2>2. OrderedEnd \/ reason = "power" => ~KeepsLog
    <3>1. OrderedEnd => ~HungRestart /\ ~crashLoopSuspected /\ reason \in Controlled
      BY <2>1 DEF TrailInv, OrderedIsSeen, HungRestart, OrderedEnd, Controlled
    <3> QED
      BY <3>1 DEF KeepsLog
  <2>3. reason \notin Controlled /\ sdLog /\ sd => KeepsLog
    BY DEF KeepsLog, Controlled
  <2>4. OrderedEnd' = OrderedEnd
    BY <2>1 DEF OrderedEnd
  <2> QED
    BY <2>1, <2>2, <2>3, <2>4 DEF LogFitsReason
<1>3. CASE SetupEnds
  <2>1. UNCHANGED <<reason, sd, crashLog, lastAt>> /\ pc = "setup"
    BY <1>3 DEF SetupEnds, card, history
  <2> QED
    BY <2>1 DEF LogFitsReason, OrderedEnd
<1>4. CASE DoRestart
  <2>1. UNCHANGED <<reason, sd, crashLog, lastAt>> /\ pc = "run"
    BY <1>4 DEF DoRestart
  <2> QED
    BY <2>1 DEF LogFitsReason, OrderedEnd
<1>5. CASE OtaConfirm \/ OtaWritten \/ RailMoves \/ BatterySags \/ SagShutdown \/ Warned \/ BodLevel
  BY <1>0, <1>5 DEF OtaConfirm, OtaWritten, RailMoves, BatterySags, SagShutdown, Warned, BodLevel, card, history
<1>6. CASE ProbeStart \/ ProbeStep \/ ProbeEnds \/ StageDone \/ PingAnswered
  BY <1>0, <1>6 DEF ProbeStart, ProbeStep, ProbeEnds, StageDone, PingAnswered, card, history
<1>7. CASE UNCHANGED vars
  BY <1>0, <1>7 DEF vars, card, history
<1> QED
  BY <1>1, <1>2, <1>3, <1>4, <1>5, <1>6, <1>7 DEF Next

\* The life after a crash, a watchdog reset or a brownout keeps the log of the
\* one before, and the life after an ordered end keeps none, however many boots
\* died in between and whenever the ping callback puts the board to sleep:
\* saveCrashRamLog() against the trail of doRestart(), the crash loop flag and the
\* order of setup().  The second half needs that esp_register_shutdown_handler()
\* had a slot for the handler that marks the last stage.
THEOREM CrashIsKept ==
    ASSUME "noSlot" \notin Races
    PROVE  Spec => []CrashKept
<1>1. TrailInv /\ LogFitsReason /\ [Next]_vars => TrailInv' /\ LogFitsReason'
  BY TrailStep, LogStep
<1>2. Init => LogFitsReason
  BY DEF Init, LogFitsReason
<1>3. TrailInv /\ LogFitsReason => CrashKept
  <2> SUFFICES ASSUME TrailInv, LogFitsReason, pc = "run", sdLog, sd, life > 1
               PROVE  /\ lastEnd \notin Controlled => crashLog
                      /\ crashLog => ~EndedInOrder
    BY DEF CrashKept
  <2>1. reason = lastEnd
    BY DEF TrailInv, BootTyped, ReasonIsEnd
  <2>2. EndedInOrder => OrderedEnd \/ reason = "power"
    BY <2>1 DEF EndedInOrder, OrderedEnd, Controlled
  <2> QED
    BY <2>1, <2>2 DEF LogFitsReason
<1> QED
  BY <1>1, <1>2, <1>3, TrailInit, PTL DEF Spec

---------------------------------------------------------------------------
\* The comparator keeps its five fields, whatever they hold.
IsComparator(c) == DOMAIN c = {"on", "level", "terminal", "intr", "cut"}

\* The comparator is the hardware's to cut off only between initBrownout() and
\* the second stage of doRestart().
CutInv ==
    /\ pc = "stop" => stage \in 1..8
    /\ IsComparator(cmp)
    /\ NeverCutInStop

\* Taking the interrupt away leaves a comparator.
LEMMA WithoutIntr ==
    ASSUME NEW c, IsComparator(c)
    PROVE  IsComparator([c EXCEPT !.intr = FALSE]) /\ [c EXCEPT !.intr = FALSE].cut = c.cut
  BY DEF IsComparator

\* What is left of a comparator once disarmed cuts nothing.
LEMMA DisarmedCuts ==
    ASSUME IsComparator(cmp)
    PROVE  IsComparator(Disarmed) /\ ~Disarmed.cut
  BY DEF IsComparator, Disarmed

\* A comparator armed for a warning only cuts nothing.
LEMMA ArmedCuts == \A level : IsComparator(Armed(level, FALSE)) /\ ~Armed(level, FALSE).cut
  BY DEF IsComparator, Armed

\* Off, and armed for a cut, are comparators.
LEMMA OtherComparators == IsComparator(Off) /\ \A level : IsComparator(Armed(level, TRUE))
  BY DEF IsComparator, Off, Armed

\* Every step keeps a disarmed comparator from cutting.
LEMMA CutStep == CutInv /\ [Next]_vars => CutInv'
<1> SUFFICES ASSUME CutInv, [Next]_vars
             PROVE  CutInv'
  OBVIOUS
<1>a. ASSUME pc' # "stop", IsComparator(cmp')
      PROVE  CutInv'
  BY <1>a DEF CutInv, NeverCutInStop, IsComparator
<1>b. ASSUME UNCHANGED <<pc, stage>>, IsComparator(cmp'), ~cmp'.cut \/ cmp'.cut = cmp.cut
      PROVE  CutInv'
  BY <1>b DEF CutInv, NeverCutInStop, IsComparator
<1>1. CASE EspRestart \/ \E cause \in Causes : Fails(cause)
  <2>1. pc' = "off" /\ cmp' = Off
    BY <1>1 DEF EspRestart, Fails, LifeOver
  <2> QED
    BY <2>1, <1>a, OtherComparators
<1>2. CASE InitBrownout
  <2>1. pc' = "storage" /\ cmp' = Armed(DET_LVL, TRUE)
    BY <1>2 DEF InitBrownout
  <2> QED
    BY <2>1, <1>a, OtherComparators
<1>3. CASE PowerUp \/ PrintResetReason \/ RemoteLogInit \/ SetupEnds \/ PingAnswered
  <2>1. pc' # "stop" /\ cmp' = cmp
    BY <1>3 DEF PowerUp, PrintResetReason, RemoteLogInit, SetupEnds, PingAnswered, supply
  <2> QED
    BY <2>1, <1>a DEF CutInv
<1>4. CASE OtaConfirm \/ OtaWritten \/ RailMoves \/ BatterySags \/ SagShutdown \/ ProbeEnds \/ UNCHANGED vars
  <2>1. UNCHANGED <<pc, stage, cmp>>
    BY <1>4 DEF OtaConfirm, OtaWritten, RailMoves, BatterySags, SagShutdown, ProbeEnds, vars, stop, supply
  <2> QED
    BY <2>1, <1>b DEF CutInv
<1>5. CASE BodLevel \/ ProbeStart \/ ProbeStep
  <2>1. UNCHANGED <<pc, stage>> /\ \E level : cmp' = Armed(level, FALSE)
    BY <1>5 DEF BodLevel, ProbeStart, ProbeStep, stop
  <2> QED
    BY <2>1, <1>b, ArmedCuts
<1>6. CASE Warned
  <2>1. UNCHANGED <<pc, stage>> /\ cmp' = [cmp EXCEPT !.intr = FALSE] /\ IsComparator(cmp)
    BY <1>6 DEF Warned, stop, CutInv
  <2> QED
    BY <2>1, <1>b, WithoutIntr
<1>7. CASE DoRestart
  <2>1. stage' = 1 /\ cmp' = cmp
    BY <1>7 DEF DoRestart, Mark, supply
  <2>2. ~(stage' >= BROWNOUT_DISARMED) /\ stage' \in 1..8
    BY <2>1 DEF BROWNOUT_DISARMED
  <2>3. IsComparator(cmp')
    BY <2>1 DEF CutInv
  <2> QED
    BY <2>2, <2>3 DEF CutInv, NeverCutInStop
<1>8. CASE StageDone
  <2>1. pc = "stop" /\ pc' = "stop" /\ stage \in 1..7 /\ stage' = stage + 1
    BY <1>8 DEF StageDone, Mark, CALLING_ESP_RESTART, CutInv
  <2>2. IsComparator(cmp') /\ ~cmp'.cut
    <3>1. CASE stage = 1
      <4>1. cmp' = Disarmed
        BY <1>8, <2>1, <3>1 DEF StageDone, BROWNOUT_DISARMED
      <4> QED
        BY <4>1, DisarmedCuts DEF CutInv
    <3>2. CASE stage # 1
      <4>1. cmp' = cmp
        BY <1>8, <2>1, <3>2 DEF StageDone, BROWNOUT_DISARMED, supply
      <4>2. stage >= BROWNOUT_DISARMED
        BY <2>1, <3>2 DEF BROWNOUT_DISARMED
      <4> QED
        BY <2>1, <4>1, <4>2 DEF CutInv, NeverCutInStop, IsComparator
    <3> QED
      BY <3>1, <3>2
  <2> QED
    BY <2>1, <2>2 DEF CutInv, NeverCutInStop
<1> QED
  BY <1>1, <1>2, <1>3, <1>4, <1>5, <1>6, <1>7, <1>8 DEF Next

\* From the disarming on nothing lets the comparator cut the flash off under a
\* restart, though the status page goes on probing and re-arms it, and whatever
\* events are switched on.
THEOREM StopIsNeverCut == Spec => []NeverCutInStop
<1>1. Init => CutInv
  BY OtherComparators DEF Init, CutInv, NeverCutInStop
<1>2. CutInv => NeverCutInStop
  BY DEF CutInv
<1> QED
  BY <1>1, <1>2, CutStep, PTL DEF Spec
---------------------------------------------------------------------------
\* The fields of lastStop.
IsStop(s) == s \in [stage : 0..9, done : BOOLEAN, told : BOOLEAN]

\* Where a restart nobody has told of has left its trail: the card has its last stage; RTC
\* memory, and then the report, has that of a restart that completed, and of one that did not
\* unless a boot in between died with it.
Untold ==
    /\ pc \in {"stop", "off", "log", "brownout", "storage"}
    /\ lastStop.stage \in 1..8 /\ (sd => trace = lastStop.stage)
    /\ pc = "stop" => lastStop.stage = stage /\ ~lastStop.done
    /\ lastStop.done =>
          /\ lastStop.stage = CALLING_ESP_RESTART /\ reason = "restart"
          /\ pc \in {"off", "log"} => restartStage = IN_ESP_RESTART
          /\ pc \in {"brownout", "storage"} => restartReport = IN_ESP_RESTART
    /\ ~lastStop.done /\ pc # "stop" =>
          /\ reason # "restart"
          /\ pc \in {"off", "log"} => restartStage \in {NoStage, lastStop.stage}
          /\ pc \in {"brownout", "storage"} => restartReport \in {NoStage, lastStop.stage}

StopInv ==
    /\ IsStop(lastStop)
    /\ pc = "stop" => ~lastStop.told
    /\ ~lastStop.told => Untold

\* Every step keeps the trail of a restart until it is told of.
LEMMA StopStep ==
    ASSUME "cutBoot" \notin Races, "noSlot" \notin Races, TrailInv, StopInv, [Next]_vars
    PROVE  StopInv'
<1> USE DEF StopInv, IsStop, Untold, NoStage, IN_ESP_RESTART, CALLING_ESP_RESTART
<1>0. ASSUME UNCHANGED <<pc, reason, stage, restartStage, sd, trace, restartReport, lastStop>>
      PROVE  StopInv'
  BY <1>0
<1>1. CASE PowerUp
  <2>1. /\ pc = "off" /\ pc' = "log"
        /\ UNCHANGED <<reason, restartStage, sd, trace, lastStop>>
    BY <1>1 DEF PowerUp, card, history
  <2> QED
    BY <2>1
<1>2. CASE PrintResetReason
  <2>1. /\ pc = "log" /\ pc' = "brownout" /\ restartReport' = restartStage
        /\ UNCHANGED <<reason, sd, trace, lastStop>>
    BY <1>2 DEF PrintResetReason, card, history
  <2> QED
    BY <2>1
<1>3. CASE InitBrownout
  <2>1. /\ pc = "brownout" /\ pc' = "storage"
        /\ UNCHANGED <<reason, sd, trace, restartReport, lastStop>>
    BY <1>3 DEF InitBrownout, card
  <2> QED
    BY <2>1
<1>4. CASE RemoteLogInit
  <2>1. pc' = "setup" /\ lastStop' = [stage |-> 0, done |-> FALSE, told |-> TRUE]
    BY <1>4 DEF RemoteLogInit
  <2> QED
    BY <2>1
<1>5. CASE SetupEnds
  <2>1. pc = "setup" /\ pc' = "run" /\ lastStop' = lastStop
    BY <1>5 DEF SetupEnds, history
  <2> QED
    BY <2>1
<1>6. CASE OtaConfirm \/ OtaWritten \/ RailMoves \/ BatterySags \/ SagShutdown
  BY <1>0, <1>6 DEF OtaConfirm, OtaWritten, RailMoves, BatterySags, SagShutdown, stop, rtc, card, report,
     history
<1>7. CASE Warned \/ BodLevel \/ ProbeStart \/ ProbeStep \/ ProbeEnds \/ PingAnswered
  BY <1>0, <1>7 DEF Warned, BodLevel, ProbeStart, ProbeStep, ProbeEnds, PingAnswered, stop, rtc, card, report,
     history
<1>8. CASE DoRestart
  <2>1. /\ pc' = "stop" /\ stage' = 1 /\ sd' = sd
        /\ trace' = IF sd THEN 1 ELSE trace
        /\ lastStop' = [stage |-> 1, done |-> FALSE, told |-> FALSE]
    BY <1>8 DEF DoRestart, Mark
  <2> QED
    BY <2>1
<1>9. CASE StageDone
  <2>1. pc = "stop" /\ pc' = "stop" /\ stage \in 1..7 /\ stage' = stage + 1 /\ sd' = sd
    BY <1>9 DEF StageDone, Mark, TrailInv, BootTyped
  <2>2. /\ trace' = IF sd THEN stage + 1 ELSE trace
        /\ lastStop' = [stage |-> stage + 1, done |-> FALSE, told |-> FALSE]
    BY <1>9, <2>1 DEF StageDone, Mark
  <2>3. lastStop'.stage = stage + 1 /\ ~lastStop'.done /\ stage + 1 \in 1..8
    BY <2>1, <2>2
  <2>4. IsStop(lastStop')
    BY <2>2, <2>3
  <2> QED
    BY <2>1, <2>2, <2>3, <2>4
<1>10. CASE EspRestart
  <2>1. /\ pc = "stop" /\ stage = 8 /\ pc' = "off" /\ reason' = "restart"
        /\ lastStop' = [lastStop EXCEPT !.done = TRUE] /\ UNCHANGED <<sd, trace>>
    BY <1>10 DEF EspRestart, LifeOver
  <2>2. restartStage' = 9
    BY <1>10 DEF EspRestart, Provided
  <2>3. lastStop'.stage = lastStop.stage /\ lastStop'.done /\ IsStop(lastStop') /\ lastStop'.told = lastStop.told
    BY <2>1
  <2> QED
    BY <2>1, <2>2, <2>3
<1>11. CASE \E cause \in Causes : Fails(cause)
  <2>1. PICK cause \in Causes : Fails(cause)
    BY <1>11
  <2>2. /\ pc \notin {"off", "log"} /\ pc' = "off" /\ reason' = cause /\ cause # "restart"
        /\ UNCHANGED <<sd, trace, lastStop>>
    BY <2>1, BootAssumption DEF Fails, LifeOver
  <2>3. pc \notin {"brownout", "storage"} \/ lastStop.told \/ ~lastStop.done
    BY <2>1 DEF Fails, Provided
  <2>4. restartStage' \in {0, restartStage}
    BY <2>1 DEF Fails
  <2>5. pc = "stop" => restartStage = stage
    BY DEF TrailInv, BootTyped
  <2>6. pc \in {"brownout", "storage"} => restartStage = 0
    BY DEF TrailInv, UpIsClean
  <2> QED
    BY <2>2, <2>3, <2>4, <2>5, <2>6
<1>12. CASE UNCHANGED vars
  BY <1>0, <1>12 DEF vars, stop, rtc, card, report, history
<1> QED
  BY <1>1, <1>2, <1>3, <1>4, <1>5, <1>6, <1>7, <1>8, <1>9, <1>10, <1>11, <1>12 DEF Next

\* What reportRestartStage() makes of the trail.
LEMMA TrailTold ==
    ASSUME StopInv, [Next]_vars, pc = "storage", pc' = "setup", ~lastStop.told
    PROVE  CASE lastStop.done -> restartReport' = IN_ESP_RESTART
             [] ~lastStop.done /\ sd -> restartReport' = lastStop.stage
             [] OTHER -> restartReport' \in {NoStage, lastStop.stage}
<1> USE DEF NoStage, IN_ESP_RESTART, CALLING_ESP_RESTART
<1>1. RemoteLogInit
  BY DEF Next, vars, PowerUp, PrintResetReason, InitBrownout, SetupEnds, PingAnswered, OtaConfirm, OtaWritten, RailMoves,
     BatterySags, SagShutdown, Warned, BodLevel, ProbeStart, ProbeStep, ProbeEnds, DoRestart, StageDone,
     EspRestart, Fails, LifeOver, Running, Probes
<1>2. restartReport' = CASE ~sd \/ trace = 0 -> restartReport
                         [] sd /\ trace # 0 /\ Completed -> 9
                         [] OTHER -> trace
  BY <1>1 DEF RemoteLogInit
<1>3. Untold /\ IsStop(lastStop)
  BY DEF StopInv
<1>4. CASE lastStop.done
  <2>1. sd => Completed /\ trace # 0
    BY <1>3, <1>4 DEF Untold, Completed
  <2>2. restartReport = 9
    BY <1>3, <1>4 DEF Untold
  <2> QED
    BY <1>2, <1>4, <2>1, <2>2
<1>5. CASE ~lastStop.done /\ sd
  <2>1. ~Completed /\ trace = lastStop.stage /\ trace # 0
    BY <1>3, <1>5 DEF Untold, Completed
  <2> QED
    BY <1>2, <1>5, <2>1
<1>6. CASE ~lastStop.done /\ ~sd
  BY <1>2, <1>3, <1>6 DEF Untold
<1> QED
  BY <1>3, <1>4, <1>5, <1>6 DEF IsStop

\* The first boot that gets to reportRestartStage() says of the last restart that it completed, or
\* at which stage it stopped, whatever ended it and however many boots died before: unless one
\* that completed is followed by a boot that dies, or had no slot for the handler that marks it.
THEOREM StageIsNamed ==
    ASSUME "cutBoot" \notin Races, "noSlot" \notin Races
    PROVE  Spec => StageNamed
<1>1. Init => StopInv
  BY DEF Init, StopInv, IsStop, Untold, NoStage
<1>2. TrailInv /\ StopInv /\ [Next]_vars => TrailInv' /\ StopInv'
  BY TrailStep, StopStep
<1>3. StopInv /\ [Next]_vars =>
        [pc = "storage" /\ pc' = "setup" /\ ~lastStop.told =>
           CASE lastStop.done -> restartReport' = IN_ESP_RESTART
             [] ~lastStop.done /\ sd -> restartReport' = lastStop.stage
             [] OTHER -> restartReport' \in {NoStage, lastStop.stage}]_vars
  BY TrailTold
<1> QED
  BY <1>1, <1>2, <1>3, TrailInit, PTL DEF Spec, StageNamed

---------------------------------------------------------------------------
\* A brownout on record has not been served, but for what a loss of power leaves in RTC memory
\* until printResetReason() clears it; nor has one the reset reason tells of, up to initBrownout().
Unserved ==
    /\ lastEnd # "none" => reason = lastEnd
    /\ lastEnd = "none" => reason = "power"
    /\ brownoutStatus = "B" => unserved \/ (pc \in {"off", "log"} /\ reason = "power")
    /\ reason \in Brownouts /\ pc \in {"off", "log", "brownout"} => unserved

\* Every step keeps a brownout unserved until initBrownout().
LEMMA UnservedStep == Unserved /\ [Next]_vars => Unserved'
<1> SUFFICES ASSUME Unserved, [Next]_vars PROVE Unserved'
  OBVIOUS
<1> USE DEF Unserved, Brownouts
<1>1. CASE PowerUp \/ PrintResetReason
  BY <1>1 DEF PowerUp, PrintResetReason, history
<1>2. CASE InitBrownout
  BY <1>2 DEF InitBrownout
<1>3. CASE RemoteLogInit \/ SetupEnds \/ PingAnswered
  BY <1>3 DEF RemoteLogInit, SetupEnds, PingAnswered, rtc, history
<1>4. CASE OtaConfirm \/ OtaWritten \/ RailMoves \/ BatterySags \/ SagShutdown
  BY <1>4 DEF OtaConfirm, OtaWritten, RailMoves, BatterySags, SagShutdown, rtc, history
<1>5. CASE Warned \/ BodLevel \/ ProbeStart \/ ProbeStep \/ ProbeEnds
  BY <1>5 DEF Warned, BodLevel, ProbeStart, ProbeStep, ProbeEnds, rtc, history
<1>6. CASE DoRestart \/ StageDone
  BY <1>6 DEF DoRestart, StageDone, Mark
<1>7. CASE EspRestart
  <2>1. /\ pc = "stop" /\ pc' = "off" /\ reason' = "restart" /\ lastEnd' = "restart"
        /\ UNCHANGED <<brownoutStatus, unserved>>
    BY <1>7 DEF EspRestart, LifeOver
  <2> QED
    BY <2>1
<1>8. CASE \E cause \in Causes : Fails(cause)
  <2>1. PICK cause \in Causes : Fails(cause)
    BY <1>8
  <2>2. /\ pc \notin {"off", "log"} /\ pc' = "off" /\ reason' = cause /\ lastEnd' = cause
        /\ cause # "none" /\ unserved' = (unserved \/ cause \in Brownouts)
    BY <2>1, BootAssumption DEF Fails, LifeOver
  <2>3. cause # "power" => brownoutStatus' = IF cause = "brownoutIsr" THEN "B" ELSE brownoutStatus
    BY <2>1 DEF Fails
  <2> QED
    BY <2>2, <2>3
<1>9. CASE UNCHANGED vars
  BY <1>9 DEF vars, rtc, history
<1> QED
  BY <1>1, <1>2, <1>3, <1>4, <1>5, <1>6, <1>7, <1>8, <1>9 DEF Next

\* A boot after a brownout holds recordings off, and none does for a brownout that has been
\* served, whatever RTC memory comes up with and with every race.
THEOREM HoldoffIsEarned == Spec => HoldoffFits
<1>1. Init => Unserved
  BY DEF Init, Unserved, Brownouts
<1>2. Unserved /\ [Next]_vars =>
        [pc = "brownout" /\ pc' = "storage" =>
           /\ brownoutThisBoot' => unserved
           /\ lastEnd \in Brownouts => brownoutThisBoot']_vars
  <2> SUFFICES ASSUME Unserved, [Next]_vars, pc = "brownout", pc' = "storage"
               PROVE  /\ brownoutThisBoot' => unserved
                      /\ lastEnd \in Brownouts => brownoutThisBoot'
    OBVIOUS
  <2>1. InitBrownout
    BY DEF Next, vars, PowerUp, PrintResetReason, RemoteLogInit, SetupEnds, PingAnswered, OtaConfirm, OtaWritten, RailMoves,
       BatterySags, SagShutdown, Warned, BodLevel, ProbeStart, ProbeStep, ProbeEnds, DoRestart, StageDone,
       EspRestart, Fails, LifeOver, Running, Probes
  <2> QED
    BY <2>1 DEF InitBrownout, HoldsOff, Unserved, Brownouts
<1> QED
  BY <1>1, <1>2, UnservedStep, PTL DEF Spec, HoldoffFits
=============================================================================
