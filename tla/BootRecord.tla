------------------------------ MODULE BootRecord ------------------------------
(***************************************************************************)
(* The lives of the board: how each one ends, and what the next one finds  *)
(* out about it.  doRestart() leaves a trail of stages in RTC memory and   *)
(* on the card, the crash loop flag and the sag count live in RTC memory,  *)
(* the brownout status decides on a holdoff, and a new firmware image      *)
(* stands or falls by what its first life shows (utilsLog.cpp, utils.cpp,  *)
(* mjpeg2sd.cpp).  The brownout comparator, which the restart disarms and  *)
(* the status page probes, is part of it.                                  *)
(*                                                                         *)
(* RTC memory survives every reset but the loss of power.                  *)
(***************************************************************************)
EXTENDS Integers, FiniteSets

CONSTANTS
    WARN_LVL, DET_LVL,   \* levels of the comparator: a higher one is a lower voltage
    Causes,              \* how a life may end, among those of Ends
    MaxLives,
    Cards,               \* whether the board has a card
    sdLog,               \* the log goes to the card too
    Races                \* what the code does not provide for, see Provided

ASSUME BootAssumption ==
    /\ Causes \subseteq {"panic", "brownoutIsr", "brownoutHw", "sleep", "power"}
    /\ Cards \subseteq BOOLEAN
    /\ WARN_LVL \in Nat /\ DET_LVL \in Nat /\ 0 < WARN_LVL /\ WARN_LVL < DET_LVL
    /\ MaxLives \in Nat /\ sdLog \in BOOLEAN

VARIABLES
    pc, life, reason,                             \* where this life is, its reset reason
    stage, byWeb,                                 \* doRestart(): its stage, whether the web server runs it
    restartStage, crashLoop, brownoutStatus, sagStage1Count, \* RTC memory
    sd, trace, crashLog,                          \* the card: last stage, whether this life kept the last one's log
    restartReport, brownoutThisBoot, crashLoopSuspected, saidLanded,
    cmp, rail, supplySagging, parked, probe,      \* the supply and the comparator
    ota, camOk, settled,                          \* the new image, whether its camera answers, whether otaConfirm() is done
    lastEnd, lastAt, lastStop, unserved, landed, landedLast   \* history, see Ends

rtc     == <<restartStage, crashLoop, brownoutStatus, sagStage1Count>>
card    == <<sd, trace, crashLog>>
report  == <<restartReport, brownoutThisBoot, crashLoopSuspected, saidLanded>>
supply  == <<cmp, rail, supplySagging, parked, probe>>
image   == <<ota, camOk, settled>>
history == <<lastEnd, lastAt, lastStop, unserved, landed, landedLast>>
stop    == <<stage, byWeb>>
vars    == <<pc, life, reason, stop, rtc, card, report, supply, image, history>>

\* An order of events the code does not provide for, unless ok, happens only in
\* a run that asks for it.
Provided(race, ok) == ok \/ race \in Races

\* How a life ends: a restart that completes, a panic or a watchdog, a brownout
\* the interrupt sees or one only the hardware sees, deep sleep, or a loss of
\* power (the reset button of this board counts as one).
Ends == {"restart", "panic", "brownoutIsr", "brownoutHw", "sleep", "power"}
Brownouts == {"brownoutIsr", "brownoutHw"}
Controlled == {"restart", "power", "sleep"}

\* The stages of doRestart() that matter by name, among 0..9.
NoStage == 0
BROWNOUT_DISARMED == 2
CRASHLOOP_RESET == 5
CALLING_ESP_RESTART == 8
IN_ESP_RESTART == 9

Off == [on |-> FALSE, level |-> DET_LVL, terminal |-> FALSE, intr |-> FALSE, cut |-> FALSE]
Armed(level, terminal) ==
    [on |-> TRUE, level |-> level, terminal |-> terminal, intr |-> TRUE, cut |-> terminal]
Idle == [at |-> 0, pending |-> FALSE, restore |-> DET_LVL]

Init ==
    /\ pc = "off" /\ life = 0 /\ reason = "power"
    /\ stage = NoStage /\ byWeb = FALSE
    /\ restartStage = NoStage /\ crashLoop = FALSE
    /\ brownoutStatus = "0" /\ sagStage1Count = 0
    /\ sd \in Cards /\ trace = NoStage /\ crashLog = FALSE
    /\ restartReport = NoStage /\ brownoutThisBoot = FALSE /\ crashLoopSuspected = FALSE
    /\ saidLanded = FALSE
    /\ cmp = Off /\ rail = 1 /\ supplySagging = FALSE /\ parked = FALSE /\ probe = Idle
    /\ ota = "none" /\ camOk = TRUE /\ settled = FALSE
    /\ lastEnd = "none" /\ lastAt = "off"
    /\ lastStop = [stage |-> NoStage, done |-> FALSE, told |-> TRUE]
    /\ unserved = FALSE /\ landed = FALSE /\ landedLast = FALSE
----------------------------------------------------------------------------
(* A life begins.                                                          *)

\* The bootloader falls back to the old image when the new one has not been
\* confirmed in its first life; IDF arms the comparator again.  utilsStartup()
\* then reaches logSetup().
PowerUp ==
    /\ pc = "off" /\ life < MaxLives
    /\ pc' = "log" /\ life' = life + 1
    /\ ota' = CASE ota = "written" -> "pending"
                [] ota = "pending" -> "aborted"
                [] OTHER -> ota
    /\ camOk' \in {TRUE, ota' # "pending"}
    /\ crashLoopSuspected' = crashLoop
    /\ crashLoop' = TRUE
    /\ UNCHANGED <<reason, stop, restartStage, brownoutStatus, sagStage1Count, card, restartReport,
                   brownoutThisBoot, saidLanded, supply, settled, history>>

\* printResetReason().
PrintResetReason ==
    /\ pc = "log"
    /\ brownoutStatus' = IF reason = "power" THEN "0" ELSE brownoutStatus
    /\ sagStage1Count' = IF reason = "power" THEN 0 ELSE sagStage1Count
    /\ saidLanded' = (reason \in Brownouts /\ sagStage1Count > 0)
    /\ restartReport' = restartStage
    /\ restartStage' = NoStage
    /\ landedLast' = FALSE
    /\ pc' = "brownout"
    /\ UNCHANGED <<life, reason, stop, crashLoop, card, brownoutThisBoot, crashLoopSuspected, supply,
                   image, lastEnd, lastAt, lastStop, unserved, landed>>

HoldsOffStill == brownoutStatus \in {"B", "R"} \/ reason \in Brownouts       \* MUTANT of HoldsOff: a served brownout holds off again

\* What a brownout of the life before makes of this one.
HoldsOff == brownoutStatus = "B" \/ reason \in Brownouts

\* initBrownout().
InitBrownout ==
    /\ pc = "brownout"
    /\ brownoutThisBoot' = HoldsOff
    /\ brownoutStatus' = IF brownoutStatus = "B" THEN "R" ELSE "0"
    /\ cmp' = Armed(DET_LVL, TRUE)
    /\ unserved' = FALSE
    /\ pc' = "storage"
    /\ UNCHANGED <<life, reason, stop, restartStage, crashLoop, sagStage1Count, card,
                   restartReport, crashLoopSuspected, saidLanded, rail, supplySagging, parked, probe,
                   image, lastEnd, lastAt, lastStop, landed, landedLast>>

\* saveCrashRamLog(): whether the log of the life before is worth keeping.
HungRestart == restartReport \notin {NoStage, IN_ESP_RESTART}
KeepsLogIfSuspected ==
    /\ sdLog /\ sd /\ reason # "power"
    /\ crashLoopSuspected                                                    \* MUTANT of KeepsLog: only a suspected crash loop counts

KeepsLog ==
    /\ sdLog /\ sd /\ reason # "power"
    /\ reason \notin Controlled \/ HungRestart \/ crashLoopSuspected

CompletedByTrace == trace >= CALLING_ESP_RESTART                            \* MUTANT of Completed: the reset reason is not looked at

\* reportRestartStage(): what the trace on the card says.
Completed == trace >= CALLING_ESP_RESTART /\ reason = "restart"

\* remote_log_init(): saveCrashRamLog() and then reportRestartStage(), which
\* consumes the trace.
RemoteLogInit ==
    /\ pc = "storage"
    /\ crashLog' = KeepsLog
    /\ sd' = sd
    /\ restartReport' = CASE ~sd \/ trace = NoStage -> restartReport
                          [] sd /\ trace # NoStage /\ Completed -> IN_ESP_RESTART
                          [] OTHER -> trace
    /\ trace' = IF sd THEN NoStage ELSE trace
    /\ lastStop' = [stage |-> NoStage, done |-> FALSE, told |-> TRUE]
    /\ pc' = "setup"
    /\ UNCHANGED <<life, reason, stop, rtc, brownoutThisBoot, crashLoopSuspected, saidLanded, supply,
                   image, lastEnd, lastAt, unserved, landed, landedLast>>

\* The rest of setup(), down to resetCrashLoop().
SetupEnds ==
    /\ pc = "setup"
    /\ crashLoop' = FALSE
    /\ pc' = "run"
    /\ UNCHANGED <<life, reason, stop, restartStage, brownoutStatus, sagStage1Count,
                   card, report, supply, image, history>>

\* pingSuccess(), once the network is there and its first status check is done.
PingAnswered ==
    /\ pc = "setup"
    /\ crashLoop' = FALSE
    /\ UNCHANGED <<pc, life, reason, stop, restartStage, brownoutStatus, sagStage1Count,
                   card, report, supply, image, history>>
----------------------------------------------------------------------------
(* A life.                                                                 *)
Running == pc \in {"run", "stop"}

\* otaConfirm(): with its camera and a card, the image counts as reachable once
\* the network is there, and after five minutes at the latest.  It settles without
\* a confirmation when no image waits for one, the state cannot be read, or the
\* mark fails.
OtaConfirm ==
    /\ pc = "run" /\ ~settled
    /\ settled' = TRUE
    /\ \/ UNCHANGED ota
       \/ ota = "pending" /\ camOk /\ sd /\ ota' = "valid"
    /\ UNCHANGED <<pc, life, reason, stop, rtc, card, report, supply, camOk, history>>

\* An update has been written: the next life is to run it.
OtaWritten ==
    /\ pc = "run" /\ ota = "none"
    /\ ota' = "written"
    /\ UNCHANGED <<pc, life, reason, stop, rtc, card, report, supply, camOk, settled, history>>

\* The supply falls, to the warning level or to the last one, and recovers.
RailMoves ==
    /\ Running
    /\ rail' \in {1, WARN_LVL, DET_LVL} \ {rail}
    /\ UNCHANGED <<pc, life, reason, stop, rtc, card, report, cmp, supplySagging, parked, probe,
                   image, history>>

\* battMonitor(), or the sag test: a sag the comparator has no part in.
BatterySags ==
    /\ pc = "run" /\ ~parked /\ ~supplySagging
    /\ supplySagging' = TRUE
    /\ UNCHANGED <<pc, life, reason, stop, rtc, card, report, cmp, rail, parked, probe, image, history>>

\* sagShutdown(), from the capture task.
SagShutdown ==
    /\ pc = "run" /\ supplySagging
    /\ supplySagging' = FALSE
    /\ parked' = TRUE
    /\ sagStage1Count' = 1
    /\ landed' = TRUE
    /\ UNCHANGED <<pc, life, reason, stop, restartStage, crashLoop, brownoutStatus,
                   card, report, cmp, rail, probe, image, lastEnd, lastAt, lastStop, unserved,
                   landedLast>>
----------------------------------------------------------------------------
(* The comparator.                                                         *)
Trips == cmp.on /\ cmp.intr /\ cmp.level <= rail

\* notifyBrownout() at a warning level.
Warned ==
    /\ Running /\ Trips /\ ~cmp.terminal
    /\ cmp' = [cmp EXCEPT !.intr = FALSE]
    /\ supplySagging' = TRUE
    /\ UNCHANGED <<pc, life, reason, stop, rtc, card, report, rail, parked, probe, image, history>>

\* The bodLevel command.
BodLevel ==
    /\ pc = "run" /\ probe.at = 0
    /\ Provided("bodLevel", FALSE)
    /\ cmp' = Armed(WARN_LVL, FALSE)
    /\ UNCHANGED <<pc, life, reason, stop, rtc, card, report, rail, supplySagging, parked, probe,
                   image, history>>

\* brownoutProbeBand(), for the status page: it walks down the levels until one
\* does not trip, and puts back the level and the sag it found.
Probes == Running /\ ~(pc = "stop" /\ byWeb)

ProbeStart ==
    /\ Probes /\ probe.at = 0 /\ ~cmp.terminal
    /\ pc = "stop" => Provided("pollInStop", FALSE)
    /\ probe' = [at |-> WARN_LVL, pending |-> supplySagging, restore |-> cmp.level]
    /\ supplySagging' = FALSE
    /\ cmp' = Armed(WARN_LVL, FALSE)
    /\ UNCHANGED <<pc, life, reason, stop, rtc, card, report, rail, parked, image, history>>

ProbeStep ==
    /\ Probes /\ probe.at \in WARN_LVL..DET_LVL /\ ~Trips
    /\ IF supplySagging /\ probe.at < DET_LVL
          THEN /\ probe' = [probe EXCEPT !.at = @ + 1]
               /\ supplySagging' = FALSE
               /\ cmp' = Armed(probe.at + 1, FALSE)
          ELSE /\ probe' = [probe EXCEPT !.at = DET_LVL + 1]
               /\ cmp' = Armed(probe.restore, FALSE)
               /\ UNCHANGED supplySagging
    /\ UNCHANGED <<pc, life, reason, stop, rtc, card, report, rail, parked, image, history>>

ProbeEnds ==
    /\ Probes /\ probe.at = DET_LVL + 1
    /\ probe' = Idle
    /\ supplySagging' = probe.pending
    /\ UNCHANGED <<pc, life, reason, stop, rtc, card, report, cmp, rail, parked, image, history>>
----------------------------------------------------------------------------
(* doRestart().                                                            *)

\* markRestartStage(): RTC memory always, the card up to the call of esp_restart().
Mark(k) ==
    /\ stage' = k
    /\ restartStage' = k
    /\ trace' = IF sd /\ k < IN_ESP_RESTART THEN k ELSE trace
    /\ lastStop' = [stage |-> k, done |-> FALSE, told |-> FALSE]

\* The web server, or another task: the update or MQTT.
DoRestart ==
    /\ pc = "run"
    /\ byWeb' \in BOOLEAN
    /\ byWeb' => probe.at = 0
    /\ pc' = "stop"
    /\ Mark(1)
    /\ UNCHANGED <<life, reason, crashLoop, brownoutStatus, sagStage1Count, sd, crashLog, report,
                   supply, image, lastEnd, lastAt, unserved, landed, landedLast>>

DisarmedIntr == [cmp EXCEPT !.intr = FALSE]                                 \* MUTANT of Disarmed: only the interrupt is stopped

\* disarmBrownout() quiets the comparator.
Disarmed == [cmp EXCEPT !.on = FALSE, !.terminal = FALSE, !.intr = FALSE, !.cut = FALSE]

\* A stage is over and the next one is marked.
StageDone ==
    /\ pc = "stop" /\ stage < CALLING_ESP_RESTART
    /\ Mark(stage + 1)
    /\ crashLoop' = IF stage + 1 = CRASHLOOP_RESET THEN FALSE ELSE crashLoop
    /\ IF stage + 1 = BROWNOUT_DISARMED
          THEN cmp' = Disarmed /\ UNCHANGED <<rail, supplySagging, parked, probe>>
          ELSE UNCHANGED supply
    /\ UNCHANGED <<pc, life, reason, byWeb, brownoutStatus, sagStage1Count, sd, crashLog, report,
                   image, lastEnd, lastAt, unserved, landed, landedLast>>

\* All that a life keeps in plain memory goes with it.
LifeOver ==
    /\ pc' = "off" /\ life' = life
    /\ stage' = NoStage /\ byWeb' = FALSE
    /\ restartReport' = NoStage /\ brownoutThisBoot' = FALSE /\ crashLoopSuspected' = FALSE
    /\ saidLanded' = FALSE
    /\ cmp' = Off /\ rail' = 1 /\ supplySagging' = FALSE /\ parked' = FALSE /\ probe' = Idle
    /\ camOk' = TRUE /\ settled' = FALSE
    /\ lastAt' = IF pc = "run" THEN "run" ELSE "off"
    /\ landedLast' = landed /\ landed' = FALSE
    /\ crashLog' = FALSE

\* esp_restart() runs restartStageShutdownHandler(), unless IDF had no free slot to
\* register it in.
EspRestart ==
    /\ pc = "stop" /\ stage = CALLING_ESP_RESTART
    /\ \E slot \in BOOLEAN :
        /\ Provided("noSlot", slot)
        /\ restartStage' = IF slot THEN IN_ESP_RESTART ELSE restartStage
    /\ reason' = "restart" /\ LifeOver
    /\ lastEnd' = "restart"
    /\ lastStop' = [lastStop EXCEPT !.done = TRUE]
    /\ UNCHANGED <<crashLoop, brownoutStatus, sagStage1Count, sd, trace, ota, unserved>>

\* goToSleep(), from the ping callback: it runs once the network is up, before
\* setup() is over and while doRestart() is under way.
MaySleep == pc \in {"setup", "run", "stop"}

\* Any other end.  The interrupt of the terminal stage marks the brownout; a
\* loss of power takes RTC memory with it.
Fails(cause) ==
    /\ pc \notin {"off", "log"} /\ cause \in Causes
    /\ cause = "brownoutIsr" => Trips /\ cmp.terminal
    /\ cause = "sleep" => MaySleep
    /\ Provided("cutBoot", pc \notin {"brownout", "storage"} \/ lastStop.told \/ ~lastStop.done)
    /\ reason' = cause /\ LifeOver
    /\ lastEnd' = cause
    /\ unserved' = (unserved \/ cause \in Brownouts)
    /\ IF cause = "power"
          THEN /\ restartStage' = NoStage /\ crashLoop' = FALSE
               /\ brownoutStatus' \in {"0", "B", "R"}
               /\ sagStage1Count' \in {0, 1}
          ELSE /\ brownoutStatus' = IF cause = "brownoutIsr" THEN "B" ELSE brownoutStatus
               /\ UNCHANGED <<restartStage, crashLoop, sagStage1Count>>
    /\ UNCHANGED <<sd, trace, ota, lastStop>>

Next ==
    \/ PowerUp \/ PrintResetReason \/ InitBrownout \/ RemoteLogInit \/ SetupEnds
    \/ PingAnswered
    \/ OtaConfirm \/ OtaWritten
    \/ RailMoves \/ BatterySags \/ SagShutdown
    \/ Warned \/ BodLevel \/ ProbeStart \/ ProbeStep \/ ProbeEnds
    \/ DoRestart \/ StageDone \/ EspRestart
    \/ \E cause \in Causes : Fails(cause)

\* The supervisors of the capture task come round every ten seconds.
Fairness == WF_vars(OtaConfirm)

Spec == Init /\ [][Next]_vars /\ Fairness
----------------------------------------------------------------------------
(* Properties.                                                             *)

\* The first boot that reads the trail tells the truth about the last restart:
\* that it completed, or the stage at which it stopped, whatever ended it and
\* however many boots died before they could read it (reportRestartStage(),
\* printResetReason()).
StageNamed ==
    [][pc = "storage" /\ pc' = "setup" /\ ~lastStop.told =>
         CASE lastStop.done -> restartReport' = IN_ESP_RESTART
           [] ~lastStop.done /\ sd -> restartReport' = lastStop.stage
           [] OTHER -> restartReport' \in {NoStage, lastStop.stage}]_vars

\* A boot after a brownout holds recordings off, and a brownout is served once:
\* no later boot holds off for it (initBrownout(), hadBrownout()).
HoldoffFits ==
    [][pc = "brownout" /\ pc' = "storage" =>
         /\ brownoutThisBoot' => unserved
         /\ lastEnd \in Brownouts => brownoutThisBoot']_vars

\* Whether a life was ended in order: by a restart that completed, by a loss of
\* power, or by deep sleep that came neither before the end of setup() nor in the
\* middle of a restart.
EndedInOrder == lastEnd \in Controlled /\ ~(lastEnd = "sleep" /\ lastAt # "run")

\* The log of a life that crashed is kept by the next one, and none is kept of a
\* life that was ended in order, however many boots died in between
\* (saveCrashRamLog()).
CrashKept ==
    pc = "run" /\ sdLog /\ sd /\ life > 1 =>
        /\ lastEnd \notin Controlled => crashLog
        /\ crashLog => ~EndedInOrder

\* From the disarming on, nothing the status page does lets the comparator cut
\* the flash off under a restart (disarmBrownout(), brownoutProbeBand()).
NeverCutInStop == pc = "stop" /\ stage >= BROWNOUT_DISARMED => ~cmp.cut

\* A comment of utilsLog.cpp:72 says the next boot can tell whether the sag
\* response ran before the supply went.
SaidLandedTrue == [][pc = "log" /\ saidLanded' => landedLast]_vars

\* A comment of mjpeg2sd.cpp:2481 says any image that simply stays up gets confirmed.
StaysUpConfirmed == (pc = "run" /\ ota = "pending") ~> (ota = "valid" \/ pc # "run")

\* A comment of utilsLog.cpp:651 says a restart leaves the comparator not even enabled.
StopQuiet == pc = "stop" /\ stage >= BROWNOUT_DISARMED => ~cmp.on

\* A comment of utilsLog.cpp:791 says a probe never loses a real trip.
TripKept ==
    Running /\ probe.at = 0 /\ cmp.on /\ cmp.level <= rail =>
        supplySagging \/ parked \/ cmp.intr
===============================================================================
