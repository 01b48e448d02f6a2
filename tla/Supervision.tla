------------------------------ MODULE Supervision ------------------------------
(***************************************************************************)
(* Who keeps the board reachable and alive (utils.cpp): the ping session   *)
(* and wifiSupervise(), which restart the Wi-Fi station, the task watchdog *)
(* that the ping task and the capture task feed, and the firmware update,  *)
(* whose OTAprereq() takes all of it down before the transfer              *)
(* (mjpeg2sd.cpp, otaUpdate.cpp, webServer.cpp).                           *)
(*                                                                         *)
(* One round of supervisors() is one unit of time.  Only tasks other than  *)
(* the idle tasks count as subscribers of the watchdog.                    *)
(***************************************************************************)
EXTENDS Integers, FiniteSets

CONSTANTS
    Pings,          \* ping sessions, each with a task of its own
    DownRounds,     \* 60 seconds without a link before the station is restarted
    usePing,        \* whether a failed ping restarts a station that is connected
    APChoices,      \* what allowAP may be
    SupRaces           \* what the code does not provide for, see Allowed

ASSUME SupervisionAssumption ==
    /\ Pings \subseteq Nat \ {0} /\ IsFiniteSet(Pings)
    /\ DownRounds \in Nat \ {0}
    /\ usePing \in BOOLEAN /\ APChoices \subseteq BOOLEAN

VARIABLES
    router, sta, allowAP, apOn,      \* the network
    downFor, sinceRetry,             \* wifiSupervise(): rounds since downSince and lastRetry
    cap, frameTimer,                 \* the capture task
    pingHandle, pingTask,            \* the session on record, and every session's task
    twdtConfigured, watchDogStarted, subs,
    ota                              \* the update

net      == <<router, sta, allowAP, apOn>>
rounds   == <<downFor, sinceRetry>>
capture  == <<cap, frameTimer>>
ping     == <<pingHandle, pingTask>>
watchdog == <<twdtConfigured, watchDogStarted, subs>>
supVars     == <<net, rounds, capture, ping, watchdog, ota>>

NoPing == 0
Cap == 0          \* among the subscribers, next to the sessions

\* An order of events the code does not provide for, unless ok, happens only in
\* a run that asks for it.
Allowed(race, ok) == ok \/ race \in SupRaces

On == ota # "reset"

BootedUp ==
    /\ router \in BOOLEAN /\ sta = "joining" /\ allowAP \in APChoices /\ apOn = FALSE
    /\ downFor = 0 /\ sinceRetry = DownRounds
    /\ cap = "wait" /\ frameTimer = TRUE
    /\ pingHandle = NoPing /\ pingTask = [i \in Pings |-> "none"]
    /\ twdtConfigured = FALSE /\ watchDogStarted = [cap |-> FALSE, ping |-> FALSE] /\ subs = {}

SupInit == BootedUp /\ ota = "idle"
----------------------------------------------------------------------------
(* The network.                                                            *)
RouterChanges ==
    /\ On /\ router' = ~router
    /\ UNCHANGED <<sta, allowAP, apOn, rounds, capture, ping, watchdog, ota>>

\* A soft AP holds the radio on a channel of its own.
Reachable == router /\ ~apOn

Associates ==
    /\ On /\ sta = "joining" /\ Reachable
    /\ sta' = "up"
    /\ UNCHANGED <<router, allowAP, apOn, rounds, capture, ping, watchdog, ota>>

JoinFails ==
    /\ On /\ sta = "joining" /\ ~Reachable
    /\ sta' = "down"
    /\ UNCHANGED <<router, allowAP, apOn, rounds, capture, ping, watchdog, ota>>

\* setAutoReconnect(true): the network library retries after some kinds of loss.
AutoReconnects ==
    /\ On /\ sta = "down"
    /\ sta' = "joining"
    /\ UNCHANGED <<router, allowAP, apOn, rounds, capture, ping, watchdog, ota>>

LinkLost ==
    /\ On /\ sta = "up" /\ ~Reachable
    /\ sta' = "down"
    /\ UNCHANGED <<router, allowAP, apOn, rounds, capture, ping, watchdog, ota>>

SetAllowAP ==
    /\ On /\ allowAP' \in APChoices \ {allowAP}
    /\ UNCHANGED <<router, sta, apOn, rounds, capture, ping, watchdog, ota>>
----------------------------------------------------------------------------
(* The watchdog.                                                           *)

\* resetWatchDog() by a task that is enrolled, or is enrolled by it.
Pet(slot, task) ==
    IF watchDogStarted[slot]
       THEN UNCHANGED watchdog
       ELSE /\ twdtConfigured' = TRUE
            /\ watchDogStarted' = [watchDogStarted EXCEPT ![slot] = TRUE]
            /\ subs' = subs \cup {task}

\* stopWatchDog(): the entries are those of the tasks enrolled last.
StopWatchDog ==
    /\ twdtConfigured' = FALSE
    /\ watchDogStarted' = [cap |-> FALSE, ping |-> FALSE]
    /\ subs' = {}

Gone(task) ==
    IF task = Cap THEN cap = "gone" ELSE pingTask[task] = "none"

\* A subscriber that does not feed it in time resets the board.
Bites ==
    /\ On /\ twdtConfigured
    /\ \E task \in subs : Gone(task) \/ (task = Cap /\ cap = "stuck")
    /\ ota' = "reset"
    /\ UNCHANGED <<net, rounds, capture, ping, watchdog>>
----------------------------------------------------------------------------
(* startWifi() and startPing().                                            *)

\* The station is restarted at once; the AP and the ping session follow when the
\* wait for the association is over.
StationRestarts == sta' = "joining"

\* startPing() needs a gateway.
Unused == {i \in Pings : pingTask[i] = "none" /\ i \notin subs}
CanPing == pingHandle = NoPing /\ sta = "up" /\ Unused # {}
Session(tasks) ==
    IF CanPing
       THEN LET i == CHOOSE i \in Unused : TRUE
            IN  pingHandle' = i /\ pingTask' = [tasks EXCEPT ![i] = "idle"]
       ELSE pingHandle' = pingHandle /\ pingTask' = tasks

StartPing == Session(pingTask)

WifiStarted ==
    /\ apOn' = (apOn \/ allowAP)
    /\ UNCHANGED <<router, sta, allowAP>>
----------------------------------------------------------------------------
(* The capture task.                                                       *)
CapWake ==
    /\ On /\ cap = "wait" /\ frameTimer
    /\ cap' = "pass"
    /\ Pet("cap", Cap)
    /\ UNCHANGED <<net, rounds, frameTimer, ping, ota>>

\* A card that does not answer: a write has no timeout.
CapBlocks ==
    /\ On /\ cap = "pass"
    /\ cap' = "stuck"
    /\ UNCHANGED <<net, rounds, frameTimer, ping, watchdog, ota>>

CapPassEnds ==
    /\ On /\ cap = "pass"
    /\ cap' = "wait"
    /\ UNCHANGED <<net, rounds, frameTimer, ping, watchdog, ota>>

\* wifiSupervise() with a link.
Connected ==
    /\ On /\ cap = "pass" /\ sta = "up"
    /\ downFor' = 0
    /\ StartPing
    /\ UNCHANGED <<net, sinceRetry, capture, watchdog, ota>>

Later(n) == IF n < DownRounds THEN n + 1 ELSE n

\* A soft AP nobody asks for goes before the station is restarted.
RescueApLeft == apOn

RescueAp == apOn /\ allowAP

\* wifiSupervise() without one.
Disconnected ==
    /\ On /\ cap = "pass" /\ sta # "up"
    /\ downFor' = Later(downFor)
    /\ IF downFor' >= DownRounds /\ sinceRetry >= DownRounds
          THEN /\ sinceRetry' = 1
               /\ apOn' = RescueAp
               /\ cap' = "wifi"
               /\ StationRestarts
          ELSE /\ sinceRetry' = Later(sinceRetry)
               /\ UNCHANGED <<apOn, cap, sta>>
    /\ UNCHANGED <<router, allowAP, frameTimer, ping, watchdog, ota>>

CapWifiDone ==
    /\ On /\ cap = "wifi"
    /\ cap' = "pass"
    /\ WifiStarted /\ StartPing
    /\ UNCHANGED <<rounds, frameTimer, watchdog, ota>>
----------------------------------------------------------------------------
(* The ping tasks.                                                         *)

\* pingSuccess() and pingTimeout() both feed the watchdog.  The first looks after
\* the clock and remote services; the second restarts the station, unless its
\* network is not in sight or a link that answers nothing is to be left alone.
PingFires(i) ==
    /\ On /\ pingTask[i] = "idle" /\ pingHandle = i
    /\ Allowed("pingInTeardown", ota \in {"idle", "transfer", "failed"})
    /\ Pet("ping", i)
    /\ \E answered \in {FALSE, sta = "up"}, noSsid \in {FALSE, sta = "down"} :
        IF ~answered /\ ~noSsid /\ (usePing \/ sta # "up")
           THEN pingTask' = [pingTask EXCEPT ![i] = "wifi"] /\ StationRestarts
           ELSE pingTask' = [pingTask EXCEPT ![i] = "busy"] /\ UNCHANGED sta
    /\ UNCHANGED <<router, allowAP, apOn, rounds, capture, pingHandle, ota>>

\* The callback is over: a task whose session has been deleted ends, and
\* startWifi() starts a new session if there is none.
PingDone(i) ==
    /\ On /\ pingTask[i] \in {"busy", "wifi"}
    /\ LET after == [pingTask EXCEPT ![i] = IF pingHandle = i THEN "idle" ELSE "none"]
       IN  IF pingTask[i] = "wifi" THEN WifiStarted /\ Session(after)
           ELSE /\ pingTask' = after
                /\ UNCHANGED <<net, pingHandle>>
    /\ UNCHANGED <<rounds, capture, watchdog, ota>>
----------------------------------------------------------------------------
(* The update: OTAprereq() and the transfer after it.                      *)
OtaBegins ==
    /\ ota = "idle"
    /\ ota' = "landing"
    /\ StopWatchDog
    /\ UNCHANGED <<net, rounds, capture, ping>>

\* The streams have stopped and the recording has landed, or the wait is over.
OtaTimerOff ==
    /\ ota = "landing"
    /\ ota' = "park"
    /\ frameTimer' = FALSE
    /\ UNCHANGED <<net, rounds, cap, ping, watchdog>>

\* The capture task is between two passes, or is given up after three seconds.
OtaStopPing ==
    /\ ota = "park"
    /\ ota' = "end"
    /\ pingHandle' = NoPing
    /\ pingTask' = [i \in Pings |-> IF pingTask[i] = "idle" THEN "none" ELSE pingTask[i]]
    /\ UNCHANGED <<net, rounds, capture, watchdog>>

DeleteTaskOnly(task) == subs                                                \* MUTANT of DeleteTask: the entry outlives the task

DeleteTask(task) == subs \ {task}

OtaEndTasks ==
    /\ ota = "end"
    /\ ota' = "transfer"
    /\ cap' = "gone"
    /\ subs' = DeleteTask(Cap)
    /\ UNCHANGED <<net, rounds, frameTimer, ping, twdtConfigured, watchDogStarted>>

\* The restart after an update that worked, or was uploaded.
OtaRestarts ==
    /\ ota = "transfer"
    /\ ota' = "reset"
    /\ UNCHANGED <<net, rounds, capture, ping, watchdog>>

\* A download that fails, or an upload that cannot begin, leaves it at that.
OtaFails ==
    /\ ota = "transfer"
    /\ ota' = "failed"
    /\ UNCHANGED <<net, rounds, capture, ping, watchdog>>

SupNext ==
    \/ RouterChanges \/ Associates \/ JoinFails \/ LinkLost \/ AutoReconnects \/ SetAllowAP
    \/ Bites
    \/ CapWake \/ CapBlocks \/ CapPassEnds \/ Connected \/ Disconnected \/ CapWifiDone
    \/ \E i \in Pings : PingFires(i) \/ PingDone(i)
    \/ OtaBegins \/ OtaTimerOff \/ OtaStopPing \/ OtaEndTasks \/ OtaRestarts \/ OtaFails

\* The frame timer never stops but for an update, supervisors() come round every
\* ten seconds and the ping task every wifiTimeoutSecs.
SupFairness ==
    /\ WF_supVars(Associates) /\ WF_supVars(JoinFails) /\ WF_supVars(Bites)
    /\ WF_supVars(CapWake) /\ SF_supVars(CapPassEnds) /\ WF_supVars(CapWifiDone)
    /\ SF_supVars(Connected) /\ SF_supVars(Disconnected)
    /\ \A i \in Pings : WF_supVars(PingFires(i)) /\ WF_supVars(PingDone(i))
    /\ WF_supVars(OtaTimerOff) /\ WF_supVars(OtaStopPing) /\ WF_supVars(OtaEndTasks)

SupSpec == SupInit /\ [][SupNext]_supVars /\ SupFairness
----------------------------------------------------------------------------
(* Properties.                                                             *)

\* No transfer runs while the watchdog waits for a task that has gone: it would
\* reset the board in the middle of it (stopWatchDog(), deleteTask()).
UpdateNotBitten == ota = "transfer" => \A task \in subs : ~Gone(task)

\* A capture task that blocks on the card does not block the board for good: the
\* watchdog resets it, whoever else feeds the same watchdog (resetWatchDog()).
StuckIsReset == cap = "stuck" /\ ota = "idle" ~> ota # "idle" \/ cap # "stuck"

\* A router that stays is found again, whatever AP was left on and whether or not
\* a ping session was ever there to notice (wifiSupervise()).
Reconnects ==
    <>[](router /\ ~allowAP /\ ota = "idle" /\ cap # "stuck") => []<>(sta = "up")

\* A link that stays is watched by a ping session, however late it came up
\* (startPing(), wifiSupervise()).
LinkIsWatched ==
    <>[](sta = "up" /\ ota = "idle" /\ cap # "stuck") => <>[](pingHandle # NoPing)

\* A comment of mjpeg2sd.cpp:3366 calls the restart after an update guaranteed.
TeardownRestarts == (ota = "transfer") ~> (ota = "reset")
===============================================================================
