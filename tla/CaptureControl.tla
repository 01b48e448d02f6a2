--------------------------- MODULE CaptureControl ---------------------------
(***************************************************************************)
(* When the camera records (mjpeg2sd.cpp, processFrame()).  The capture    *)
(* task passes over one frame at a time and is the only one to open and    *)
(* close the file; what it decides depends on flags that the web server,   *)
(* the supply monitor, a restart and a firmware update write while a pass  *)
(* is under way.  The restart and the update also take the task away.      *)
(*                                                                         *)
(* Frames, the file's content (see AviClip) and clock values are           *)
(* abstracted: the stop timer is either running or over, a motion check    *)
(* sees motion or not.                                                     *)
(***************************************************************************)
EXTENDS Naturals

CONSTANTS
    FrameLimit,   \* frames a file is closed after
    Commands,     \* web commands that arrive
    Shutdowns,    \* "restart" and "ota"
    Sags,         \* TRUE: the supply may sag
    Brownout,     \* TRUE: the previous boot ended in a brownout
    NoCard,       \* TRUE: there is no SD card
    DashCam,      \* what dashcam may be configured as at boot
    CardFills,    \* TRUE: a closed file may leave too little free space
    Retimes,      \* TRUE: a pass may change the frame rate
    MaxCommands   \* bound on the exploration

ASSUME CaptureAssumption ==
    /\ FrameLimit \in Nat \ {0} /\ MaxCommands \in Nat
    /\ Commands \subseteq {"record", "forceRecord", "dashCamOn", "enableMotion", "framesize"}
    /\ Shutdowns \subseteq {"restart", "ota"}
    /\ DashCam \subseteq BOOLEAN
    /\ {Sags, Brownout, NoCard, CardFills, Retimes} \subseteq BOOLEAN

VARIABLES
    doRecording, forceRecord, dashCamOn, useMotion,
    videoSizeAllowed,  \* of the frame size that is set
    isCapturing, haveMotion, motionTriggered,
    quiet,             \* moveStopSecs have passed since the last motion
    prevCapture,       \* isCapturing at the start of the decision
    aviBusy,           \* the file is open
    frameCnt,
    supplySagging, supplyParked, shutdownPending,
    holdoffActive, holdoffSavedRecording,
    pass,              \* where the capture task is in processFrame()
    notified,          \* it has a notification
    frameTimer,        \* the frame timer runs
    shut,              \* where the restart or the update is
    landed,            \* its log says that the recording was closed
    gaveUp,            \* its log says that it did not wait any longer
    saveCapture,       \* the Save Capture toggle as the user, or a full or
                       \* missing card, left it (history)
    cmds               \* bound

toggles == <<doRecording, forceRecord, dashCamOn, useMotion, videoSizeAllowed>>
capture == <<isCapturing, haveMotion, motionTriggered, quiet, prevCapture>>
file    == <<aviBusy, frameCnt>>
supply  == <<supplySagging, supplyParked>>
holdoff == <<holdoffActive, holdoffSavedRecording>>
task    == <<pass, notified, frameTimer>>
closing == <<shut, landed, gaveUp, shutdownPending>>
history == <<saveCapture, cmds>>
vars    == <<toggles, capture, file, supply, holdoff, task, closing, history>>

\* prepRecording() holds recording off after a brownout, before it disables it
\* without a card.
Init ==
    /\ \E record \in BOOLEAN :
        /\ doRecording = (record /\ ~Brownout /\ ~NoCard)
        /\ holdoffSavedRecording = (record /\ Brownout)
        /\ saveCapture = (record /\ ~NoCard)
    /\ holdoffActive = Brownout
    /\ dashCamOn \in DashCam /\ forceRecord = dashCamOn
    /\ useMotion = (~dashCamOn /\ ~NoCard)
    /\ videoSizeAllowed = TRUE
    /\ isCapturing = FALSE /\ haveMotion = FALSE /\ motionTriggered = FALSE
    /\ quiet = TRUE /\ prevCapture = FALSE
    /\ aviBusy = FALSE /\ frameCnt = 0
    /\ supplySagging = FALSE /\ supplyParked = FALSE
    /\ pass = "wait" /\ notified = FALSE /\ frameTimer = TRUE
    /\ shut = "up" /\ landed = FALSE /\ gaveUp = FALSE /\ shutdownPending = FALSE
    /\ cmds = 0

Down  == shut \in {"restarted", "deleted"}
Alive == ~Down
----------------------------------------------------------------------------
(* The capture task, woken by the frame timer.                             *)
FrameISR ==
    /\ Alive /\ frameTimer /\ ~notified
    /\ notified' = TRUE
    /\ UNCHANGED <<toggles, capture, file, supply, holdoff, pass, frameTimer, closing, history>>

StartPass ==
    /\ Alive /\ pass = "wait" /\ notified
    /\ notified' = FALSE /\ pass' = "frame"
    /\ UNCHANGED <<toggles, capture, file, supply, holdoff, frameTimer, closing, history>>

\* No frame, one that does not fit, or one from before a size change.
NoFrame ==
    /\ Alive /\ pass = "frame"
    /\ pass' = "settle"
    /\ UNCHANGED <<toggles, capture, file, supply, holdoff, notified, frameTimer, closing,
                   history>>

DetectionActive == useMotion /\ ~dashCamOn

\* A check, if one is due with this frame, may find any state of affairs.
Detect ==
    /\ Alive /\ pass = "frame"
    /\ haveMotion' \in IF DetectionActive THEN BOOLEAN ELSE {FALSE}
    /\ quiet' = (quiet /\ ~haveMotion')
    /\ pass' = "decide"
    /\ UNCHANGED <<toggles, isCapturing, motionTriggered, prevCapture, file, supply, holdoff,
                   notified, frameTimer, closing, history>>

QuietElapses ==
    /\ Alive /\ ~haveMotion /\ ~quiet
    /\ quiet' = TRUE
    /\ UNCHANGED <<toggles, isCapturing, haveMotion, motionTriggered, prevCapture, file, supply,
                   holdoff, task, closing, history>>

\* Mutant: a parked device is not looked for.
BeginsParked == ~isCapturing /\ ((haveMotion /\ doRecording) \/ forceRecord)

\* A recording begins with motion or by force, and ends when what it was begun
\* for has ended.
Begins == ~isCapturing /\ ~supplyParked /\ ((haveMotion /\ doRecording) \/ forceRecord)
Ends   == isCapturing /\ ~forceRecord /\ (motionTriggered => quiet)

Decide ==
    /\ Alive /\ pass = "decide"
    /\ pass' = "check"
    /\ prevCapture' = isCapturing
    /\ LET wanted == Begins \/ (isCapturing /\ ~Ends)
           refused == wanted /\ ~videoSizeAllowed
       IN  /\ isCapturing' = (wanted /\ ~refused)
           /\ forceRecord' = (forceRecord /\ ~refused /\ ~(~isCapturing /\ supplyParked))
           /\ motionTriggered' = IF refused THEN FALSE
                                 ELSE IF Begins THEN haveMotion /\ ~forceRecord
                                 ELSE motionTriggered
    /\ UNCHANGED <<doRecording, dashCamOn, useMotion, videoSizeAllowed, haveMotion, quiet, file,
                   supply, holdoff, notified, frameTimer, closing, history>>

\* idleThrottle(), the supply, a shutdown and the end of the holdoff.
\* Mutant: the shutdown is not asked for here.
CheckNoShutdown ==
    /\ Alive /\ pass = "check"
    /\ supplySagging' = FALSE /\ supplyParked' = (supplyParked \/ supplySagging)
    /\ isCapturing' = (isCapturing /\ ~supplySagging)
    /\ forceRecord' = (forceRecord /\ ~supplySagging)
    /\ motionTriggered' = (motionTriggered /\ ~supplySagging)
    /\ doRecording' = (doRecording /\ ~supplySagging)
    /\ pass' = IF isCapturing' THEN IF prevCapture THEN "save" ELSE "open"
               ELSE IF prevCapture THEN "close" ELSE "settle"
    /\ UNCHANGED <<dashCamOn, useMotion, videoSizeAllowed, haveMotion, quiet, prevCapture, file,
                   holdoff, notified, frameTimer, closing, history>>

\* Mutant: the state before the pass is taken too late, after the supply.
CheckLate ==
    /\ Alive /\ pass = "check"
    /\ supplySagging' = FALSE /\ supplyParked' = (supplyParked \/ supplySagging)
    /\ LET stop == supplySagging \/ shutdownPending
       IN  /\ isCapturing' = (isCapturing /\ ~stop)
           /\ forceRecord' = (forceRecord /\ ~stop)
           /\ motionTriggered' = (motionTriggered /\ ~stop)
           /\ pass' = IF isCapturing /\ ~stop THEN IF prevCapture THEN "save" ELSE "open"
                      ELSE IF prevCapture /\ ~stop THEN "close" ELSE "settle"
    /\ UNCHANGED <<doRecording, dashCamOn, useMotion, videoSizeAllowed, haveMotion, quiet,
                   prevCapture, file, holdoff, notified, frameTimer, closing, history>>

Check ==
    /\ Alive /\ pass = "check"
    /\ frameTimer' \in {frameTimer, frameTimer \/ Retimes}
    /\ supplySagging' = FALSE /\ supplyParked' = (supplyParked \/ supplySagging)
    /\ LET stop == supplySagging \/ shutdownPending
       IN  /\ isCapturing' = (isCapturing /\ ~stop)
           /\ forceRecord' = (forceRecord /\ ~stop)
           /\ motionTriggered' = (motionTriggered /\ ~stop)
    /\ \E expires \in {FALSE, holdoffActive} :
        /\ holdoffActive' = (holdoffActive /\ ~expires)
        /\ doRecording' = IF expires THEN holdoffSavedRecording
                          ELSE doRecording /\ ~supplySagging
    /\ pass' = IF isCapturing' THEN IF prevCapture THEN "save" ELSE "open"
               ELSE IF prevCapture THEN "close" ELSE "settle"
    /\ UNCHANGED <<dashCamOn, useMotion, videoSizeAllowed, haveMotion, quiet, prevCapture, file,
                   holdoffSavedRecording, notified, closing, history>>

OpenAvi ==
    /\ Alive /\ pass = "open"
    /\ aviBusy' = TRUE /\ frameCnt' = 0
    /\ pass' = "wait"
    /\ UNCHANGED <<toggles, capture, supply, holdoff, notified, frameTimer, closing, history>>

Capped(n) == n >= FrameLimit

SaveFrame ==
    /\ Alive /\ pass = "save"
    /\ frameCnt' = frameCnt + 1
    /\ IF Capped(frameCnt + 1)
       THEN isCapturing' = FALSE /\ forceRecord' = FALSE /\ motionTriggered' = FALSE
       ELSE UNCHANGED <<isCapturing, forceRecord, motionTriggered>>
    /\ pass' = IF isCapturing' THEN "settle" ELSE "close"
    /\ UNCHANGED <<doRecording, dashCamOn, useMotion, videoSizeAllowed, haveMotion, quiet,
                   prevCapture, aviBusy, supply, holdoff, notified, frameTimer, closing,
                   history>>

\* A file with a frame in it stays, a dashcam then starts the next one, and a
\* card that has filled stops them all.
CloseAvi ==
    /\ Alive /\ pass = "close"
    /\ aviBusy' = FALSE
    /\ pass' = "settle"
    /\ \E full \in {FALSE, CardFills /\ frameCnt > 0} :
        /\ doRecording' = (doRecording /\ ~full)
        /\ saveCapture' = (saveCapture /\ ~full)
        /\ forceRecord' = ((forceRecord \/ (dashCamOn /\ frameCnt > 0)) /\ ~full)
    /\ UNCHANGED <<dashCamOn, useMotion, videoSizeAllowed, capture, frameCnt, supply, holdoff,
                   notified, frameTimer, closing, cmds>>

\* settleSensor(), which restarts the frame timer when the rate has changed.
EndPass ==
    /\ Alive /\ pass = "settle"
    /\ pass' = "wait"
    /\ frameTimer' \in {frameTimer, frameTimer \/ Retimes}
    /\ UNCHANGED <<toggles, capture, file, supply, holdoff, notified, closing, history>>
----------------------------------------------------------------------------
(* The flags' other writers: web commands and the supply.                  *)
Command ==
    /\ Alive /\ cmds < MaxCommands
    /\ cmds' = cmds + 1
    /\ \E on \in BOOLEAN :
        \/ /\ "record" \in Commands
           /\ doRecording' = on /\ saveCapture' = on
           /\ UNCHANGED <<forceRecord, dashCamOn, useMotion, videoSizeAllowed>>
        \/ /\ "forceRecord" \in Commands
           /\ forceRecord' = on
           /\ UNCHANGED <<doRecording, dashCamOn, useMotion, videoSizeAllowed, saveCapture>>
        \/ /\ "dashCamOn" \in Commands
           /\ dashCamOn' = on /\ forceRecord' = (forceRecord /\ on)
           /\ UNCHANGED <<doRecording, useMotion, videoSizeAllowed, saveCapture>>
        \/ /\ "enableMotion" \in Commands
           /\ useMotion' = on
           /\ UNCHANGED <<doRecording, forceRecord, dashCamOn, videoSizeAllowed, saveCapture>>
        \/ /\ "framesize" \in Commands
           /\ videoSizeAllowed' = on
           /\ UNCHANGED <<doRecording, forceRecord, dashCamOn, useMotion, saveCapture>>
    /\ UNCHANGED <<capture, file, supply, holdoff, task, closing>>

\* The comparator's interrupt, or the battery monitor.
Sag ==
    /\ Alive /\ Sags /\ ~supplySagging
    /\ supplySagging' = TRUE
    /\ UNCHANGED <<toggles, capture, file, supplyParked, holdoff, task, closing, history>>
----------------------------------------------------------------------------
(* appShutdown() in doRestart().  Both it and the update below give up a   *)
(* wait after a while; when that is while the task is still in a pass.     *)
AppShutdown ==
    /\ shut = "up" /\ "restart" \in Shutdowns
    /\ IF isCapturing
       THEN shutdownPending' = TRUE /\ doRecording' = FALSE /\ shut' = "landing"
       ELSE shut' = "leaving" /\ UNCHANGED <<shutdownPending, doRecording>>
    /\ UNCHANGED <<forceRecord, dashCamOn, useMotion, videoSizeAllowed, capture, file, supply,
                   holdoff, task, landed, gaveUp, history>>

Landing ==
    /\ shut = "landing"
    /\ \/ ~isCapturing /\ landed' = TRUE /\ UNCHANGED gaveUp
       \/ isCapturing /\ gaveUp' = TRUE /\ UNCHANGED landed
    /\ shut' = "leaving"
    /\ UNCHANGED <<toggles, capture, file, supply, holdoff, task, shutdownPending, history>>

Restart ==
    /\ shut = "leaving"
    /\ shut' = "restarted"
    /\ UNCHANGED <<toggles, capture, file, supply, holdoff, task, landed, gaveUp,
                   shutdownPending, history>>
----------------------------------------------------------------------------
(* OTAprereq(), which lands a recording, stops the frame timer, waits for  *)
(* the capture task to be between passes and deletes it.                   *)
OtaPrereq ==
    /\ shut = "up" /\ "ota" \in Shutdowns
    /\ forceRecord' = FALSE
    /\ shut' = "streams"
    /\ UNCHANGED <<doRecording, dashCamOn, useMotion, videoSizeAllowed, capture, file, supply,
                   holdoff, task, landed, gaveUp, shutdownPending, history>>

OtaCheck ==
    /\ shut = "streams"
    /\ IF isCapturing \/ aviBusy
       THEN shutdownPending' = TRUE /\ doRecording' = FALSE /\ shut' = "otaLanding"
       ELSE shut' = "timer" /\ UNCHANGED <<shutdownPending, doRecording>>
    /\ UNCHANGED <<forceRecord, dashCamOn, useMotion, videoSizeAllowed, capture, file, supply,
                   holdoff, task, landed, gaveUp, history>>

OtaLanding ==
    /\ shut = "otaLanding"
    /\ \/ ~isCapturing /\ ~aviBusy /\ landed' = TRUE /\ UNCHANGED gaveUp
       \/ (isCapturing \/ aviBusy) /\ gaveUp' = TRUE /\ UNCHANGED landed
    /\ shut' = "timer"
    /\ UNCHANGED <<toggles, capture, file, supply, holdoff, task, shutdownPending, history>>

OtaStopTimer ==
    /\ shut = "timer"
    /\ frameTimer' = FALSE
    /\ shut' = "park"
    /\ UNCHANGED <<toggles, capture, file, supply, holdoff, pass, notified, landed, gaveUp,
                   shutdownPending, history>>

\* A delay lets a latched notification start its burst before the wait begins.
\* (Not modelled: the wait may look in the instant between two bursts.)
OtaPark ==
    /\ shut = "park"
    /\ \/ pass = "wait" /\ ~notified /\ UNCHANGED gaveUp
       \/ pass # "wait" /\ gaveUp' = TRUE
    /\ shut' = "parked"
    /\ UNCHANGED <<toggles, capture, file, supply, holdoff, task, landed, shutdownPending,
                   history>>

EndTasks ==
    /\ shut = "parked"
    /\ shut' = "deleted"
    /\ UNCHANGED <<toggles, capture, file, supply, holdoff, task, landed, gaveUp,
                   shutdownPending, history>>
----------------------------------------------------------------------------
Pass == \/ Decide \/ Check \/ OpenAvi \/ SaveFrame \/ CloseAvi \/ EndPass

Shutdown == \/ AppShutdown \/ Landing \/ Restart \/ OtaPrereq \/ OtaCheck \/ OtaLanding
            \/ OtaStopTimer \/ OtaPark \/ EndTasks

Next == \/ FrameISR \/ StartPass \/ NoFrame \/ Detect \/ Pass \/ QuietElapses
        \/ Command \/ Sag \/ Shutdown

\* The timer fires, the task runs, the sensor delivers frames again and again,
\* and time passes.
Fairness ==
    /\ WF_vars(FrameISR) /\ WF_vars(StartPass) /\ SF_vars(Detect)
    /\ WF_vars(Pass) /\ WF_vars(QuietElapses)

Spec == Init /\ [][Next]_vars /\ Fairness
----------------------------------------------------------------------------
FlagsOK ==
    /\ doRecording \in BOOLEAN /\ forceRecord \in BOOLEAN /\ dashCamOn \in BOOLEAN
    /\ useMotion \in BOOLEAN /\ videoSizeAllowed \in BOOLEAN
    /\ isCapturing \in BOOLEAN /\ haveMotion \in BOOLEAN /\ motionTriggered \in BOOLEAN
    /\ quiet \in BOOLEAN /\ prevCapture \in BOOLEAN /\ aviBusy \in BOOLEAN
    /\ supplySagging \in BOOLEAN /\ supplyParked \in BOOLEAN
    /\ holdoffActive \in BOOLEAN /\ holdoffSavedRecording \in BOOLEAN
    /\ notified \in BOOLEAN /\ frameTimer \in BOOLEAN
    /\ landed \in BOOLEAN /\ gaveUp \in BOOLEAN /\ shutdownPending \in BOOLEAN
    /\ saveCapture \in BOOLEAN

StateOK ==
    /\ frameCnt \in 0..FrameLimit /\ cmds \in 0..MaxCommands
    /\ pass \in {"wait", "frame", "decide", "check", "open", "save", "close", "settle"}
    /\ shut \in {"up", "landing", "leaving", "restarted", "streams", "otaLanding", "timer",
                 "park", "parked", "deleted"}

TypeOK == FlagsOK /\ StateOK

\* Between two passes a file is open just when isCapturing says so: whatever
\* ends a recording, and at whatever point of a pass, the file is closed ("placed
\* here deliberately: after prevCapture has been taken, so the close path below
\* finalises the open file properly").
CaptureOwnsFile == pass = "wait" => isCapturing = aviBusy

\* Nothing opens a file once the device has parked itself on a failing supply
\* ("supplyParked also gates the record button").
ParkedOpensNothing == [][supplyParked => (aviBusy' => aviBusy)]_vars

\* A supply sag lands the recording for good: its file is closed and no other
\* stays open, whatever the record button, the dashcam, a toggle or the end of a
\* brownout's holdoff, which puts doRecording back, ask for afterwards
\* ("supplyParked also gates the record button").
SagLands == <>[](supplyParked /\ shut = "up") => <>[]~aviBusy

\* Motion starts a recording only while Save Capture is on ("doRecording is the
\* Save Capture toggle, and is also cleared when the SD card fills and when
\* there is no card at all").  In no run: the end of a holdoff puts back what the
\* toggle was at boot.
ToggleObeyed ==
    [][pass = "decide" /\ ~isCapturing /\ isCapturing' /\ ~forceRecord => saveCapture]_vars

\* When motion is over and nobody holds the record button every file is closed,
\* on whichever of the ways out of a recording it was.
QuietEnds == <>[](~haveMotion /\ ~forceRecord /\ ~dashCamOn /\ shut = "up") => <>[]~aviBusy

\* A dashcam that is left alone, and whose card has room (which is all that
\* clears the toggle then), records again after every file ("restart continuous
\* recording").
DashcamRolls ==
    [](cmds = 0 /\ dashCamOn /\ saveCapture /\ ~supplyParked /\ shut = "up") => []<>aviBusy

\* A restart that says "Recording closed cleanly for shutdown" has waited for
\* the file to be closed.
LandedForRestart == shut = "leaving" /\ landed => ~aviBusy

\* A recording that OTAprereq() landed stays landed: no other is open when the
\* capture task is deleted.
OtaKeepsLanded == shut = "deleted" /\ landed => ~aviBusy

\* "Land any open recording BEFORE endTasks() deletes the capture task": without
\* a warning no file is open when it is deleted.
OtaLandsRecording == shut = "deleted" /\ ~gaveUp => ~aviBusy

\* "vTaskDelete only ever lands here at the notify wait": without a warning the
\* capture task is between two passes when it is deleted.
DeletedAtWait == shut = "deleted" /\ ~gaveUp => pass = "wait"
=============================================================================
